------------------------------ MODULE PartFile ------------------------------
(***************************************************************************)
(* The part file of a torrent (part_file.cpp) and the storage's choice     *)
(* between it and the real files (mmap_storage.cpp): data of a file whose  *)
(* priority is 0 is written to slots of the part file, one per piece, and  *)
(* is exported to the file when its priority is raised.  The map from      *)
(* pieces to slots is kept in memory and written to the part file's header *)
(* now and then.  The process may be killed between any two steps.         *)
(*                                                                         *)
(* What a piece and a file share is a unit, the amount that is written at  *)
(* once; its content is the number of the write that it comes from.  Jobs  *)
(* that change priorities or flush the header run alone (DiskJobFence).    *)
(* The operators named BUG_... are wrong variants of the definition that   *)
(* follows them.                                                           *)
(***************************************************************************)
EXTENDS Integers, Sequences, FiniteSets, SequencesExt, FiniteSetsExt

CONSTANTS
    NumFiles, NumPieces,
    Layout,         \* unit (piece, file) -> the parts of the piece it covers
    FullPieces,     \* the pieces of the full size: all but perhaps the last
    FirstPriorities,    \* the priorities the torrent may be added with
    MaxWrites,      \* bound on the writes
    MaxChanges,     \* bound on the user's changes of priorities
    MaxFaults,      \* bound on the disk errors
    MaxRestarts     \* bound on the stops and crashes

Files == 1 .. NumFiles
Pieces == 0 .. NumPieces - 1
Units == DOMAIN Layout
PartsOf(p) == UNION {Layout[u] : u \in {v \in Units : v[1] = p}}
Parts == UNION {PartsOf(p) : p \in Pieces}
Priorities == {0, 4}

ASSUME PartFileAssumption ==
    /\ NumFiles \in Nat \ {0} /\ NumPieces \in Nat \ {0}
    /\ Units \subseteq Pieces \X Files /\ FullPieces \subseteq Pieces
    /\ \A u \in Units : Layout[u] # {}
    /\ \A u, v \in Units : u[1] = v[1] /\ u # v => Layout[u] \cap Layout[v] = {}
    /\ FirstPriorities \subseteq [Files -> Priorities]
    /\ {MaxWrites, MaxChanges, MaxFaults, MaxRestarts} \subseteq Nat

VARIABLES
    priority, outstanding, deferred,    \* torrent: m_file_priority, m_outstanding_file_priority,
                    \*   m_deferred_file_priorities
    saved,          \* the priorities in the resume data
    prio, use,      \* mmap_storage: m_file_priority, m_use_partfile
    part,           \* m_part_file
    disk,           \* the part file and the files
    writing,        \* the running writes to the part file: unit -> slot
    job,            \* the set_file_priority job
    tick,           \* m_need_tick
    last,           \* unit -> its last completed write, 0 once one has failed
    durable,        \* unit -> its last write when resume data was saved
    wanted,         \* file -> the priority the user asked for last
    broken,         \* the files that were not exported though they should have been
    budget          \* what is left of the bounds

torrentVars == <<priority, outstanding, deferred, saved, wanted>>
ghosts == <<last, durable, broken>>
vars == <<torrentVars, prio, use, part, disk, writing, job, tick, ghosts, budget>>

Spend(b) == budget[b] > 0 /\ budget' = [budget EXCEPT ![b] = @ - 1]
Over(f, g) == [x \in DOMAIN f \union DOMAIN g |-> IF x \in DOMAIN f THEN f[x] ELSE g[x]]
With(f, x, v) == Over([y \in {x} |-> v], f)
Without(f, x) == [y \in DOMAIN f \ {x} |-> f[y]]

(* The elements of a set of numbers in ascending order.                    *)
Ascending(S) == CHOOSE q \in [1 .. Cardinality(S) -> S] : \A i, k \in DOMAIN q : i < k => q[i] < q[k]
-----------------------------------------------------------------------------
(***************************************************************************)
(* part_file.  On disk its header is a map, empty when it was not written  *)
(* or when there is no file.                                               *)
(***************************************************************************)

NoPartFile == [open |-> FALSE, map |-> <<>>, free |-> <<>>, num_allocated |-> 0, dirty |-> FALSE]

(* The constructor: the slots below num_allocated that no piece has are free. *)
BUG_HolesForgotten(header) ==
    [open |-> TRUE, map |-> header, free |-> <<>>, dirty |-> FALSE,
     num_allocated |-> Cardinality(DOMAIN header)]
Load(header) ==
    LET slots == {header[p] : p \in DOMAIN header}
        n == IF slots = {} THEN 0 ELSE Max(slots) + 1
    IN  [open |-> TRUE, map |-> header, num_allocated |-> n, dirty |-> FALSE,
         free |-> Ascending((0 .. n - 1) \ slots)]

(* allocate_slot *)
Allocate(pf, p) ==
    IF pf.free # <<>>
    THEN [pf EXCEPT !.map = With(@, p, Head(pf.free)), !.free = Tail(@), !.dirty = TRUE]
    ELSE [pf EXCEPT !.map = With(@, p, pf.num_allocated), !.num_allocated = @ + 1, !.dirty = TRUE]

WithSlot(pf, p) == IF p \in DOMAIN pf.map THEN pf ELSE Allocate(pf, p)

(* The end of export_file's loop, and free_piece.                          *)
Freed(pf, p) ==
    [pf EXCEPT !.map = Without(@, p), !.free = Append(@, pf.map[p]), !.dirty = TRUE]

(* flush_metadata_impl.  When no piece is left the file is removed and     *)
(* m_dirty_metadata stays set.                                             *)
BUG_FlushOnce(pf, d) == IF pf.dirty /\ d.header = <<>> THEN [d EXCEPT !.header = pf.map] ELSE d
Flushed(pf, d) ==
    IF ~ pf.dirty THEN d
    ELSE IF pf.map = <<>> THEN [d EXCEPT !.header = <<>>, !.cells = <<>>]
    ELSE [d EXCEPT !.header = pf.map]

FlushMetadata(ok) ==
    /\ disk' = IF ok THEN Flushed(part, disk) ELSE disk
    /\ part' = IF ok /\ part.map # <<>> THEN [part EXCEPT !.dirty = FALSE] ELSE part

(* The content of unit u in slot s: the write that all its parts come from *)
(* (0: none).                                                              *)
At(s, u) ==
    LET from == {IF <<s, k>> \in DOMAIN disk.cells THEN disk.cells[<<s, k>>] ELSE <<u, 0>> :
                    k \in Layout[u]}
    IN  IF \E n \in 0 .. MaxWrites : from = {<<u, n>>} THEN (CHOOSE c \in from : TRUE)[2] ELSE 0

(* pread_all: a read that the end of the file cuts short is an error.      *)
ShortRead(s, u) ==
    \A c \in DOMAIN disk.cells : c[1] < s \/ (c[1] = s /\ c[2] < Max(Layout[u]))

Written(s, u, n) == Over([c \in {s} \X Layout[u] |-> <<u, n>>], disk.cells)
-----------------------------------------------------------------------------
(***************************************************************************)
(* mmap_storage.                                                           *)
(***************************************************************************)

UsesPartFile(f) == prio[f] = 0 /\ use[f]

(* read: what the storage finds where it looks for unit u.                 *)
Seen(u) ==
    IF UsesPartFile(u[2])
    THEN IF u[1] \in DOMAIN part.map THEN At(part.map[u[1]], u) ELSE 0
    ELSE IF disk.files[u[2]] THEN disk.data[u] ELSE 0

(* need_partfile *)
NeedPartFile(pf, d) == IF pf.open THEN pf ELSE Load(d.header)

(* write: of a unit of a file, and of one of the part file, which opens    *)
(* (and creates) the file and takes a slot under m_mutex, and then writes. *)
Nr == MaxWrites - budget.writes + 1

(* A set_file_priority job is a fence: no write runs beside it.            *)
NoFence == job.at \in {"idle", "done"}

NeedTick == tick' = IF tick = "never" THEN "queued" ELSE tick

WriteFile(u) ==
    /\ NoFence /\ ~ UsesPartFile(u[2])
    /\ Spend("writes") /\ NeedTick
    /\ disk' = [disk EXCEPT !.files[u[2]] = TRUE, !.data[u] = Nr]
    /\ last' = [last EXCEPT ![u] = Nr]
    /\ UNCHANGED <<torrentVars, prio, use, part, writing, job, durable, broken>>

TakeSlot(u) ==
    /\ NoFence /\ UsesPartFile(u[2])
    /\ u \notin DOMAIN writing /\ budget.writes > Cardinality(DOMAIN writing)
    /\ part' = WithSlot(part, u[1])
    /\ writing' = With(writing, u, part'.map[u[1]])
    /\ UNCHANGED <<torrentVars, prio, use, disk, job, tick, ghosts, budget>>

WriteSlot(u) ==
    /\ u \in DOMAIN writing
    /\ writing' = Without(writing, u) /\ NeedTick
    /\ Spend("writes")
    /\ disk' = [disk EXCEPT !.cells = Written(writing[u], u, Nr)]
    /\ last' = [last EXCEPT ![u] = Nr]
    /\ UNCHANGED <<torrentVars, prio, use, part, job, durable, broken>>

(* A write that fails may have spoiled what was there.                     *)
WriteSlotFails(u) ==
    /\ u \in DOMAIN writing
    /\ writing' = Without(writing, u) /\ NeedTick
    /\ Spend("faults")
    /\ disk' \in {disk, [disk EXCEPT !.cells = Written(writing[u], u, 0)]}
    /\ last' = [last EXCEPT ![u] = 0] /\ durable' = [durable EXCEPT ![u] = 0]
    /\ UNCHANGED <<torrentVars, prio, use, part, job, broken>>

(* thread_fun calls tick() two minutes after a write, and once only:       *)
(* nobody calls do_tick, which would reset m_need_tick.                    *)
Tick ==
    /\ tick = "queued" /\ tick' = "done"
    /\ \/ FlushMetadata(part.open) /\ UNCHANGED budget
       \/ Spend("faults") /\ UNCHANGED <<disk, part>>
    /\ UNCHANGED <<torrentVars, prio, use, writing, job, ghosts>>
-----------------------------------------------------------------------------
(***************************************************************************)
(* set_file_priority: a job that sets the priorities to, file by file.     *)
(***************************************************************************)

NoJob == [at |-> "idle", to |-> <<>>, file |-> 1, piece |-> 0, err |-> FALSE]

Running(at) == job.at = at /\ writing = <<>>

(* The job ends.  It tells the torrent the priorities to, which it resets  *)
(* to those of the storage after some of the errors.                       *)
Done(err, to) == job' = [NoJob EXCEPT !.at = "done", !.to = to, !.err = err]

SetPriority(f, pf, newUse) ==
    /\ prio' = [prio EXCEPT ![f] = job.to[f]]
    /\ use' = [use EXCEPT ![f] = newUse]
    /\ part' = IF job.to[f] = 0 /\ newUse THEN NeedPartFile(pf, disk) ELSE pf
    /\ job' = [job EXCEPT !.at = "file", !.file = f + 1]

OnlyJob == UNCHANGED <<torrentVars, writing, tick, last, durable>>

(* A file whose priority is raised from 0 is created, with its full size,  *)
(* and what the part file has of it follows.                               *)
Raised(f) == prio[f] = 0 /\ job.to[f] # 0

RaiseFile ==
    /\ Running("file") /\ job.file <= NumFiles /\ Raised(job.file)
    /\ disk' = [disk EXCEPT !.files[job.file] = TRUE]
    /\ IF part.open /\ use[job.file]
       THEN job' = [job EXCEPT !.at = "export", !.piece = 0] /\ UNCHANGED <<prio, use, part>>
       ELSE SetPriority(job.file, part, use[job.file])
    /\ OnlyJob /\ UNCHANGED <<broken, budget>>

(* One whose priority is lowered to 0 uses the part file unless it exists. *)
Lowered(f) == prio[f] # 0 /\ job.to[f] = 0

BUG_UsedWhenLowered(f) == Lowered(f) \/ use[f]
UseAfter(f) == IF Lowered(f) THEN ~ disk.files[f] ELSE use[f]

KeepOrLowerFile ==
    /\ Running("file") /\ job.file <= NumFiles /\ ~ Raised(job.file)
    /\ SetPriority(job.file, part, UseAfter(job.file))
    /\ OnlyJob /\ UNCHANGED <<disk, broken, budget>>

(* The file cannot be opened, or not be looked for.                        *)
FileFails ==
    /\ Running("file") /\ job.file <= NumFiles /\ (Raised(job.file) \/ Lowered(job.file))
    /\ Spend("faults") /\ Done(TRUE, prio)
    /\ OnlyJob /\ UNCHANGED <<prio, use, part, disk, broken>>

(* export_file, for one piece: its unit is copied while m_mutex is not     *)
(* held, and the slot is freed if it held nothing else.                    *)
Unit == <<job.piece, job.file>>
HasUnit == Unit \in Units /\ job.piece \in DOMAIN part.map

ExportSkip ==
    /\ Running("export") /\ job.piece < NumPieces /\ ~ HasUnit
    /\ job' = [job EXCEPT !.piece = @ + 1]
    /\ OnlyJob /\ UNCHANGED <<prio, use, part, disk, broken, budget>>

ExportCopy ==
    /\ Running("export") /\ HasUnit /\ ~ ShortRead(part.map[job.piece], Unit)
    /\ disk' = [disk EXCEPT !.data[Unit] = At(part.map[job.piece], Unit)]
    /\ job' = [job EXCEPT !.at = "copied"]
    /\ OnlyJob /\ UNCHANGED <<prio, use, part, broken, budget>>

BUG_WholeInFile(p, f) == TRUE
WholeInFile(p, f) == p \in FullPieces /\ \A u \in Units : u[1] = p => u[2] = f

ExportFree ==
    /\ Running("copied")
    /\ part' = IF WholeInFile(job.piece, job.file) THEN Freed(part, job.piece) ELSE part
    /\ job' = [job EXCEPT !.at = "export", !.piece = @ + 1]
    /\ OnlyJob /\ UNCHANGED <<prio, use, disk, broken, budget>>

(* An error of the read resets the priorities.  The last slot may end      *)
(* before the unit, of which nothing was written.                          *)
ExportReadsShort ==
    /\ Running("export") /\ HasUnit /\ ShortRead(part.map[job.piece], Unit)
    /\ broken' = broken \union {job.file} /\ Done(TRUE, prio)
    /\ OnlyJob /\ UNCHANGED <<prio, use, part, disk, budget>>

ExportReadFails ==
    /\ Running("export") /\ HasUnit
    /\ Spend("faults") /\ broken' = broken \union {job.file} /\ Done(TRUE, prio)
    /\ OnlyJob /\ UNCHANGED <<prio, use, part, disk>>

(* An error of the file does not, so the torrent takes the rest of the job *)
(* for done too.                                                           *)
ExportWriteFails ==
    /\ Running("export") /\ HasUnit
    /\ Spend("faults") /\ broken' = broken \union {f \in Files : f >= job.file /\ Raised(f)}
    /\ Done(TRUE, job.to)
    /\ OnlyJob /\ UNCHANGED <<prio, use, part, disk>>

Exported ==
    /\ Running("export") /\ job.piece = NumPieces
    /\ SetPriority(job.file, part, use[job.file])
    /\ OnlyJob /\ UNCHANGED <<disk, broken, budget>>

FlushPriorities ==
    /\ Running("file") /\ job.file > NumFiles
    /\ \/ FlushMetadata(part.open) /\ Done(FALSE, job.to) /\ UNCHANGED budget
       \/ part.open /\ Spend("faults") /\ Done(TRUE, job.to) /\ UNCHANGED <<disk, part>>
    /\ OnlyJob /\ UNCHANGED <<prio, use, broken>>
-----------------------------------------------------------------------------
(***************************************************************************)
(* The torrent.                                                            *)
(***************************************************************************)

Start(to) == outstanding' = TRUE /\ job' = [NoJob EXCEPT !.at = "file", !.to = to]

StorageUnchanged == UNCHANGED <<prio, use, part, disk, writing, tick, ghosts>>

(* torrent::set_file_priority; it waits while another job is outstanding.  *)
SetFilePriority(f, n) ==
    /\ Spend("changes") /\ n # wanted[f]
    /\ wanted' = [wanted EXCEPT ![f] = n]
    /\ IF outstanding
       THEN deferred' = With(deferred, f, n) /\ UNCHANGED <<outstanding, job>>
       ELSE Start([priority EXCEPT ![f] = n]) /\ UNCHANGED deferred
    /\ UNCHANGED <<priority, saved>> /\ StorageUnchanged

(* fix_priorities: every priority above 0 is taken for a pad file's.       *)
FixPriorities(to) == [f \in Files |-> IF to[f] > 0 THEN 0 ELSE to[f]]

(* torrent::on_file_priority, with prioritize_files for those that waited. *)
OnFilePriority ==
    /\ job.at = "done" /\ priority' = job.to
    /\ IF ~ job.err /\ deferred # <<>>
       THEN Start(FixPriorities(Over(deferred, job.to))) /\ deferred' = <<>>
       ELSE outstanding' = FALSE /\ job' = NoJob /\ UNCHANGED deferred
    /\ UNCHANGED <<saved, wanted, budget>> /\ StorageUnchanged

(* save_resume_data with flush_disk_cache: release_files flushes the part  *)
(* file.  A failure is ignored.                                            *)
SaveResumeData ==
    /\ job.at = "idle" /\ writing = <<>> /\ saved' = priority
    /\ \/ FlushMetadata(part.open) /\ durable' = last /\ UNCHANGED budget
       \/ part.open /\ Spend("faults") /\ UNCHANGED <<disk, part, durable>>
    /\ UNCHANGED <<priority, outstanding, deferred, wanted, prio, use, writing, job, tick, last, broken>>
-----------------------------------------------------------------------------
(***************************************************************************)
(* Stops and crashes.                                                      *)
(***************************************************************************)

(* The torrent is added again with priorities to, and mmap_storage's       *)
(* initialize looks which files exist.                                     *)
Initialize(to, d) ==
    /\ prio' = to
    /\ use' = [f \in Files |-> ~ (to[f] = 0 /\ d.files[f])]
    /\ part' = IF \E f \in Files : to[f] = 0 /\ ~ d.files[f] THEN Load(d.header) ELSE NoPartFile

Restart(to) ==
    /\ Spend("restarts")
    /\ priority' = to /\ wanted' = to /\ saved' = to /\ outstanding' = FALSE /\ deferred' = <<>>
    /\ Initialize(to, disk')
    /\ writing' = <<>> /\ job' = NoJob /\ tick' = "never"
    /\ last' = [u \in Units |-> Seen(u)']
    /\ UNCHANGED durable

(* ~mmap_storage flushes the part file.                                    *)
Stop ==
    /\ job.at = "idle" /\ writing = <<>>
    /\ disk' = IF part.open THEN Flushed(part, disk) ELSE disk
    /\ Restart(priority) /\ UNCHANGED broken

Crash ==
    /\ disk' = disk
    /\ Restart(saved)
    /\ broken' = IF job.at \in {"export", "copied"} THEN broken \union {job.file} ELSE broken
-----------------------------------------------------------------------------
Init ==
    /\ disk = [header |-> <<>>, cells |-> <<>>, files |-> [f \in Files |-> FALSE],
               data |-> [u \in Units |-> 0]]
    /\ priority \in FirstPriorities /\ prio = priority /\ saved = priority /\ wanted = priority
    /\ use = [f \in Files |-> TRUE]
    /\ part = IF \E f \in Files : prio[f] = 0 THEN Load(<<>>) ELSE NoPartFile
    /\ outstanding = FALSE /\ deferred = <<>> /\ writing = <<>> /\ job = NoJob /\ tick = "never"
    /\ last = [u \in Units |-> 0] /\ durable = last /\ broken = {}
    /\ budget = [writes |-> MaxWrites, changes |-> MaxChanges, faults |-> MaxFaults,
                 restarts |-> MaxRestarts]

SetFilePriorityJob ==
    \/ RaiseFile \/ KeepOrLowerFile \/ FileFails \/ ExportSkip \/ ExportCopy \/ ExportFree
    \/ ExportReadsShort \/ ExportReadFails \/ ExportWriteFails \/ Exported \/ FlushPriorities

Next ==
    \/ \E u \in Units : WriteFile(u) \/ TakeSlot(u) \/ WriteSlot(u) \/ WriteSlotFails(u)
    \/ \E f \in Files, n \in Priorities : SetFilePriority(f, n)
    \/ SetFilePriorityJob \/ OnFilePriority \/ SaveResumeData \/ Tick \/ Stop \/ Crash

Spec == Init /\ [][Next]_vars
-----------------------------------------------------------------------------
TypeOK ==
    /\ {priority, saved, prio, wanted} \subseteq [Files -> Priorities]
    /\ use \in [Files -> BOOLEAN] /\ {outstanding, part.open, part.dirty} \subseteq BOOLEAN
    /\ DOMAIN part.map \subseteq Pieces /\ DOMAIN writing \subseteq Units
    /\ disk.files \in [Files -> BOOLEAN] /\ disk.data \in [Units -> 0 .. MaxWrites]

(* Every allocated slot is free or belongs to one piece, across exports,   *)
(* reuse, crashes and reloads of the header, there are no more slots than  *)
(* pieces (what the constructor asserts of a header), and a running write  *)
(* still owns its slot.                                                    *)
SlotsExact ==
    /\ TypeOK
    /\ LET taken == {part.map[p] : p \in DOMAIN part.map} IN
           /\ Cardinality(taken) = Cardinality(DOMAIN part.map)
           /\ IsInjective(part.free) /\ ToSet(part.free) \cap taken = {}
           /\ taken \union ToSet(part.free) = 0 .. part.num_allocated - 1
           /\ part.num_allocated <= NumPieces
    /\ \A u \in DOMAIN writing : u[1] \in DOMAIN part.map /\ part.map[u[1]] = writing[u]

(* The storage finds the last completed write of every unit where it looks *)
(* for it, in the part file or in the file, whatever the priorities were   *)
(* changed to in between, unless an export of the file was not completed.  *)
ReadsSeeWrites ==
    job.at \in {"idle", "done"} =>
        \A u \in Units : u[2] \notin broken /\ last[u] # 0 => Seen(u) = last[u]

(* What was written when resume data was saved is not lost in a crash.     *)
SavedIsKept ==
    \A u \in Units : u[2] \notin broken => last[u] >= durable[u]

(* An incomplete export destroys nothing: what was written is in the file  *)
(* or in the slot of its piece.                                            *)
NothingDestroyed ==
    \A u \in Units :
        \/ last[u] \in {0, disk.data[u]}
        \/ u[1] \in DOMAIN part.map /\ At(part.map[u[1]], u) = last[u]

(* When no change of priorities is outstanding, the file priorities are    *)
(* those that the user asked for.                                          *)
PrioritiesTakeEffect == ~ outstanding => priority = wanted
-----------------------------------------------------------------------------
(***************************************************************************)
(* What makes these properties inductive.                                  *)
(***************************************************************************)

SlotMap(m) ==
    /\ DOMAIN m \subseteq Pieces /\ m \in [DOMAIN m -> 0 .. NumPieces - 1]
    /\ \A p, q \in DOMAIN m : m[p] = m[q] => p = q

(* What was written so far has a smaller number than what will be.         *)
UpTo(n) == n \in 0 .. MaxWrites - budget.writes

StorageTypes ==
    /\ part \in [open : BOOLEAN, map : {part.map}, free : Seq(Nat), num_allocated : Nat, dirty : BOOLEAN]
    /\ disk \in [header : {disk.header}, cells : {disk.cells}, files : [Files -> BOOLEAN],
                 data : [Units -> Nat]]
    /\ SlotMap(part.map) /\ SlotMap(disk.header)
    /\ disk.cells \in [DOMAIN disk.cells -> Units \X Nat]
    /\ budget \in [writes : Nat, changes : Nat, faults : Nat, restarts : Nat]
    /\ last \in [Units -> Nat] /\ durable \in [Units -> Nat] /\ broken \subseteq Files
    /\ \A u \in Units : UpTo(last[u]) /\ UpTo(durable[u]) /\ UpTo(disk.data[u])
    /\ \A c \in DOMAIN disk.cells : UpTo(disk.cells[c][2])

(* The set_file_priority job; while it exports no write is running.        *)
Exporting == job.at \in {"export", "copied"}
Changing == job.at = "file" \/ Exporting

JobTypes ==
    /\ job \in [at : {"idle", "file", "export", "copied", "done"}, to : {job.to}, file : Nat,
                piece : Nat, err : BOOLEAN]
    /\ job.at # "idle" => job.to \in [Files -> Priorities]
    /\ Changing => job.file \in 1 .. NumFiles + 1
    /\ Exporting => job.file \in Files /\ job.piece \in 0 .. NumPieces /\ DOMAIN writing = {}
    /\ job.at = "copied" => HasUnit
    /\ DOMAIN deferred \subseteq Files /\ \A f \in DOMAIN deferred : deferred[f] \in Priorities

(* The part file is open for the files that use it, and it is exported to  *)
(* a file that is being raised and exists.                                 *)
OpenWhenUsed ==
    /\ outstanding = (job.at # "idle")
    /\ \A f \in Files : UsesPartFile(f) => part.open
    /\ ~ part.open => DOMAIN part.map = {}
    /\ \A u \in DOMAIN writing : UsesPartFile(u[2])
    /\ Exporting => Raised(job.file) /\ use[job.file] /\ disk.files[job.file]

(* The last write of a unit is where the storage looks for it, or already  *)
(* in the file that it is being exported to.                               *)
Copied(u) ==
    /\ Exporting /\ u[2] = job.file
    /\ u[1] < job.piece \/ (u[1] = job.piece /\ job.at = "copied")

Found(u) == IF Copied(u) THEN disk.data[u] = last[u] ELSE Seen(u) = last[u]

AllFound == \A u \in Units : u[2] \notin broken /\ last[u] # 0 => Found(u)

(* What a slot has is the last write of its unit, even if an export of the *)
(* file failed; a piece that has no slot any more was in that file only,   *)
(* and a slot is given up after its data were copied.                      *)
InSlots ==
    /\ \A u \in Units :
          last[u] # 0 /\ UsesPartFile(u[2]) /\ u \notin DOMAIN writing =>
              IF u[1] \in DOMAIN part.map THEN At(part.map[u[1]], u) = last[u]
              ELSE WholeInFile(u[1], u[2])
    /\ job.at = "copied" => last[Unit] \in {0, disk.data[Unit]}

(* A file that exists does not use the part file, unless it is being       *)
(* exported to or that failed; one that was written to without the part    *)
(* file exists;                                                            *)
ExistingAreUsed ==
    /\ \A f \in Files : disk.files[f] /\ UsesPartFile(f) => f \in broken \/ (Exporting /\ job.file = f)
    /\ \A u \in Units : last[u] # 0 /\ ~ UsesPartFile(u[2]) => disk.files[u[2]]

(* the torrent does not take a file for wanted that the storage does not;  *)
PrioritiesAgree ==
    \A f \in Files \ broken :
        prio[f] = 0 =>
            0 = IF job.at = "done" \/ (Changing /\ f < job.file) THEN job.to[f] ELSE priority[f]

(* and the header has the slots of the data that resume data protect.      *)
HeaderProtects ==
    /\ part.open /\ ~ part.dirty => disk.header = part.map
    /\ \A u \in Units :
          u[2] \notin broken /\ durable[u] # 0 /\ UsesPartFile(u[2]) /\ ~ disk.files[u[2]] =>
              /\ saved[u[2]] = 0
              /\ u[1] \in DOMAIN disk.header /\ u[1] \in DOMAIN part.map
              /\ disk.header[u[1]] = part.map[u[1]]

SlotInv == SlotsExact /\ StorageTypes /\ JobTypes
IInv ==
    /\ SlotInv /\ OpenWhenUsed /\ AllFound /\ InSlots
    /\ ExistingAreUsed /\ PrioritiesAgree /\ HeaderProtects /\ NothingDestroyed /\ SavedIsKept
=============================================================================
