---------------------------- MODULE StorageAccess ----------------------------
(***************************************************************************)
(* What the job fence promises about access to one storage, without saying *)
(* how: jobs arrive one at a time and are numbered; a job may run as soon  *)
(* as every earlier job it conflicts with has completed, where two jobs    *)
(* conflict if either of them is a fence job.  Ordinary jobs overlap and   *)
(* complete in any order.                                                  *)
(***************************************************************************)
EXTENDS Integers

CONSTANT Jobs

VARIABLES
    ticket,     \* order of arrival, 0 for a job that has not arrived
    issued,     \* the last number given out
    fences,     \* the arrived jobs that need the storage for themselves
    started,    \* jobs that are running or have run
    done        \* jobs that have completed

accessVars == <<ticket, issued, fences, started, done>>

Init ==
    /\ ticket = [j \in Jobs |-> 0]
    /\ issued = 0
    /\ fences = {}
    /\ started = {}
    /\ done = {}

(* In a state with these values, j conflicts with nothing that arrived     *)
(* earlier and is still to complete.                                       *)
MayRun(j, t, f, d) ==
    /\ t[j] # 0
    /\ \A i \in Jobs :
          0 < t[i] /\ t[i] < t[j] /\ (i \in f \/ j \in f) => i \in d

(* Any of the jobs that may run now start.                                 *)
StartSome ==
    /\ started \subseteq started'
    /\ \A j \in started' \ started : MayRun(j, ticket', fences', done')

Arrive(j) ==
    /\ ticket[j] = 0
    /\ issued' = issued + 1
    /\ ticket' = [ticket EXCEPT ![j] = issued + 1]
    /\ fences' \in {fences, fences \union {j}}
    /\ done' = done
    /\ started' \in SUBSET Jobs
    /\ StartSome

Finish(j) ==
    /\ j \in started \ done
    /\ done' = done \union {j}
    /\ UNCHANGED <<ticket, issued, fences>>
    /\ started' \in SUBSET Jobs
    /\ StartSome

Next == \E j \in Jobs : Arrive(j) \/ Finish(j)

Spec == Init /\ [][Next]_accessVars
=============================================================================
