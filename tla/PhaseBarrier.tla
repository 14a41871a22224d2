----------------------------- MODULE PhaseBarrier -----------------------------
(***************************************************************************)
(* What barrier.h promises the scheduler: time passes in phases; every     *)
(* member runs in every phase, at most ParallelThreads at a time; a phase  *)
(* ends when every member that is there has run.  A member that leaves and *)
(* comes back within a phase runs again in it.                             *)
(***************************************************************************)
EXTENDS Integers, FiniteSets

CONSTANTS Tids,             \* the contexts the barrier synchronises
          ParallelThreads,  \* how many may run at a time
          CleanupPeriod     \* phases are numbered modulo this

VARIABLES status,  \* of each tid: "out", "pending" (still to run in this
                   \* phase), "running", or "done" (has run in it)
          phase

Init ==
  /\ status = [t \in Tids |-> "out"]
  /\ phase = 0

InStatus(s) == {t \in Tids : status[t] = s}

Join(t) ==
  /\ status[t] = "out"
  /\ status' = [status EXCEPT ![t] = "pending"]
  /\ UNCHANGED phase

Start(t) ==
  /\ status[t] = "pending"
  /\ Cardinality(InStatus("running")) < ParallelThreads
  /\ status' = [status EXCEPT ![t] = "running"]
  /\ UNCHANGED phase

Sync(t) ==
  /\ status[t] = "running"
  /\ status' = [status EXCEPT ![t] = "done"]
  /\ UNCHANGED phase

Leave(t) ==
  /\ status[t] # "out"
  /\ status' = [status EXCEPT ![t] = "out"]
  /\ UNCHANGED phase

EndPhase ==
  /\ InStatus("pending") = {}
  /\ InStatus("running") = {}
  /\ InStatus("done") # {}
  /\ status' = [t \in Tids |-> IF status[t] = "done" THEN "pending" ELSE "out"]
  /\ phase' = (phase + 1) % CleanupPeriod

Next ==
  \/ \E t \in Tids : Join(t) \/ Start(t) \/ Sync(t) \/ Leave(t)
  \/ EndPhase

Spec == Init /\ [][Next]_<<status, phase>>
==============================================================================
