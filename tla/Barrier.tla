------------------------------- MODULE Barrier -------------------------------
(***************************************************************************)
(* The phase barrier of barrier.h.  A "tid" of the barrier is a context    *)
(* (core) id of the scheduler.  Every operation runs under the scheduler's *)
(* schedLock; a thread that has to wait does so outside it, in FUTEX_WAIT  *)
(* on its own word.                                                        *)
(*                                                                         *)
(* One step is one iteration of a loop, one write that a waiter can        *)
(* observe, or one system call, so that waiters interleave with the        *)
(* critical section exactly where they can.                                *)
(***************************************************************************)
EXTENDS Integers, FiniteSets, TLC

CONSTANTS
  Tids,             \* the contexts that use the barrier
  NoTid,            \* "none of them"
  MaxThreads,       \* MAX_THREADS, the capacity of runList
  ParallelThreads,  \* parallelThreads
  CleanupPeriod,    \* a cleanup pass every so many phases: 32 in the code
  Garbage,          \* what an uninitialised lastIdx may hold
  Kills             \* may the process of a thread die inside the barrier?

ASSUME BarrierAssumption ==
  /\ IsFiniteSet(Tids)
  /\ NoTid \notin Tids
  /\ MaxThreads \in Nat /\ Cardinality(Tids) <= MaxThreads
  /\ ParallelThreads \in Nat \ {0}
  /\ CleanupPeriod \in Nat \ {0}
  /\ Garbage \subseteq Nat /\ Garbage # {}
  /\ Kills \in BOOLEAN

VARIABLES
  state, futexWord, lastIdx,      \* threadList[tid]
  runList, runListSize,           \* runList[0 .. runListSize-1]
  curThreadIdx, runningThreads, leftThreads,
  phaseCount,                     \* modulo CleanupPeriod, its only use
  caller, op,                     \* who is inside schedLock, in which call
  step, pass,                     \* where, in which checkRunList of tryWakeNext
  wtid, idx, newSize,             \* locals of the loops
  loc,                            \* where the thread on each context is
  aborted                         \* an assertion of join() failed

threadVars == <<state, futexWord, lastIdx>>
listVars   == <<runList, runListSize, curThreadIdx>>
countVars  == <<runningThreads, leftThreads, phaseCount>>
loopVars   == <<wtid, idx, newSize>>
vars == <<threadVars, listVars, countVars, caller, op, step, pass, loopVars,
          loc, aborted>>

Slots == 0 .. MaxThreads - 1
Steps == {"idle", "scan", "cas", "wake", "endPhase", "cleanup", "shuffle",
          "unlock"}
Locs  == {"out", "call", "check", "futex", "asleep", "woken", "running"}

TypeOK ==
  /\ state \in [Tids -> {"OFFLINE", "WAITING", "RUNNING", "LEFT"}]
  /\ futexWord \in [Tids -> {0, 1}]
  /\ lastIdx \in [Tids -> Nat]
  /\ runList \in [Slots -> Tids \cup {NoTid}]
  /\ runListSize \in 0 .. MaxThreads
  /\ curThreadIdx \in 0 .. MaxThreads
  /\ runningThreads \in Nat
  /\ leftThreads \in Nat
  /\ phaseCount \in 0 .. CleanupPeriod - 1
  /\ caller \in Tids \cup {NoTid}
  /\ op \in {"none", "join", "leave", "sync"}
  /\ step \in Steps
  /\ pass \in {1, 2}
  /\ wtid \in Tids \cup {NoTid}
  /\ idx \in 0 .. MaxThreads
  /\ newSize \in 0 .. MaxThreads
  /\ loc \in [Tids -> Locs]
  /\ aborted \in BOOLEAN

(* The constructor: it leaves every lastIdx as it found it.                *)
Init ==
  /\ state = [t \in Tids |-> "OFFLINE"]
  /\ futexWord = [t \in Tids |-> 0]
  /\ lastIdx \in [Tids -> Garbage]
  /\ runList = [i \in Slots |-> NoTid]
  /\ runListSize = 0
  /\ curThreadIdx = 0
  /\ runningThreads = 0
  /\ leftThreads = 0
  /\ phaseCount = 0
  /\ caller = NoTid /\ op = "none" /\ step = "idle" /\ pass = 1
  /\ wtid = NoTid /\ idx = 0 /\ newSize = 0
  /\ loc = [t \in Tids |-> "out"]
  /\ aborted = FALSE

------------------------------------------------------------------------------
(* Entering an operation: take schedLock, and start tryWakeNext.           *)

Enter(t, o) ==
  /\ caller = NoTid
  /\ ~aborted
  /\ caller' = t
  /\ op' = o
  /\ step' = "scan"
  /\ pass' = 1
  /\ UNCHANGED <<phaseCount, loopVars, aborted>>

(* What both branches of join() do to the joining thread.                  *)
StartWaiting(t) ==
  /\ loc[t] = "out"
  /\ loc' = [loc EXCEPT ![t] = "call"]
  /\ state' = [state EXCEPT ![t] = "WAITING"]
  /\ futexWord' = [futexWord EXCEPT ![t] = 1]
  /\ UNCHANGED runningThreads

(* join() of an OFFLINE tid: append it.                                    *)
JoinOffline(t) ==
  /\ state[t] = "OFFLINE"
  /\ Enter(t, "join")
  /\ StartWaiting(t)
  /\ runList' = [runList EXCEPT ![runListSize] = t]
  /\ runListSize' = runListSize + 1
  /\ UNCHANGED <<lastIdx, curThreadIdx, leftThreads>>

(* A fault of the next definition: the slot just scanned does not count.   *)
PassedBeyond(t) == curThreadIdx > lastIdx[t] + 1

(* join() of a tid that LEFT: if the scan has passed it, the last thread   *)
(* that was scanned takes its slot and it takes that thread's, so that it  *)
(* is scanned next.                                                        *)
Passed(t) == curThreadIdx > lastIdx[t]

JoinLeftAhead(t) ==
  /\ state[t] = "LEFT" /\ ~Passed(t)
  /\ Enter(t, "join")
  /\ StartWaiting(t)
  /\ leftThreads' = leftThreads - 1
  /\ UNCHANGED <<lastIdx, listVars>>

(* A fault of the next action: half the swap.                              *)
JoinLeftPassedHalfSwap(t) ==
  LET other == runList[curThreadIdx - 1]
  IN  /\ state[t] = "LEFT" /\ Passed(t)
      /\ runList[lastIdx[t]] = t
      /\ Enter(t, "join")
      /\ StartWaiting(t)
      /\ leftThreads' = leftThreads - 1
      /\ curThreadIdx' = curThreadIdx - 1
      /\ runList' = [runList EXCEPT ![curThreadIdx - 1] = t]
      /\ lastIdx' = [lastIdx EXCEPT ![other] = lastIdx[t], ![t] = curThreadIdx - 1]
      /\ UNCHANGED runListSize

(* Behind the scan: swap with the last thread scanned.                     *)
JoinLeftPassed(t) ==
  LET other == runList[curThreadIdx - 1]
  IN  /\ state[t] = "LEFT" /\ Passed(t)
      /\ runList[lastIdx[t]] = t
      /\ Enter(t, "join")
      /\ StartWaiting(t)
      /\ leftThreads' = leftThreads - 1
      /\ curThreadIdx' = curThreadIdx - 1
      /\ runList' = [runList EXCEPT ![lastIdx[t]] = other, ![curThreadIdx - 1] = t]
      /\ lastIdx' = [lastIdx EXCEPT ![other] = lastIdx[t], ![t] = curThreadIdx - 1]
      /\ UNCHANGED runListSize

(* assert(tid == runList[lastIdx]) fails, which ends the simulation.       *)
JoinAborts(t) ==
  /\ caller = NoTid /\ ~aborted
  /\ loc[t] = "out" /\ state[t] = "LEFT" /\ Passed(t)
  /\ runList[lastIdx[t]] # t
  /\ aborted' = TRUE
  /\ UNCHANGED <<threadVars, listVars, countVars, caller, op, step, pass,
                 loopVars, loc>>

(* A fault of the next action: leftThreads is not counted up.              *)
LeaveUncounted(t) ==
  /\ state[t] = "RUNNING"
  /\ loc[t] = "running" \/ Kills
  /\ Enter(t, "leave")
  /\ loc' = [loc EXCEPT ![t] = "out"]
  /\ state' = [state EXCEPT ![t] = "LEFT"]
  /\ runningThreads' = runningThreads - 1
  /\ UNCHANGED <<futexWord, lastIdx, listVars, leftThreads>>

(* leave() of a RUNNING tid: by its thread, or for a dead thread by the    *)
(* scheduler's cleanup, wherever that thread was.                          *)
Leave(t) ==
  /\ state[t] = "RUNNING"
  /\ loc[t] = "running" \/ Kills
  /\ Enter(t, "leave")
  /\ loc' = [loc EXCEPT ![t] = "out"]
  /\ state' = [state EXCEPT ![t] = "LEFT"]
  /\ leftThreads' = leftThreads + 1
  /\ runningThreads' = runningThreads - 1
  /\ UNCHANGED <<futexWord, lastIdx, listVars>>

(* A fault of the next action: leftThreads is not counted up.              *)
LeaveWaitingUncounted(t) ==
  /\ Kills
  /\ caller = NoTid /\ ~aborted
  /\ state[t] = "WAITING"
  /\ loc' = [loc EXCEPT ![t] = "out"]
  /\ state' = [state EXCEPT ![t] = "LEFT"]
  /\ UNCHANGED <<futexWord, lastIdx, listVars, countVars, caller, op, step,
                 pass, loopVars, aborted>>

(* leave() of a WAITING tid, which only the cleanup can call: its thread   *)
(* died in the wait.  Nobody is woken.                                     *)
LeaveWaiting(t) ==
  /\ Kills
  /\ caller = NoTid /\ ~aborted
  /\ state[t] = "WAITING"
  /\ loc' = [loc EXCEPT ![t] = "out"]
  /\ state' = [state EXCEPT ![t] = "LEFT"]
  /\ leftThreads' = leftThreads + 1
  /\ UNCHANGED <<futexWord, lastIdx, listVars, runningThreads, phaseCount,
                 caller, op, step, pass, loopVars, aborted>>

(* A fault of the next action: the word is not set before the wait.        *)
SyncWithoutWord(t) ==
  /\ loc[t] = "running"
  /\ Enter(t, "sync")
  /\ loc' = [loc EXCEPT ![t] = "call"]
  /\ state' = [state EXCEPT ![t] = "WAITING"]
  /\ runningThreads' = runningThreads - 1
  /\ UNCHANGED <<futexWord, lastIdx, listVars, leftThreads>>

(* sync() of a RUNNING tid.                                                *)
Sync(t) ==
  /\ loc[t] = "running"
  /\ Enter(t, "sync")
  /\ loc' = [loc EXCEPT ![t] = "call"]
  /\ state' = [state EXCEPT ![t] = "WAITING"]
  /\ futexWord' = [futexWord EXCEPT ![t] = 1]
  /\ runningThreads' = runningThreads - 1
  /\ UNCHANGED <<lastIdx, listVars, leftThreads>>

------------------------------------------------------------------------------
(* tryWakeNext: checkRunList, checkEndPhase, checkRunList.                 *)

At(s) == step = s /\ UNCHANGED <<caller, op, aborted>>

(* A fault of the next definition: <= for <.                               *)
MoreToScanOneMore == runningThreads <= ParallelThreads /\ curThreadIdx < runListSize

(* checkRunList goes on while both hold.                                   *)
MoreToScan == runningThreads < ParallelThreads /\ curThreadIdx < runListSize

ScanWaiting ==
  LET w == runList[curThreadIdx]
  IN  /\ At("scan") /\ MoreToScan
      /\ state[w] = "WAITING"
      /\ state' = [state EXCEPT ![w] = "RUNNING"]
      /\ lastIdx' = [lastIdx EXCEPT ![w] = curThreadIdx]
      /\ curThreadIdx' = curThreadIdx + 1
      /\ wtid' = w
      /\ step' = "cas"
      /\ UNCHANGED <<futexWord, runList, runListSize, countVars, pass, idx,
                     newSize, loc>>

ScanSkip ==
  /\ At("scan") /\ MoreToScan
  /\ state[runList[curThreadIdx]] # "WAITING"
  /\ curThreadIdx' = curThreadIdx + 1
  /\ UNCHANGED <<threadVars, runList, runListSize, countVars, step, pass,
                 loopVars, loc>>

(* The compare-and-swap of the word, which must find it set, and then the  *)
(* FUTEX_WAKE, which finds the thread asleep or not.                       *)
CasWord ==
  /\ At("cas")
  /\ futexWord[wtid] = 1
  /\ futexWord' = [futexWord EXCEPT ![wtid] = 0]
  /\ step' = "wake"
  /\ UNCHANGED <<state, lastIdx, listVars, countVars, pass, loopVars, loc>>

Wake ==
  /\ At("wake")
  /\ loc' = [loc EXCEPT ![wtid] = IF @ = "asleep" THEN "woken" ELSE @]
  /\ runningThreads' = runningThreads + 1
  /\ step' = "scan"
  /\ UNCHANGED <<threadVars, listVars, leftThreads, phaseCount, pass, loopVars>>

ScanDone ==
  /\ At("scan") /\ ~MoreToScan
  /\ step' = IF pass = 1 THEN "endPhase" ELSE "unlock"
  /\ UNCHANGED <<threadVars, listVars, countVars, pass, loopVars, loc>>

PhaseIsOver ==
  /\ curThreadIdx = runListSize
  /\ runningThreads = 0
  /\ leftThreads # runListSize

KeepPhase ==
  /\ At("endPhase") /\ ~PhaseIsOver
  /\ step' = "scan" /\ pass' = 2
  /\ UNCHANGED <<threadVars, listVars, countVars, loopVars, loc>>

(* A fault of the next definition: no second checkRunList.                 *)
ShuffleOrUnlock(size) ==
  IF ParallelThreads < size
  THEN step' = "shuffle" /\ idx' = size - 1 /\ UNCHANGED pass
  ELSE step' = "unlock" /\ pass' = 2 /\ UNCHANGED idx

(* After the cleanup: shuffle the list if not everybody runs at once.      *)
ShuffleOrScan(size) ==
  IF ParallelThreads < size
  THEN step' = "shuffle" /\ idx' = size - 1 /\ UNCHANGED pass
  ELSE step' = "scan" /\ pass' = 2 /\ UNCHANGED idx

(* The end of a phase: the scheduler's callback, and the list rewound.     *)
EndPhase ==
  /\ At("endPhase") /\ PhaseIsOver
  /\ curThreadIdx' = 0
  /\ phaseCount' = (phaseCount + 1) % CleanupPeriod
  /\ IF phaseCount = 0
     THEN step' = "cleanup" /\ idx' = 0 /\ newSize' = runListSize /\ UNCHANGED pass
     ELSE ShuffleOrScan(runListSize) /\ UNCHANGED newSize
  /\ UNCHANGED <<threadVars, runList, runListSize, runningThreads, leftThreads,
                 wtid, loc>>

(* One iteration of the cleanup pass: a LEFT thread goes OFFLINE and the   *)
(* last one takes its slot.                                                *)
CleanupRemove ==
  LET w    == runList[idx]
      last == runList[newSize - 1]
  IN  /\ At("cleanup") /\ idx < newSize
      /\ state[w] = "LEFT"
      /\ state' = [state EXCEPT ![w] = "OFFLINE"]
      /\ runList' = [runList EXCEPT ![idx] = last, ![newSize - 1] = NoTid]
      /\ lastIdx' = [lastIdx EXCEPT ![last] = idx]
      /\ newSize' = newSize - 1
      /\ UNCHANGED <<futexWord, runListSize, curThreadIdx, countVars, step,
                     pass, wtid, idx, loc>>

CleanupKeep ==
  /\ At("cleanup") /\ idx < newSize
  /\ state[runList[idx]] # "LEFT"
  /\ idx' = idx + 1
  /\ UNCHANGED <<threadVars, listVars, countVars, step, pass, wtid, newSize, loc>>

CleanupDone ==
  /\ At("cleanup") /\ idx = newSize
  /\ runListSize' = newSize
  /\ leftThreads' = 0
  /\ ShuffleOrScan(newSize)
  /\ UNCHANGED <<threadVars, runList, curThreadIdx, runningThreads, phaseCount,
                 wtid, newSize, loc>>

(* One iteration of the Fisher-Yates shuffle, for any random number.       *)
ShuffleSwap(j) ==
  LET it == runList[idx]
      jt == runList[j]
  IN  /\ At("shuffle") /\ idx > 0 /\ j <= idx
      /\ runList' = [runList EXCEPT ![idx] = jt, ![j] = it]
      /\ lastIdx' = [lastIdx EXCEPT ![it] = j, ![jt] = idx]
      /\ idx' = idx - 1
      /\ UNCHANGED <<state, futexWord, runListSize, curThreadIdx, countVars,
                     step, pass, wtid, newSize, loc>>

ShuffleDone ==
  /\ At("shuffle") /\ idx = 0
  /\ step' = "scan" /\ pass' = 2
  /\ UNCHANGED <<threadVars, listVars, countVars, loopVars, loc>>

(* The end of the operation.  After join() and sync() the caller goes on   *)
(* to look at its state, without the lock.                                 *)
Unlock ==
  /\ step = "unlock"
  /\ loc' = [loc EXCEPT ![caller] = IF op = "leave" THEN @ ELSE "check"]
  /\ step' = "idle" /\ caller' = NoTid /\ op' = "none"
  /\ UNCHANGED <<threadVars, listVars, countVars, pass, loopVars, aborted>>

------------------------------------------------------------------------------
(* The wait at the end of join() and sync(), outside the lock.             *)

Wait(t, from, to) ==
  /\ ~aborted
  /\ loc[t] = from
  /\ loc' = [loc EXCEPT ![t] = to]
  /\ UNCHANGED <<threadVars, listVars, countVars, caller, op, step, pass,
                 loopVars, aborted>>

(* The test after the unlock.                                              *)
CheckState(t) ==
  Wait(t, "check", IF state[t] = "WAITING" THEN "futex" ELSE "running")

(* A fault of the next action: FUTEX_WAIT on the value the word has now.   *)
FutexWaitAny(t) == Wait(t, "futex", "asleep")

(* FUTEX_WAIT on the value 1.                                              *)
FutexWait(t) ==
  Wait(t, "futex", IF futexWord[t] = 1 THEN "asleep" ELSE "running")

Interrupted(t) == Wait(t, "asleep", "futex")

ReturnWoken(t) == Wait(t, "woken", "running")

------------------------------------------------------------------------------

Join(t) == JoinOffline(t) \/ JoinLeftAhead(t) \/ JoinLeftPassed(t) \/ JoinAborts(t)

TryWakeNext ==
  \/ ScanWaiting \/ ScanSkip \/ CasWord \/ Wake \/ ScanDone
  \/ KeepPhase \/ EndPhase
  \/ CleanupRemove \/ CleanupKeep \/ CleanupDone
  \/ \E j \in 0 .. idx : ShuffleSwap(j)
  \/ ShuffleDone
  \/ Unlock

Waiter(t) == CheckState(t) \/ FutexWait(t) \/ ReturnWoken(t)

Next ==
  \/ TryWakeNext
  \/ \E t \in Tids :
       Join(t) \/ Leave(t) \/ LeaveWaiting(t) \/ Sync(t) \/ Waiter(t) \/ Interrupted(t)

Spec == Init /\ [][Next]_vars

(* The lock holder and the waiters run whenever they can.  A thread that   *)
(* simulates reaches the end of its phase sooner or later, even if it      *)
(* keeps leaving and joining: instrumented code advances its cycles, and   *)
(* a join never moves them back.  Nobody has to join or leave.             *)
FairSpec ==
  /\ Spec
  /\ WF_vars(TryWakeNext)
  /\ \A t \in Tids : WF_vars(Waiter(t)) /\ SF_vars(Sync(t))

------------------------------------------------------------------------------
(* Properties.                                                             *)

InState(s) == {t \in Tids : state[t] = s}

\* The part of runList in use: the cleanup pass shrinks it as it goes.
LiveSize == IF step = "cleanup" THEN newSize ELSE runListSize
Live     == 0 .. LiveSize - 1

(* The two counters of the barrier count the threads in each state, except *)
(* for the one being woken and those the cleanup pass has taken offline.   *)
CountsExact ==
  /\ runningThreads + (IF step \in {"cas", "wake"} THEN 1 ELSE 0)
       = Cardinality(InState("RUNNING"))
  /\ leftThreads = Cardinality(InState("LEFT")) + (runListSize - LiveSize)

(* "The barrier limits the number of threads that run at the same time."   *)
ParallelismBound == Cardinality(InState("RUNNING")) <= ParallelThreads

(* runList holds each thread that is not OFFLINE exactly once, through     *)
(* joins, same-phase reschedules, cleanup passes and shuffles: a lost      *)
(* entry would never run again, a double one would run twice in a phase.   *)
RunListExact ==
  /\ \A i, j \in Live : runList[i] = runList[j] => i = j
  /\ {runList[i] : i \in Live} = Tids \ InState("OFFLINE")
  /\ curThreadIdx <= LiveSize

(* The assertion of join(): the slot a thread remembers is still its own   *)
(* when it comes back in the phase it left in.                             *)
RejoinFindsItsSlot ==
  \A t \in InState("LEFT") : Passed(t) => runList[lastIdx[t]] = t

(* Outside the critical section the barrier is work-conserving, and no     *)
(* phase that could end is left open: if nobody runs then nobody waits.    *)
WorkConserving ==
  caller = NoTid =>
    /\ ~MoreToScan
    /\ runningThreads = 0 => InState("WAITING") = {}

(* "You can't cause a phase to end here", says join() of its tryWakeNext.  *)
JoinNeverEndsPhase == step = "endPhase" /\ op = "join" => ~PhaseIsOver

(* The remaining assertions of the file and its panic: join() and sync()   *)
(* are called in the right state, a woken waiter is RUNNING, the cleanup   *)
(* pass accounts for every LEFT thread, and the word of a thread that is   *)
(* being woken is set ("Wakeup race in barrier?").                         *)
AssertsHold ==
  /\ \A t \in Tids :
       /\ loc[t] = "out" => state[t] \in {"OFFLINE", "LEFT"}
       /\ loc[t] = "running" => state[t] = "RUNNING"
       /\ loc[t] = "woken" => state[t] = "RUNNING"
       /\ loc[t] = "futex" /\ futexWord[t] # 1 => state[t] = "RUNNING"
  /\ step = "cleanup" /\ idx = newSize => runListSize - newSize = leftThreads
  /\ step = "cas" => futexWord[wtid] = 1

(* No lost wake-up: a thread the barrier counts as running sleeps in       *)
(* FUTEX_WAIT only while the wake that is meant for it is under way, and   *)
(* one that waits finds its word set, so it does not return early.         *)
NoLostWakeup ==
  \A t \in Tids :
    /\ loc[t] = "asleep" /\ state[t] = "RUNNING" => step \in {"cas", "wake"} /\ wtid = t
    /\ state[t] = "WAITING" => futexWord[t] = 1

(* Every thread that waits in the barrier gets to run.                     *)
EveryWaiterRuns == \A t \in Tids : state[t] = "WAITING" ~> state[t] = "RUNNING"

(* The phases the barrier implements: a WAITING thread has run in this     *)
(* phase if the scan has passed it.                                        *)
Ahead(t) == \E i \in Live : i >= curThreadIdx /\ runList[i] = t

Status ==
  [t \in Tids |-> CASE state[t] = "RUNNING" -> "running"
                    [] state[t] = "WAITING" -> IF Ahead(t) THEN "pending" ELSE "done"
                    [] OTHER -> "out"]

Phases == INSTANCE PhaseBarrier WITH status <- Status, phase <- phaseCount

(* Nobody is skipped and nobody runs twice in a phase, and a phase ends    *)
(* only when every member that is there has run in it.                     *)
ImplementsPhaseBarrier == Phases!Spec

(* No context is special, as far as safety is concerned: for TLC.          *)
Symmetry == Permutations(Tids)
==============================================================================
