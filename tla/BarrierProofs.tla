---------------------------- MODULE BarrierProofs ----------------------------
(***************************************************************************)
(* Proofs about Barrier, for any number of tids, any parallelism, cleanup  *)
(* period and content of the uninitialised memory.                         *)
(*                                                                         *)
(* The inductive invariant is split by what it is about: who holds the     *)
(* lock and where threads are (LockInv), the run list (ListInv), the       *)
(* counters (CountInv), the words threads wait on (WordInv), how far the   *)
(* scan of a phase is (ScanInv), and, while no process dies inside the     *)
(* barrier, the slots threads remember (SlotInv) and join() (JoinInv).     *)
(***************************************************************************)
EXTENDS Barrier, FiniteSetTheorems, TLAPS

(* A call is under way exactly while the lock is held, and a thread whose  *)
(* join() or sync() it is waits for its end; who is outside the barrier.   *)
LockInv ==
  /\ caller = NoTid <=> step = "idle"
  /\ op = "none" <=> step = "idle"
  /\ \A t \in Tids : loc[t] = "call" <=> t = caller /\ op \in {"join", "sync"}
  /\ \A t \in Tids : loc[t] = "out" <=> state[t] \in {"OFFLINE", "LEFT"}
  /\ step \in {"endPhase", "cleanup", "shuffle"} => pass = 1
  /\ step = "unlock" => pass = 2

(* The run list without sets: no entry twice, every entry a member, every  *)
(* member an entry; and where the loops over it are.                       *)
ListInv ==
  /\ \A i, j \in Live : runList[i] = runList[j] => i = j
  /\ \A i \in Live : runList[i] \in Tids /\ state[runList[i]] # "OFFLINE"
  /\ \A t \in Tids : state[t] # "OFFLINE" => \E i \in Live : runList[i] = t
  /\ curThreadIdx <= LiveSize
  /\ step = "cleanup" =>
       /\ curThreadIdx = 0 /\ idx <= newSize /\ newSize <= runListSize
       /\ \A i \in 0 .. idx - 1 : state[runList[i]] # "LEFT"
  /\ step = "shuffle" => curThreadIdx = 0 /\ idx < runListSize

Waking == step \in {"cas", "wake"}

(* The counters, and the size of the list: what is not OFFLINE is on it.   *)
CountInv ==
  /\ runningThreads + (IF Waking THEN 1 ELSE 0) = Cardinality(InState("RUNNING"))
  /\ leftThreads = Cardinality(InState("LEFT")) + (runListSize - LiveSize)
  /\ LiveSize + Cardinality(InState("OFFLINE")) = Cardinality(Tids)
  /\ runningThreads + (IF Waking THEN 1 ELSE 0) <= ParallelThreads

(* A WAITING thread's word is set, so that it sleeps; the one being woken  *)
(* is RUNNING, and its word is cleared before the wake.                    *)
WordInv ==
  /\ \A t \in Tids : state[t] = "WAITING" => futexWord[t] = 1
  /\ \A t \in Tids : state[t] = "RUNNING" /\ futexWord[t] = 1 => step = "cas" /\ wtid = t
  /\ Waking => wtid \in Tids /\ state[wtid] = "RUNNING"
  /\ step = "cas" => futexWord[wtid] = 1
  /\ step = "wake" => futexWord[wtid] = 0
  /\ \A t \in Tids : loc[t] \in {"running", "woken"} => state[t] = "RUNNING"
  /\ \A t \in Tids : loc[t] = "asleep" /\ state[t] = "RUNNING" => Waking /\ wtid = t

(* The scan stops only where it may; a scan that leaves nobody running has *)
(* passed nobody who waits.                                                *)
ScanInv ==
  /\ step \in {"idle", "unlock", "endPhase"} => ~MoreToScan
  /\ pass = 2 /\ step \in {"scan", "unlock"} /\ runningThreads = 0
       => \A i \in 0 .. curThreadIdx - 1 : state[runList[i]] # "WAITING"
  /\ step = "idle" /\ runningThreads = 0 => InState("WAITING") = {}

(* Without deaths, a thread that ran and is not OFFLINE remembers its slot. *)
SlotInv ==
  ~Kills => \A t \in Tids :
    state[t] \in {"RUNNING", "LEFT"} => lastIdx[t] \in Live /\ runList[lastIdx[t]] = t

(* Until its first checkRunList ends, the joining thread has been started  *)
(* or is still to be scanned.                                              *)
JoinInv ==
  ~Kills /\ op = "join" /\ pass = 1 /\ step \in {"scan", "cas", "wake", "endPhase"} =>
    \/ state[caller] = "RUNNING"
    \/ \E i \in Live : i >= curThreadIdx /\ runList[i] = caller

IInv == /\ TypeOK /\ LockInv /\ ListInv /\ CountInv /\ WordInv /\ ScanInv
        /\ SlotInv /\ JoinInv
------------------------------------------------------------------------------
(* What a waiter does outside the lock touches nothing but where it is.    *)
LEMMA WaiterFrame ==
  ASSUME NEW t \in Tids, Waiter(t) \/ Interrupted(t)
  PROVE  UNCHANGED <<state, futexWord, lastIdx, runList, runListSize,
                     curThreadIdx, runningThreads, leftThreads, phaseCount,
                     caller, op, step, pass, wtid, idx, newSize, aborted>>
  BY DEF Waiter, CheckState, FutexWait, ReturnWoken, Interrupted, Wait,
         threadVars, listVars, countVars, loopVars

(* Moving the last entry into a freed slot: what the cleanup pass does.    *)
LEMMA RemoveEntry ==
  ASSUME NEW n \in 1 .. MaxThreads, NEW f \in [Slots -> Tids \cup {NoTid}],
         NEW a \in 0 .. n - 1,
         \A i, k \in 0 .. n - 1 : f[i] = f[k] => i = k,
         NEW g, g = [f EXCEPT ![a] = f[n - 1], ![n - 1] = NoTid]
  PROVE  /\ g \in [Slots -> Tids \cup {NoTid}]
         /\ a < n - 1 => g[a] = f[n - 1]
         /\ \A i \in 0 .. n - 2 : i # a => g[i] = f[i]
         /\ \A i, k \in 0 .. n - 2 : g[i] = g[k] => i = k
         /\ \A i \in 0 .. n - 2 : g[i] # f[a]
<1>1. a \in Slots /\ n - 1 \in Slots /\ 0 .. n - 1 \subseteq Slots
  BY BarrierAssumption DEF Slots
<1>2. \A i \in 0 .. n - 2 : g[i] = IF i = a THEN f[n - 1] ELSE f[i]
  BY <1>1
<1> QED BY <1>1, <1>2


(* Cardinalities of the sets of threads in each state.                     *)
LEMMA InStateFinite ==
  \A s : IsFiniteSet(InState(s)) /\ Cardinality(InState(s)) \in Nat
<1> SUFFICES ASSUME NEW s
             PROVE IsFiniteSet(InState(s)) /\ Cardinality(InState(s)) \in Nat
  OBVIOUS
<1>1. InState(s) \in SUBSET Tids
  BY DEF InState
<1> QED BY <1>1, BarrierAssumption, FS_Subset, FS_CardinalityType

LEMMA InStateNonEmpty ==
  ASSUME NEW t \in Tids PROVE Cardinality(InState(state[t])) > 0
<1>1. InState(state[t]) # {}
  BY DEF InState
<1> QED BY <1>1, InStateFinite, FS_EmptySet

(* A thread that changes state leaves one set and enters another.          *)
LEMMA MoveState ==
  ASSUME TypeOK, NEW t \in Tids, NEW r, state[t] = r,
         NEW s \in {"OFFLINE", "WAITING", "RUNNING", "LEFT"}, s # r,
         state' = [state EXCEPT ![t] = s]
  PROVE  /\ Cardinality(InState(s)') = Cardinality(InState(s)) + 1
         /\ Cardinality(InState(r)') = Cardinality(InState(r)) - 1
         /\ \A q : q # s /\ q # r => InState(q)' = InState(q)
<1> USE DEF TypeOK, InState
<1>1. InState(s)' = InState(s) \cup {t} /\ t \notin InState(s)
  OBVIOUS
<1>2. InState(r)' = InState(r) \ {t} /\ t \in InState(r)
  OBVIOUS
<1>3. \A q : q # s /\ q # r => InState(q)' = InState(q)
  OBVIOUS
<1>4. IsFiniteSet(InState(s)) /\ IsFiniteSet(InState(r))
  BY InStateFinite
<1> HIDE DEF InState
<1>5. Cardinality(InState(s) \cup {t}) = Cardinality(InState(s)) + 1
  BY <1>1, <1>4, FS_AddElement
<1>6. Cardinality(InState(r) \ {t}) = Cardinality(InState(r)) - 1
  BY <1>2, <1>4, FS_RemoveElement
<1> QED BY <1>1, <1>2, <1>3, <1>5, <1>6

(* The run list has room for a thread that is not on it.                   *)
LEMMA RoomForOneMore ==
  ASSUME IInv, NEW t \in Tids, state[t] = "OFFLINE", step # "cleanup"
  PROVE  runListSize < MaxThreads
<1>1. Cardinality(InState("OFFLINE")) > 0 /\ Cardinality(InState("OFFLINE")) \in Nat
  BY InStateNonEmpty, InStateFinite
<1>2. Cardinality(Tids) \in Nat
  BY BarrierAssumption, FS_CardinalityType
<1> QED BY <1>1, <1>2, BarrierAssumption DEF IInv, CountInv, LiveSize, TypeOK

(* The lock, the program counters of the callers, and who is outside.      *)
LEMMA LockStep == IInv /\ [Next]_vars => LockInv'
<1>a. SUFFICES ASSUME IInv, [Next]_vars PROVE LockInv'
  OBVIOUS
<1> USE BarrierAssumption
    DEF IInv, TypeOK, LockInv, WordInv, Waking,
        Enter, StartWaiting, At, threadVars, listVars, countVars, loopVars
<1>1. ASSUME NEW t \in Tids, JoinOffline(t) PROVE LockInv'
  BY <1>a, <1>1 DEF JoinOffline
<1>2. ASSUME NEW t \in Tids, JoinLeftAhead(t) PROVE LockInv'
  BY <1>a, <1>2 DEF JoinLeftAhead
<1>3. ASSUME NEW t \in Tids, JoinLeftPassed(t) PROVE LockInv'
  BY <1>a, <1>3 DEF JoinLeftPassed
<1>4. ASSUME NEW t \in Tids, JoinAborts(t) PROVE LockInv'
  BY <1>a, <1>4 DEF JoinAborts
<1>5. ASSUME NEW t \in Tids, Leave(t) PROVE LockInv'
  BY <1>a, <1>5 DEF Leave
<1>6. ASSUME NEW t \in Tids, LeaveWaiting(t) PROVE LockInv'
  BY <1>a, <1>6 DEF LeaveWaiting
<1>7. ASSUME NEW t \in Tids, Sync(t) PROVE LockInv'
  BY <1>a, <1>7 DEF Sync
<1>8. CASE ScanWaiting
  BY <1>a, <1>8 DEF ScanWaiting
<1>9. CASE ScanSkip
  BY <1>a, <1>9 DEF ScanSkip
<1>10. CASE CasWord
  BY <1>a, <1>10 DEF CasWord
<1>11. CASE Wake
  BY <1>a, <1>11 DEF Wake
<1>12. CASE ScanDone
  BY <1>a, <1>12 DEF ScanDone
<1>13. CASE KeepPhase
  BY <1>a, <1>13 DEF KeepPhase
<1>14. CASE EndPhase
  BY <1>a, <1>14 DEF EndPhase, ShuffleOrScan
<1>15. CASE CleanupRemove
  BY <1>a, <1>15 DEF CleanupRemove
<1>16. CASE CleanupKeep
  BY <1>a, <1>16 DEF CleanupKeep
<1>17. CASE CleanupDone
  BY <1>a, <1>17 DEF CleanupDone, ShuffleOrScan
<1>18. ASSUME NEW j \in 0 .. idx, ShuffleSwap(j) PROVE LockInv'
  BY <1>a, <1>18 DEF ShuffleSwap
<1>19. CASE ShuffleDone
  BY <1>a, <1>19 DEF ShuffleDone
<1>20. CASE Unlock
  BY <1>a, <1>20 DEF Unlock
<1>21. ASSUME NEW t \in Tids, Waiter(t) \/ Interrupted(t) PROVE LockInv'
  BY <1>a, <1>21 DEF Waiter, CheckState, FutexWait, ReturnWoken, Interrupted, Wait
<1>22. CASE UNCHANGED vars
  BY <1>a, <1>22 DEF vars
<1> QED
  BY <1>a, <1>1, <1>2, <1>3, <1>4, <1>5, <1>6, <1>7, <1>8, <1>9, <1>10, <1>11,
     <1>12, <1>13, <1>14, <1>15, <1>16, <1>17, <1>18, <1>19, <1>20, <1>21, <1>22
  DEF Next, TryWakeNext, Join

(* The words: only CasWord clears one, and only for a thread that has just *)
(* been made RUNNING.                                                      *)
LEMMA WordStep == IInv /\ [Next]_vars => WordInv'
<1>a. SUFFICES ASSUME IInv, [Next]_vars PROVE WordInv'
  OBVIOUS
<1> USE BarrierAssumption
    DEF IInv, TypeOK, LockInv, ListInv, Live, LiveSize, WordInv, Waking, Slots, MoreToScan,
        Enter, StartWaiting, At, threadVars, listVars, countVars, loopVars
<1>1. ASSUME NEW t \in Tids, JoinOffline(t) PROVE WordInv'
  BY <1>a, <1>1 DEF JoinOffline
<1>2. ASSUME NEW t \in Tids, JoinLeftAhead(t) PROVE WordInv'
  BY <1>a, <1>2 DEF JoinLeftAhead
<1>3. ASSUME NEW t \in Tids, JoinLeftPassed(t) PROVE WordInv'
  BY <1>a, <1>3 DEF JoinLeftPassed
<1>4. ASSUME NEW t \in Tids, JoinAborts(t) PROVE WordInv'
  BY <1>a, <1>4 DEF JoinAborts
<1>5. ASSUME NEW t \in Tids, Leave(t) PROVE WordInv'
  BY <1>a, <1>5 DEF Leave
<1>6. ASSUME NEW t \in Tids, LeaveWaiting(t) PROVE WordInv'
  BY <1>a, <1>6 DEF LeaveWaiting
<1>7. ASSUME NEW t \in Tids, Sync(t) PROVE WordInv'
  BY <1>a, <1>7 DEF Sync
<1>8. CASE ScanWaiting
  BY <1>a, <1>8 DEF ScanWaiting
<1>9. CASE ScanSkip
  BY <1>a, <1>9 DEF ScanSkip
<1>10. CASE CasWord
  BY <1>a, <1>10 DEF CasWord
<1>11. CASE Wake
  BY <1>a, <1>11 DEF Wake
<1>12. CASE ScanDone
  BY <1>a, <1>12 DEF ScanDone
<1>13. CASE KeepPhase
  BY <1>a, <1>13 DEF KeepPhase
<1>14. CASE EndPhase
  BY <1>a, <1>14 DEF EndPhase, ShuffleOrScan
<1>15. CASE CleanupRemove
  BY <1>a, <1>15 DEF CleanupRemove
<1>16. CASE CleanupKeep
  BY <1>a, <1>16 DEF CleanupKeep
<1>17. CASE CleanupDone
  BY <1>a, <1>17 DEF CleanupDone, ShuffleOrScan
<1>18. ASSUME NEW j \in 0 .. idx, ShuffleSwap(j) PROVE WordInv'
  BY <1>a, <1>18 DEF ShuffleSwap
<1>19. CASE ShuffleDone
  BY <1>a, <1>19 DEF ShuffleDone
<1>20. CASE Unlock
  BY <1>a, <1>20 DEF Unlock
<1>21. ASSUME NEW t \in Tids, Waiter(t) \/ Interrupted(t) PROVE WordInv'
  <2>1. state[t] # "WAITING" \/ futexWord[t] = 1
    BY <1>a
  <2>2. loc[t] # "out" => state[t] \in {"WAITING", "RUNNING"}
    BY <1>a
  <2>3. CASE CheckState(t)
    BY <1>a, <2>2, <2>3 DEF CheckState, Wait
  <2>4. CASE FutexWait(t)
    BY <1>a, <2>1, <2>2, <2>4 DEF FutexWait, Wait
  <2>5. CASE ReturnWoken(t)
    BY <1>a, <2>5 DEF ReturnWoken, Wait
  <2>6. CASE Interrupted(t)
    BY <1>a, <2>6 DEF Interrupted, Wait
  <2> QED BY <1>21, <2>3, <2>4, <2>5, <2>6 DEF Waiter
<1>22. CASE UNCHANGED vars
  BY <1>a, <1>22 DEF vars
<1> QED
  BY <1>a, <1>1, <1>2, <1>3, <1>4, <1>5, <1>6, <1>7, <1>8, <1>9, <1>10, <1>11,
     <1>12, <1>13, <1>14, <1>15, <1>16, <1>17, <1>18, <1>19, <1>20, <1>21, <1>22
  DEF Next, TryWakeNext, Join

(* The run list: only join() of an OFFLINE tid and the cleanup pass change *)
(* who is on it; the reschedule and the shuffle permute it.                *)
LEMMA ListStep == IInv /\ [Next]_vars => ListInv'
<1>a. SUFFICES ASSUME IInv, [Next]_vars PROVE ListInv'
  OBVIOUS
<1> USE BarrierAssumption
    DEF IInv, TypeOK, LockInv, ListInv, Live, LiveSize, WordInv, SlotInv, Waking, Slots, MoreToScan, Passed, PhaseIsOver,
        Enter, StartWaiting, At, threadVars, listVars, countVars, loopVars
<1>1. ASSUME NEW t \in Tids, JoinOffline(t) PROVE ListInv'
  <2>0. /\ runListSize \in 0 .. MaxThreads /\ newSize \in 0 .. MaxThreads
        /\ runList \in [Slots -> Tids \cup {NoTid}]
        /\ \A i, k \in Live : runList[i] = runList[k] => i = k
        /\ \A i \in Live : runList[i] \in Tids /\ state[runList[i]] # "OFFLINE"
        /\ \A u \in Tids : state[u] # "OFFLINE" => \E i \in Live : runList[i] = u
        /\ state \in [Tids -> {"OFFLINE", "WAITING", "RUNNING", "LEFT"}]
    BY <1>a
  <2>1. runListSize < MaxThreads
    BY <1>a, <1>1, RoomForOneMore DEF JoinOffline
  <2>2. /\ runListSize' = runListSize + 1 /\ LiveSize' = runListSize'
        /\ LiveSize = runListSize /\ runListSize \in Slots
        /\ runList' = [runList EXCEPT ![runListSize] = t]
        /\ state' = [state EXCEPT ![t] = "WAITING"] /\ state[t] = "OFFLINE"
        /\ step' = "scan" /\ curThreadIdx' = curThreadIdx
    BY <1>a, <1>1, <2>1 DEF JoinOffline
  <2>3. \A i \in 0 .. runListSize' - 1 :
          runList'[i] = IF i = runListSize THEN t ELSE runList[i]
    BY <2>0, <2>2
  <2>4. \A i \in 0 .. runListSize - 1 : runList[i] \in Tids /\ runList[i] # t
    BY <2>0, <2>2
  <2>5. \A i, k \in Live' : runList'[i] = runList'[k] => i = k
    BY <2>0, <2>2, <2>3, <2>4
  <2>6. \A i \in Live' : runList'[i] \in Tids /\ state'[runList'[i]] # "OFFLINE"
    BY <2>0, <2>2, <2>3, <2>4
  <2>7. ASSUME NEW u \in Tids, state'[u] # "OFFLINE"
        PROVE  \E i \in Live' : runList'[i] = u
    <3>1. CASE u = t
      BY <2>2, <2>3, <3>1
    <3>2. CASE u # t
      <4>1. PICK i \in Live : runList[i] = u
        BY <2>0, <2>2, <2>7, <3>2
      <4>2. i \in Live' /\ runList'[i] = u
        BY <2>0, <2>2, <2>3, <4>1
      <4> QED BY <4>2
    <3> QED BY <3>1, <3>2
  <2>8. curThreadIdx' <= LiveSize'
    BY <1>a, <2>2
  <2> QED BY <2>2, <2>5, <2>6, <2>7, <2>8
<1>2. ASSUME NEW t \in Tids, JoinLeftAhead(t) PROVE ListInv'
  BY <1>a, <1>2 DEF JoinLeftAhead
<1>3. ASSUME NEW t \in Tids, JoinLeftPassed(t) PROVE ListInv'
  <2> DEFINE li == lastIdx[t]
             c  == curThreadIdx - 1
  <2>0. /\ runListSize \in 0 .. MaxThreads /\ newSize \in 0 .. MaxThreads
        /\ runList \in [Slots -> Tids \cup {NoTid}]
        /\ \A i, k \in Live : runList[i] = runList[k] => i = k
        /\ \A i \in Live : runList[i] \in Tids /\ state[runList[i]] # "OFFLINE"
        /\ \A u \in Tids : state[u] # "OFFLINE" => \E i \in Live : runList[i] = u
        /\ state \in [Tids -> {"OFFLINE", "WAITING", "RUNNING", "LEFT"}]
    BY <1>a
  <2>1. /\ li \in Live /\ c \in Live /\ LiveSize = runListSize /\ LiveSize' = LiveSize
        /\ runList[li] = t /\ step' = "scan" /\ curThreadIdx' = c
        /\ state' = [state EXCEPT ![t] = "WAITING"] /\ state[t] = "LEFT"
    BY <1>a, <1>3 DEF JoinLeftPassed
  <2>2. runList' = [runList EXCEPT ![li] = runList[c], ![c] = runList[li]]
    BY <1>a, <1>3, <2>1 DEF JoinLeftPassed
  <2>3. /\ runList'[li] = runList[c] /\ runList'[c] = runList[li]
        /\ \A i \in Live : i # li /\ i # c => runList'[i] = runList[i]
        /\ \A i, k \in Live : runList'[i] = runList'[k] => i = k
    <3>1. Live \subseteq Slots
      BY <2>0, <2>1, BarrierAssumption DEF Live, Slots
    <3> HIDE DEF li, c, Live
    <3>2. \A i \in Live : runList'[i] = IF i = c THEN runList[li]
                                      ELSE IF i = li THEN runList[c] ELSE runList[i]
      BY ONLY <2>0, <2>1, <2>2, <3>1
    <3> QED BY ONLY <2>0, <2>1, <3>2
  <2>4. \A i \in Live' : runList'[i] \in Tids /\ state'[runList'[i]] # "OFFLINE"
    BY <2>0, <2>1, <2>3
  <2>5. ASSUME NEW u \in Tids, state'[u] # "OFFLINE"
        PROVE  \E i \in Live' : runList'[i] = u
    <3>1. PICK k \in Live : runList[k] = u
      BY <2>0, <2>1, <2>5
    <3> QED BY <2>0, <2>1, <2>3, <3>1
  <2> QED BY <1>a, <2>0, <2>1, <2>3, <2>4, <2>5
<1>4. ASSUME NEW t \in Tids, JoinAborts(t) PROVE ListInv'
  BY <1>a, <1>4 DEF JoinAborts
<1>5. ASSUME NEW t \in Tids, Leave(t) PROVE ListInv'
  BY <1>a, <1>5 DEF Leave
<1>6. ASSUME NEW t \in Tids, LeaveWaiting(t) PROVE ListInv'
  BY <1>a, <1>6 DEF LeaveWaiting
<1>7. ASSUME NEW t \in Tids, Sync(t) PROVE ListInv'
  BY <1>a, <1>7 DEF Sync
<1>8. CASE ScanWaiting
  <2>1. /\ LiveSize = runListSize /\ LiveSize' = LiveSize /\ runList' = runList
        /\ step' = "cas" /\ curThreadIdx' = curThreadIdx + 1 /\ curThreadIdx < runListSize
        /\ runList[curThreadIdx] \in Tids /\ state[runList[curThreadIdx]] = "WAITING"
        /\ state' = [state EXCEPT ![runList[curThreadIdx]] = "RUNNING"]
    BY <1>a, <1>8 DEF ScanWaiting
  <2>0. /\ \A i, k \in Live : runList[i] = runList[k] => i = k
        /\ \A i \in Live : runList[i] \in Tids /\ state[runList[i]] # "OFFLINE"
        /\ \A u \in Tids : state[u] # "OFFLINE" => \E i \in Live : runList[i] = u
    BY <1>a
  <2>2. \A u \in Tids : state'[u] = "OFFLINE" <=> state[u] = "OFFLINE"
    BY <1>a, <2>1
  <2>3. curThreadIdx' <= LiveSize' /\ Live' = Live
    BY <1>a, <2>1
  <2> HIDE DEF Live
  <2> QED BY <2>0, <2>1, <2>2, <2>3
<1>9. CASE ScanSkip
  BY <1>a, <1>9 DEF ScanSkip
<1>10. CASE CasWord
  BY <1>a, <1>10 DEF CasWord
<1>11. CASE Wake
  BY <1>a, <1>11 DEF Wake
<1>12. CASE ScanDone
  BY <1>a, <1>12 DEF ScanDone
<1>13. CASE KeepPhase
  BY <1>a, <1>13 DEF KeepPhase
<1>14. CASE EndPhase
  <2>1. /\ LiveSize = runListSize /\ LiveSize' = LiveSize /\ curThreadIdx' = 0
        /\ state' = state /\ runList' = runList /\ runListSize' = runListSize
    BY <1>a, <1>14 DEF EndPhase, ShuffleOrScan
  <2>2. step' = "cleanup" => idx' = 0 /\ newSize' = runListSize
    BY <1>a, <1>14 DEF EndPhase, ShuffleOrScan
  <2>3. step' = "shuffle" => idx' = runListSize - 1 /\ ParallelThreads < runListSize
    BY <1>a, <1>14 DEF EndPhase, ShuffleOrScan
  <2>4. step' \in {"cleanup", "shuffle", "scan"}
    BY <1>a, <1>14 DEF EndPhase, ShuffleOrScan
  <2>0. /\ \A i, k \in Live : runList[i] = runList[k] => i = k
        /\ \A i \in Live : runList[i] \in Tids /\ state[runList[i]] # "OFFLINE"
        /\ \A u \in Tids : state[u] # "OFFLINE" => \E i \in Live : runList[i] = u
    BY <1>a
  <2>5. runListSize \in 0 .. MaxThreads /\ curThreadIdx' <= LiveSize' /\ Live' = Live
    BY <1>a, <2>1
  <2> HIDE DEF Live
  <2> QED BY <2>0, <2>1, <2>2, <2>3, <2>4, <2>5
<1>15. CASE CleanupRemove
  <2>0. /\ runListSize \in 0 .. MaxThreads /\ newSize \in 0 .. MaxThreads
        /\ runList \in [Slots -> Tids \cup {NoTid}]
        /\ \A i, k \in Live : runList[i] = runList[k] => i = k
        /\ \A i \in Live : runList[i] \in Tids /\ state[runList[i]] # "OFFLINE"
        /\ \A u \in Tids : state[u] # "OFFLINE" => \E i \in Live : runList[i] = u
        /\ state \in [Tids -> {"OFFLINE", "WAITING", "RUNNING", "LEFT"}]
    BY <1>a
  <2>1. /\ newSize \in 1 .. MaxThreads /\ idx \in 0 .. newSize - 1
        /\ LiveSize = newSize /\ LiveSize' = newSize - 1 /\ newSize' = newSize - 1
        /\ step' = "cleanup" /\ curThreadIdx' = 0 /\ idx' = idx
        /\ runListSize' = runListSize /\ runList[idx] \in Tids
        /\ state' = [state EXCEPT ![runList[idx]] = "OFFLINE"]
        /\ runList' = [runList EXCEPT ![idx] = runList[newSize - 1], ![newSize - 1] = NoTid]
    BY <1>a, <1>15 DEF CleanupRemove
  <2>6. Live = 0 .. newSize - 1 /\ Live' = 0 .. newSize - 2
    BY <2>1
  <2>7. newSize' <= runListSize' /\ idx' <= newSize' /\ curThreadIdx' <= LiveSize'
    BY <1>a, <2>1
  <2>2. /\ idx < newSize - 1 => runList'[idx] = runList[newSize - 1]
        /\ \A i \in 0 .. newSize - 2 : i # idx => runList'[i] = runList[i]
        /\ \A i, k \in 0 .. newSize - 2 : runList'[i] = runList'[k] => i = k
        /\ \A i \in 0 .. newSize - 2 : runList'[i] # runList[idx]
    BY <2>0, <2>1, RemoveEntry
  <2>3. \A i \in Live' : runList'[i] \in Tids /\ state'[runList'[i]] # "OFFLINE"
    <3> SUFFICES ASSUME NEW i \in Live'
                 PROVE  runList'[i] \in Tids /\ state'[runList'[i]] # "OFFLINE"
      OBVIOUS
    <3>1. PICK k \in Live : runList'[i] = runList[k]
      BY <2>0, <2>1, <2>2
    <3>2. runList[k] # runList[idx]
      BY <2>2, <2>6, <3>1
    <3> QED BY <2>0, <2>1, <3>1, <3>2
  <2>4. ASSUME NEW u \in Tids, state'[u] # "OFFLINE"
        PROVE  \E i \in Live' : runList'[i] = u
    <3>1. PICK k \in Live : runList[k] = u
      BY <2>0, <2>1, <2>4
    <3>2. k # idx
      BY <2>0, <2>1, <2>4, <3>1
    <3>3. CASE k = newSize - 1
      BY <2>0, <2>1, <2>2, <3>1, <3>2, <3>3
    <3>4. CASE k # newSize - 1
      BY <2>0, <2>1, <2>2, <3>1, <3>2, <3>4
    <3> QED BY <3>3, <3>4
  <2>5. \A i \in 0 .. idx' - 1 : state'[runList'[i]] # "LEFT"
    <3>1. \A i \in 0 .. idx - 1 : state[runList[i]] # "LEFT"
      BY <1>a, <1>15 DEF CleanupRemove
    <3> QED BY <2>0, <2>1, <2>2, <3>1
  <2>8. \A i, k \in Live' : runList'[i] = runList'[k] => i = k
    BY <2>2, <2>6
  <2>9. newSize' <= runListSize' /\ idx' <= newSize'
    BY <2>7
  <2> HIDE DEF IInv, TypeOK, LockInv, Live, LiveSize, WordInv, SlotInv, Waking, Slots
  <2> QED BY <2>1, <2>3, <2>4, <2>5, <2>7, <2>8, <2>9
<1>16. CASE CleanupKeep
  BY <1>a, <1>16 DEF CleanupKeep
<1>17. CASE CleanupDone
  BY <1>a, <1>17 DEF CleanupDone, ShuffleOrScan
<1>18. ASSUME NEW j \in 0 .. idx, ShuffleSwap(j) PROVE ListInv'
  <2>0. /\ runListSize \in 0 .. MaxThreads /\ newSize \in 0 .. MaxThreads
        /\ runList \in [Slots -> Tids \cup {NoTid}]
        /\ \A i, k \in Live : runList[i] = runList[k] => i = k
        /\ \A i \in Live : runList[i] \in Tids /\ state[runList[i]] # "OFFLINE"
        /\ \A u \in Tids : state[u] # "OFFLINE" => \E i \in Live : runList[i] = u
        /\ state \in [Tids -> {"OFFLINE", "WAITING", "RUNNING", "LEFT"}]
    BY <1>a
  <2>1. /\ j \in Live /\ idx \in Live /\ LiveSize = runListSize /\ LiveSize' = LiveSize
        /\ state' = state /\ step' = "shuffle" /\ curThreadIdx' = 0
        /\ idx' = idx - 1 /\ runListSize' = runListSize
    BY <1>a, <1>18 DEF ShuffleSwap
  <2>2. runList' = [runList EXCEPT ![idx] = runList[j], ![j] = runList[idx]]
    BY <1>a, <1>18 DEF ShuffleSwap
  <2>3. /\ runList'[idx] = runList[j] /\ runList'[j] = runList[idx]
        /\ \A i \in Live : i # idx /\ i # j => runList'[i] = runList[i]
        /\ \A i, k \in Live : runList'[i] = runList'[k] => i = k
    <3>1. Live \subseteq Slots
      BY <2>0, <2>1, BarrierAssumption DEF Live, Slots
    <3> HIDE DEF Live
    <3>2. \A i \in Live : runList'[i] = IF i = j THEN runList[idx]
                                      ELSE IF i = idx THEN runList[j] ELSE runList[i]
      BY ONLY <2>0, <2>1, <2>2, <3>1
    <3> QED BY ONLY <2>0, <2>1, <3>2
  <2>4. \A i \in Live' : runList'[i] \in Tids /\ state'[runList'[i]] # "OFFLINE"
    BY <2>0, <2>1, <2>3
  <2>5. ASSUME NEW u \in Tids, state'[u] # "OFFLINE"
        PROVE  \E i \in Live' : runList'[i] = u
    <3>1. PICK k \in Live : runList[k] = u
      BY <2>0, <2>1, <2>5
    <3> QED BY <2>0, <2>1, <2>3, <3>1
  <2> QED BY <1>a, <2>0, <2>1, <2>3, <2>4, <2>5
<1>19. CASE ShuffleDone
  BY <1>a, <1>19 DEF ShuffleDone
<1>20. CASE Unlock
  BY <1>a, <1>20 DEF Unlock
<1>21. ASSUME NEW t \in Tids, Waiter(t) \/ Interrupted(t) PROVE ListInv'
  <2>1. UNCHANGED <<state, futexWord, lastIdx, runList, runListSize,
                    curThreadIdx, runningThreads, leftThreads, phaseCount,
                    caller, op, step, pass, wtid, idx, newSize, aborted>>
    BY <1>21, WaiterFrame
  <2> QED BY <1>a, <2>1
<1>22. CASE UNCHANGED vars
  BY <1>a, <1>22 DEF vars
<1> QED
  BY <1>a, <1>1, <1>2, <1>3, <1>4, <1>5, <1>6, <1>7, <1>8, <1>9, <1>10, <1>11,
     <1>12, <1>13, <1>14, <1>15, <1>16, <1>17, <1>18, <1>19, <1>20, <1>21, <1>22
  DEF Next, TryWakeNext, Join

(* The remembered slots: whoever moves an entry of the run list moves the  *)
(* slot its thread remembers with it.                                      *)
LEMMA SlotStep == IInv /\ [Next]_vars => SlotInv'
<1>a. SUFFICES ASSUME IInv, [Next]_vars PROVE SlotInv'
  OBVIOUS
<1> USE BarrierAssumption
    DEF IInv, TypeOK, LockInv, ListInv, Live, LiveSize, WordInv, SlotInv, Waking, Slots, MoreToScan, Passed, PhaseIsOver,
        Enter, StartWaiting, At, threadVars, listVars, countVars, loopVars
<1>1. ASSUME NEW t \in Tids, JoinOffline(t) PROVE SlotInv'
  BY <1>a, <1>1 DEF JoinOffline
<1>2. ASSUME NEW t \in Tids, JoinLeftAhead(t) PROVE SlotInv'
  BY <1>a, <1>2 DEF JoinLeftAhead
<1>3. ASSUME NEW t \in Tids, JoinLeftPassed(t) PROVE SlotInv'
  <2> DEFINE c == curThreadIdx - 1
  <2> SUFFICES ASSUME ~Kills, NEW u \in Tids, state'[u] \in {"RUNNING", "LEFT"}
               PROVE  lastIdx'[u] \in Live' /\ runList'[lastIdx'[u]] = u
    BY <1>a, <1>3 DEF JoinLeftPassed
  <2>1. /\ lastIdx[t] \in Live /\ c \in Live /\ Live' = Live
        /\ runList[lastIdx[t]] = t /\ runList[c] \in Tids
        /\ u # t /\ lastIdx[u] \in Live /\ runList[lastIdx[u]] = u
    BY <1>a, <1>3 DEF JoinLeftPassed
  <2>2. /\ runList' = [runList EXCEPT ![lastIdx[t]] = runList[c], ![c] = t]
        /\ lastIdx' = [lastIdx EXCEPT ![runList[c]] = lastIdx[t], ![t] = c]
    BY <1>a, <1>3 DEF JoinLeftPassed
  <2>3. /\ runList \in [Slots -> Tids \cup {NoTid}] /\ lastIdx \in [Tids -> Nat]
        /\ Live \subseteq Slots
        /\ \A i, k \in Live : runList[i] = runList[k] => i = k
    BY <1>a
  <2> HIDE DEF Live, c, Slots
  <2>4. CASE u = runList[c]
    BY <2>1, <2>2, <2>3, <2>4
  <2>5. CASE u # runList[c]
    BY <2>1, <2>2, <2>3, <2>5
  <2> QED BY <2>4, <2>5
<1>4. ASSUME NEW t \in Tids, JoinAborts(t) PROVE SlotInv'
  BY <1>a, <1>4 DEF JoinAborts
<1>5. ASSUME NEW t \in Tids, Leave(t) PROVE SlotInv'
  BY <1>a, <1>5 DEF Leave
<1>6. ASSUME NEW t \in Tids, LeaveWaiting(t) PROVE SlotInv'
  BY <1>a, <1>6 DEF LeaveWaiting
<1>7. ASSUME NEW t \in Tids, Sync(t) PROVE SlotInv'
  BY <1>a, <1>7 DEF Sync
<1>8. CASE ScanWaiting
  BY <1>a, <1>8 DEF ScanWaiting
<1>9. CASE ScanSkip
  BY <1>a, <1>9 DEF ScanSkip
<1>10. CASE CasWord
  BY <1>a, <1>10 DEF CasWord
<1>11. CASE Wake
  BY <1>a, <1>11 DEF Wake
<1>12. CASE ScanDone
  BY <1>a, <1>12 DEF ScanDone
<1>13. CASE KeepPhase
  BY <1>a, <1>13 DEF KeepPhase
<1>14. CASE EndPhase
  BY <1>a, <1>14 DEF EndPhase, ShuffleOrScan
<1>15. CASE CleanupRemove
  <2> DEFINE w == runList[idx]
             l == newSize - 1
  <2> SUFFICES ASSUME ~Kills, NEW u \in Tids, state'[u] \in {"RUNNING", "LEFT"}
               PROVE  lastIdx'[u] \in Live' /\ runList'[lastIdx'[u]] = u
    BY <1>a, <1>15 DEF CleanupRemove
  <2>1. /\ idx \in Live /\ l \in Live /\ Live' = Live \ {l}
        /\ w \in Tids /\ runList[l] \in Tids
    BY <1>a, <1>15 DEF CleanupRemove
  <2>2. /\ runList' = [runList EXCEPT ![idx] = runList[l], ![l] = NoTid]
        /\ lastIdx' = [lastIdx EXCEPT ![runList[l]] = idx]
        /\ state' = [state EXCEPT ![w] = "OFFLINE"]
    BY <1>a, <1>15 DEF CleanupRemove
  <2>3. /\ runList \in [Slots -> Tids \cup {NoTid}] /\ lastIdx \in [Tids -> Nat]
        /\ state \in [Tids -> {"OFFLINE", "WAITING", "RUNNING", "LEFT"}]
        /\ Live \subseteq Slots
        /\ \A i, k \in Live : runList[i] = runList[k] => i = k
    BY <1>a
  <2>4. u # w /\ lastIdx[u] \in Live /\ runList[lastIdx[u]] = u
    BY <1>a, <2>1, <2>2
  <2> HIDE DEF Live, w, l, Slots
  <2>5. CASE u = runList[l]
    BY <2>1, <2>2, <2>3, <2>4, <2>5 DEF w
  <2>6. CASE u # runList[l]
    BY <2>1, <2>2, <2>3, <2>4, <2>6 DEF w
  <2> QED BY <2>5, <2>6
<1>16. CASE CleanupKeep
  BY <1>a, <1>16 DEF CleanupKeep
<1>17. CASE CleanupDone
  BY <1>a, <1>17 DEF CleanupDone, ShuffleOrScan
<1>18. ASSUME NEW j \in 0 .. idx, ShuffleSwap(j) PROVE SlotInv'
  <2> SUFFICES ASSUME ~Kills, NEW u \in Tids, state'[u] \in {"RUNNING", "LEFT"}
               PROVE  lastIdx'[u] \in Live' /\ runList'[lastIdx'[u]] = u
    BY <1>a, <1>18 DEF ShuffleSwap
  <2>1. /\ idx \in Live /\ j \in Live /\ Live' = Live
        /\ runList[idx] \in Tids /\ runList[j] \in Tids
        /\ lastIdx[u] \in Live /\ runList[lastIdx[u]] = u
    BY <1>a, <1>18 DEF ShuffleSwap
  <2>2. /\ runList' = [runList EXCEPT ![idx] = runList[j], ![j] = runList[idx]]
        /\ lastIdx' = [lastIdx EXCEPT ![runList[idx]] = j, ![runList[j]] = idx]
    BY <1>a, <1>18 DEF ShuffleSwap
  <2>3. /\ runList \in [Slots -> Tids \cup {NoTid}] /\ lastIdx \in [Tids -> Nat]
        /\ Live \subseteq Slots
        /\ \A i, k \in Live : runList[i] = runList[k] => i = k
    BY <1>a
  <2> HIDE DEF Live, Slots
  <2>4. CASE u = runList[j]
    BY <2>1, <2>2, <2>3, <2>4
  <2>5. CASE u # runList[j] /\ u = runList[idx]
    BY <2>1, <2>2, <2>3, <2>5
  <2>6. CASE u # runList[j] /\ u # runList[idx]
    BY <2>1, <2>2, <2>3, <2>6
  <2> QED BY <2>4, <2>5, <2>6
<1>19. CASE ShuffleDone
  BY <1>a, <1>19 DEF ShuffleDone
<1>20. CASE Unlock
  BY <1>a, <1>20 DEF Unlock
<1>21. ASSUME NEW t \in Tids, Waiter(t) \/ Interrupted(t) PROVE SlotInv'
  <2>1. UNCHANGED <<state, futexWord, lastIdx, runList, runListSize,
                    curThreadIdx, runningThreads, leftThreads, phaseCount,
                    caller, op, step, pass, wtid, idx, newSize, aborted>>
    BY <1>21, WaiterFrame
  <2> QED BY <1>a, <2>1
<1>22. CASE UNCHANGED vars
  BY <1>a, <1>22 DEF vars
<1> QED
  BY <1>a, <1>1, <1>2, <1>3, <1>4, <1>5, <1>6, <1>7, <1>8, <1>9, <1>10, <1>11,
     <1>12, <1>13, <1>14, <1>15, <1>16, <1>17, <1>18, <1>19, <1>20, <1>21, <1>22
  DEF Next, TryWakeNext, Join

(* The joining thread stays ahead of the scan until it is started.         *)
LEMMA JoinStep == IInv /\ [Next]_vars => JoinInv'
<1>a. SUFFICES ASSUME IInv, [Next]_vars PROVE JoinInv'
  OBVIOUS
<1> USE BarrierAssumption
    DEF IInv, TypeOK, LockInv, ListInv, Live, LiveSize, WordInv, SlotInv, JoinInv, Waking, Slots, MoreToScan, Passed, PhaseIsOver,
        Enter, StartWaiting, At, threadVars, listVars, countVars, loopVars
<1>1. ASSUME NEW t \in Tids, JoinOffline(t) PROVE JoinInv'
  <2>1. runListSize < MaxThreads
    BY <1>a, <1>1, RoomForOneMore DEF JoinOffline
  <2>2. /\ LiveSize' = runListSize + 1 /\ curThreadIdx' = curThreadIdx
        /\ curThreadIdx \in 0 .. runListSize
        /\ runListSize \in Slots /\ caller' = t
        /\ runList' = [runList EXCEPT ![runListSize] = t]
        /\ runList \in [Slots -> Tids \cup {NoTid}]
    BY <1>a, <1>1, <2>1 DEF JoinOffline
  <2>3. runList'[runListSize] = t /\ runListSize \in Live'
    BY <2>2
  <2>4. runListSize >= curThreadIdx'
    BY <2>2
  <2> QED BY <2>2, <2>3, <2>4
<1>2. ASSUME NEW t \in Tids, JoinLeftAhead(t) PROVE JoinInv'
  BY <1>a, <1>2 DEF JoinLeftAhead
<1>3. ASSUME NEW t \in Tids, JoinLeftPassed(t) PROVE JoinInv'
  BY <1>a, <1>3 DEF JoinLeftPassed
<1>4. ASSUME NEW t \in Tids, JoinAborts(t) PROVE JoinInv'
  BY <1>a, <1>4 DEF JoinAborts
<1>5. ASSUME NEW t \in Tids, Leave(t) PROVE JoinInv'
  BY <1>a, <1>5 DEF Leave
<1>6. ASSUME NEW t \in Tids, LeaveWaiting(t) PROVE JoinInv'
  BY <1>a, <1>6 DEF LeaveWaiting
<1>7. ASSUME NEW t \in Tids, Sync(t) PROVE JoinInv'
  BY <1>a, <1>7 DEF Sync
<1>8. CASE ScanWaiting
  BY <1>a, <1>8 DEF ScanWaiting
<1>9. CASE ScanSkip
  BY <1>a, <1>9 DEF ScanSkip
<1>10. CASE CasWord
  BY <1>a, <1>10 DEF CasWord
<1>11. CASE Wake
  BY <1>a, <1>11 DEF Wake
<1>12. CASE ScanDone
  BY <1>a, <1>12 DEF ScanDone
<1>13. CASE KeepPhase
  BY <1>a, <1>13 DEF KeepPhase
<1>14. CASE EndPhase
  BY <1>a, <1>14 DEF EndPhase, ShuffleOrScan
<1>15. CASE CleanupRemove
  BY <1>a, <1>15 DEF CleanupRemove
<1>16. CASE CleanupKeep
  BY <1>a, <1>16 DEF CleanupKeep
<1>17. CASE CleanupDone
  BY <1>a, <1>17 DEF CleanupDone, ShuffleOrScan
<1>18. ASSUME NEW j \in 0 .. idx, ShuffleSwap(j) PROVE JoinInv'
  BY <1>a, <1>18 DEF ShuffleSwap
<1>19. CASE ShuffleDone
  BY <1>a, <1>19 DEF ShuffleDone
<1>20. CASE Unlock
  BY <1>a, <1>20 DEF Unlock
<1>21. ASSUME NEW t \in Tids, Waiter(t) \/ Interrupted(t) PROVE JoinInv'
  <2>1. UNCHANGED <<state, futexWord, lastIdx, runList, runListSize,
                    curThreadIdx, runningThreads, leftThreads, phaseCount,
                    caller, op, step, pass, wtid, idx, newSize, aborted>>
    BY <1>21, WaiterFrame
  <2> QED BY <1>a, <2>1
<1>22. CASE UNCHANGED vars
  BY <1>a, <1>22 DEF vars
<1> QED
  BY <1>a, <1>1, <1>2, <1>3, <1>4, <1>5, <1>6, <1>7, <1>8, <1>9, <1>10, <1>11,
     <1>12, <1>13, <1>14, <1>15, <1>16, <1>17, <1>18, <1>19, <1>20, <1>21, <1>22
  DEF Next, TryWakeNext, Join


(* If as many threads LEFT as are on the run list, nobody WAITs.           *)
LEMMA EveryoneLeft ==
  ASSUME IInv, step = "endPhase", leftThreads = runListSize
  PROVE  \A t \in Tids : state[t] # "WAITING"
<1> DEFINE L == InState("LEFT")
           O == InState("OFFLINE")
<1>1. /\ IsFiniteSet(L) /\ IsFiniteSet(O)
      /\ Cardinality(L) \in Nat /\ Cardinality(O) \in Nat
  BY InStateFinite
<1>2. L \cup O \in SUBSET Tids /\ L \cap O = {}
  BY DEF InState
<1>3. Cardinality(L \cup O) = Cardinality(L) + Cardinality(O)
  <2>1. Cardinality(L \cup O) = Cardinality(L) + Cardinality(O) - Cardinality(L \cap O)
    BY <1>1, FS_Union
  <2>2. Cardinality(L \cap O) = 0
    BY <1>2, FS_EmptySet
  <2> QED BY <1>1, <2>1, <2>2
<1>4. Cardinality(L) + Cardinality(O) = Cardinality(Tids)
  BY <1>1 DEF IInv, CountInv, LiveSize, TypeOK
<1>5. Tids = L \cup O
  BY <1>2, <1>3, <1>4, BarrierAssumption, FS_Subset
<1> QED BY <1>5 DEF InState

(* How far the scan is when it stops.                                      *)
LEMMA ScanStep == IInv /\ [Next]_vars => ScanInv'
<1>a. SUFFICES ASSUME IInv, [Next]_vars PROVE ScanInv'
  OBVIOUS
<1> USE BarrierAssumption
    DEF IInv, TypeOK, LockInv, ListInv, Live, LiveSize, WordInv, ScanInv, InState, Waking, Slots, MoreToScan, Passed, PhaseIsOver,
        Enter, StartWaiting, At, threadVars, listVars, countVars, loopVars
<1>1. ASSUME NEW t \in Tids, JoinOffline(t) PROVE ScanInv'
  BY <1>a, <1>1 DEF JoinOffline
<1>2. ASSUME NEW t \in Tids, JoinLeftAhead(t) PROVE ScanInv'
  BY <1>a, <1>2 DEF JoinLeftAhead
<1>3. ASSUME NEW t \in Tids, JoinLeftPassed(t) PROVE ScanInv'
  BY <1>a, <1>3 DEF JoinLeftPassed
<1>4. ASSUME NEW t \in Tids, JoinAborts(t) PROVE ScanInv'
  BY <1>a, <1>4 DEF JoinAborts
<1>5. ASSUME NEW t \in Tids, Leave(t) PROVE ScanInv'
  BY <1>a, <1>5 DEF Leave
<1>6. ASSUME NEW t \in Tids, LeaveWaiting(t) PROVE ScanInv'
  BY <1>a, <1>6 DEF LeaveWaiting
<1>7. ASSUME NEW t \in Tids, Sync(t) PROVE ScanInv'
  BY <1>a, <1>7 DEF Sync
<1>8. CASE ScanWaiting
  BY <1>a, <1>8 DEF ScanWaiting
<1>9. CASE ScanSkip
  BY <1>a, <1>9 DEF ScanSkip
<1>10. CASE CasWord
  BY <1>a, <1>10 DEF CasWord
<1>11. CASE Wake
  BY <1>a, <1>11 DEF Wake
<1>12. CASE ScanDone
  BY <1>a, <1>12 DEF ScanDone
<1>13. CASE KeepPhase
  <2>1. runningThreads = 0 => \A t \in Tids : state[t] # "WAITING"
    <3>1. CASE leftThreads = runListSize
      BY <1>a, <1>13, <3>1, EveryoneLeft DEF KeepPhase
    <3>2. CASE leftThreads # runListSize
      BY <1>a, <1>13, <3>2 DEF KeepPhase
    <3> QED BY <3>1, <3>2
  <2> QED BY <1>a, <1>13, <2>1 DEF KeepPhase
<1>14. CASE EndPhase
  BY <1>a, <1>14 DEF EndPhase, ShuffleOrScan
<1>15. CASE CleanupRemove
  BY <1>a, <1>15 DEF CleanupRemove
<1>16. CASE CleanupKeep
  BY <1>a, <1>16 DEF CleanupKeep
<1>17. CASE CleanupDone
  BY <1>a, <1>17 DEF CleanupDone, ShuffleOrScan
<1>18. ASSUME NEW j \in 0 .. idx, ShuffleSwap(j) PROVE ScanInv'
  BY <1>a, <1>18 DEF ShuffleSwap
<1>19. CASE ShuffleDone
  BY <1>a, <1>19 DEF ShuffleDone
<1>20. CASE Unlock
  BY <1>a, <1>20 DEF Unlock
<1>21. ASSUME NEW t \in Tids, Waiter(t) \/ Interrupted(t) PROVE ScanInv'
  <2>1. UNCHANGED <<state, futexWord, lastIdx, runList, runListSize,
                    curThreadIdx, runningThreads, leftThreads, phaseCount,
                    caller, op, step, pass, wtid, idx, newSize, aborted>>
    BY <1>21, WaiterFrame
  <2> QED BY <1>a, <2>1
<1>22. CASE UNCHANGED vars
  BY <1>a, <1>22 DEF vars
<1> QED
  BY <1>a, <1>1, <1>2, <1>3, <1>4, <1>5, <1>6, <1>7, <1>8, <1>9, <1>10, <1>11,
     <1>12, <1>13, <1>14, <1>15, <1>16, <1>17, <1>18, <1>19, <1>20, <1>21, <1>22
  DEF Next, TryWakeNext, Join

(* The counters follow the states: one more or less in each per step.      *)
LEMMA CountStep == IInv /\ [Next]_vars => CountInv'
<1>a. SUFFICES ASSUME IInv, [Next]_vars PROVE CountInv'
  OBVIOUS
<1>b. /\ \A s : Cardinality(InState(s)) \in Nat
      /\ Cardinality(Tids) \in Nat
  BY InStateFinite, BarrierAssumption, FS_CardinalityType
<1> USE BarrierAssumption
    DEF CountInv, LiveSize, Waking, MoreToScan,
        Enter, StartWaiting, At, threadVars, listVars, countVars, loopVars
<1>1. ASSUME NEW t \in Tids, JoinOffline(t) PROVE CountInv'
  <2>1. t \in Tids /\ state[t] = "OFFLINE" /\ state' = [state EXCEPT ![t] = "WAITING"]
    BY <1>a, <1>1 DEF JoinOffline, IInv, TypeOK, ListInv, WordInv, Live, LiveSize
  <2>2. /\ Cardinality(InState("WAITING")') = Cardinality(InState("WAITING")) + 1
        /\ Cardinality(InState("OFFLINE")') = Cardinality(InState("OFFLINE")) - 1
        /\ \A q : q # "WAITING" /\ q # "OFFLINE" => InState(q)' = InState(q)
    BY <1>a, <2>1, MoveState DEF IInv
  <2> QED BY <1>a, <1>b, <1>1, <2>2 DEF JoinOffline, IInv, LockInv, TypeOK
<1>2. ASSUME NEW t \in Tids, JoinLeftAhead(t) PROVE CountInv'
  <2>1. t \in Tids /\ state[t] = "LEFT" /\ state' = [state EXCEPT ![t] = "WAITING"]
    BY <1>a, <1>2 DEF JoinLeftAhead, IInv, TypeOK, ListInv, WordInv, Live, LiveSize
  <2>2. /\ Cardinality(InState("WAITING")') = Cardinality(InState("WAITING")) + 1
        /\ Cardinality(InState("LEFT")') = Cardinality(InState("LEFT")) - 1
        /\ \A q : q # "WAITING" /\ q # "LEFT" => InState(q)' = InState(q)
    BY <1>a, <2>1, MoveState DEF IInv
  <2> QED BY <1>a, <1>b, <1>2, <2>2 DEF JoinLeftAhead, IInv, LockInv, TypeOK
<1>3. ASSUME NEW t \in Tids, JoinLeftPassed(t) PROVE CountInv'
  <2>1. t \in Tids /\ state[t] = "LEFT" /\ state' = [state EXCEPT ![t] = "WAITING"]
    BY <1>a, <1>3 DEF JoinLeftPassed, IInv, TypeOK, ListInv, WordInv, Live, LiveSize
  <2>2. /\ Cardinality(InState("WAITING")') = Cardinality(InState("WAITING")) + 1
        /\ Cardinality(InState("LEFT")') = Cardinality(InState("LEFT")) - 1
        /\ \A q : q # "WAITING" /\ q # "LEFT" => InState(q)' = InState(q)
    BY <1>a, <2>1, MoveState DEF IInv
  <2> QED BY <1>a, <1>b, <1>3, <2>2 DEF JoinLeftPassed, IInv, LockInv, TypeOK
<1>4. ASSUME NEW t \in Tids, JoinAborts(t) PROVE CountInv'
  <2>1. state' = state
    BY <1>4 DEF JoinAborts
  <2>2. \A s : InState(s)' = InState(s)
    BY <2>1 DEF InState
  <2> QED BY <1>a, <1>b, <1>4, <2>2 DEF JoinAborts, IInv, LockInv, TypeOK
<1>5. ASSUME NEW t \in Tids, Leave(t) PROVE CountInv'
  <2>1. t \in Tids /\ state[t] = "RUNNING" /\ state' = [state EXCEPT ![t] = "LEFT"]
    BY <1>a, <1>5 DEF Leave, IInv, TypeOK, ListInv, WordInv, Live, LiveSize
  <2>2. /\ Cardinality(InState("LEFT")') = Cardinality(InState("LEFT")) + 1
        /\ Cardinality(InState("RUNNING")') = Cardinality(InState("RUNNING")) - 1
        /\ \A q : q # "LEFT" /\ q # "RUNNING" => InState(q)' = InState(q)
    BY <1>a, <2>1, MoveState DEF IInv
  <2> QED BY <1>a, <1>b, <1>5, <2>2 DEF Leave, IInv, LockInv, TypeOK
<1>6. ASSUME NEW t \in Tids, LeaveWaiting(t) PROVE CountInv'
  <2>1. t \in Tids /\ state[t] = "WAITING" /\ state' = [state EXCEPT ![t] = "LEFT"]
    BY <1>a, <1>6 DEF LeaveWaiting, IInv, TypeOK, ListInv, WordInv, Live, LiveSize
  <2>2. /\ Cardinality(InState("LEFT")') = Cardinality(InState("LEFT")) + 1
        /\ Cardinality(InState("WAITING")') = Cardinality(InState("WAITING")) - 1
        /\ \A q : q # "LEFT" /\ q # "WAITING" => InState(q)' = InState(q)
    BY <1>a, <2>1, MoveState DEF IInv
  <2> QED BY <1>a, <1>b, <1>6, <2>2 DEF LeaveWaiting, IInv, LockInv, TypeOK
<1>7. ASSUME NEW t \in Tids, Sync(t) PROVE CountInv'
  <2>1. t \in Tids /\ state[t] = "RUNNING" /\ state' = [state EXCEPT ![t] = "WAITING"]
    BY <1>a, <1>7 DEF Sync, IInv, TypeOK, ListInv, WordInv, Live, LiveSize
  <2>2. /\ Cardinality(InState("WAITING")') = Cardinality(InState("WAITING")) + 1
        /\ Cardinality(InState("RUNNING")') = Cardinality(InState("RUNNING")) - 1
        /\ \A q : q # "WAITING" /\ q # "RUNNING" => InState(q)' = InState(q)
    BY <1>a, <2>1, MoveState DEF IInv
  <2> QED BY <1>a, <1>b, <1>7, <2>2 DEF Sync, IInv, LockInv, TypeOK
<1>8. CASE ScanWaiting
  <2>1. runList[curThreadIdx] \in Tids /\ state[runList[curThreadIdx]] = "WAITING" /\ state' = [state EXCEPT ![runList[curThreadIdx]] = "RUNNING"]
    BY <1>a, <1>8 DEF ScanWaiting, IInv, TypeOK, ListInv, WordInv, Live, LiveSize
  <2>2. /\ Cardinality(InState("RUNNING")') = Cardinality(InState("RUNNING")) + 1
        /\ Cardinality(InState("WAITING")') = Cardinality(InState("WAITING")) - 1
        /\ \A q : q # "RUNNING" /\ q # "WAITING" => InState(q)' = InState(q)
    BY <1>a, <2>1, MoveState DEF IInv
  <2> QED BY <1>a, <1>b, <1>8, <2>2 DEF ScanWaiting, IInv, LockInv, TypeOK
<1>9. CASE ScanSkip
  <2>1. state' = state
    BY <1>9 DEF ScanSkip
  <2>2. \A s : InState(s)' = InState(s)
    BY <2>1 DEF InState
  <2> QED BY <1>a, <1>b, <1>9, <2>2 DEF ScanSkip, IInv, LockInv, TypeOK
<1>10. CASE CasWord
  <2>1. state' = state
    BY <1>10 DEF CasWord
  <2>2. \A s : InState(s)' = InState(s)
    BY <2>1 DEF InState
  <2> QED BY <1>a, <1>b, <1>10, <2>2 DEF CasWord, IInv, LockInv, TypeOK
<1>11. CASE Wake
  <2>1. state' = state
    BY <1>11 DEF Wake
  <2>2. \A s : InState(s)' = InState(s)
    BY <2>1 DEF InState
  <2> QED BY <1>a, <1>b, <1>11, <2>2 DEF Wake, IInv, LockInv, TypeOK
<1>12. CASE ScanDone
  <2>1. state' = state
    BY <1>12 DEF ScanDone
  <2>2. \A s : InState(s)' = InState(s)
    BY <2>1 DEF InState
  <2> QED BY <1>a, <1>b, <1>12, <2>2 DEF ScanDone, IInv, LockInv, TypeOK
<1>13. CASE KeepPhase
  <2>1. state' = state
    BY <1>13 DEF KeepPhase
  <2>2. \A s : InState(s)' = InState(s)
    BY <2>1 DEF InState
  <2> QED BY <1>a, <1>b, <1>13, <2>2 DEF KeepPhase, IInv, LockInv, TypeOK
<1>14. CASE EndPhase
  <2>1. state' = state
    BY <1>14 DEF EndPhase, ShuffleOrScan
  <2>2. \A s : InState(s)' = InState(s)
    BY <2>1 DEF InState
  <2> QED BY <1>a, <1>b, <1>14, <2>2 DEF EndPhase, ShuffleOrScan, IInv, LockInv, TypeOK
<1>15. CASE CleanupRemove
  <2>1. runList[idx] \in Tids /\ state[runList[idx]] = "LEFT" /\ state' = [state EXCEPT ![runList[idx]] = "OFFLINE"]
    BY <1>a, <1>15 DEF CleanupRemove, IInv, TypeOK, ListInv, WordInv, Live, LiveSize
  <2>2. /\ Cardinality(InState("OFFLINE")') = Cardinality(InState("OFFLINE")) + 1
        /\ Cardinality(InState("LEFT")') = Cardinality(InState("LEFT")) - 1
        /\ \A q : q # "OFFLINE" /\ q # "LEFT" => InState(q)' = InState(q)
    BY <1>a, <2>1, MoveState DEF IInv
  <2> QED BY <1>a, <1>b, <1>15, <2>2 DEF CleanupRemove, IInv, LockInv, TypeOK
<1>16. CASE CleanupKeep
  <2>1. state' = state
    BY <1>16 DEF CleanupKeep
  <2>2. \A s : InState(s)' = InState(s)
    BY <2>1 DEF InState
  <2> QED BY <1>a, <1>b, <1>16, <2>2 DEF CleanupKeep, IInv, LockInv, TypeOK
<1>17. CASE CleanupDone
  <2>1. InState("LEFT") = {}
    BY <1>a, <1>17 DEF CleanupDone, IInv, ListInv, Live, InState
  <2>2. Cardinality(InState("LEFT")) = 0
    BY <2>1, FS_EmptySet
  <2>3. state' = state
    BY <1>17 DEF CleanupDone
  <2>4. \A s : InState(s)' = InState(s)
    BY <2>3 DEF InState
  <2> QED BY <1>a, <1>b, <1>17, <2>2, <2>4 DEF CleanupDone, ShuffleOrScan, IInv, ListInv, TypeOK
<1>18. ASSUME NEW j \in 0 .. idx, ShuffleSwap(j) PROVE CountInv'
  <2>1. state' = state
    BY <1>18 DEF ShuffleSwap
  <2>2. \A s : InState(s)' = InState(s)
    BY <2>1 DEF InState
  <2> QED BY <1>a, <1>b, <1>18, <2>2 DEF ShuffleSwap, IInv, LockInv, TypeOK
<1>19. CASE ShuffleDone
  <2>1. state' = state
    BY <1>19 DEF ShuffleDone
  <2>2. \A s : InState(s)' = InState(s)
    BY <2>1 DEF InState
  <2> QED BY <1>a, <1>b, <1>19, <2>2 DEF ShuffleDone, IInv, LockInv, TypeOK
<1>20. CASE Unlock
  <2>1. state' = state
    BY <1>20 DEF Unlock
  <2>2. \A s : InState(s)' = InState(s)
    BY <2>1 DEF InState
  <2> QED BY <1>a, <1>b, <1>20, <2>2 DEF Unlock, IInv, LockInv, TypeOK
<1>21. ASSUME NEW t \in Tids, Waiter(t) \/ Interrupted(t) PROVE CountInv'
  <2>1. UNCHANGED <<state, futexWord, lastIdx, runList, runListSize,
                    curThreadIdx, runningThreads, leftThreads, phaseCount,
                    caller, op, step, pass, wtid, idx, newSize, aborted>>
    BY <1>21, WaiterFrame
  <2>2. \A s : InState(s)' = InState(s)
    BY <2>1 DEF InState
  <2> QED BY <1>a, <2>1, <2>2 DEF IInv
<1>22. CASE UNCHANGED vars
  <2>1. state' = state
    BY <1>22 DEF vars
  <2>2. \A s : InState(s)' = InState(s)
    BY <2>1 DEF InState
  <2> QED BY <1>a, <1>b, <1>22, <2>2 DEF vars, IInv, LockInv, TypeOK
<1> QED
  BY <1>a, <1>1, <1>2, <1>3, <1>4, <1>5, <1>6, <1>7, <1>8, <1>9, <1>10, <1>11,
     <1>12, <1>13, <1>14, <1>15, <1>16, <1>17, <1>18, <1>19, <1>20, <1>21, <1>22
  DEF Next, TryWakeNext, Join

(* Types; the counters do not go below zero because someone is counted.    *)
LEMMA TypeStep == IInv /\ [Next]_vars => TypeOK'
<1>a. SUFFICES ASSUME IInv, [Next]_vars PROVE TypeOK'
  OBVIOUS
<1> USE BarrierAssumption
    DEF IInv, TypeOK, LockInv, ListInv, WordInv, Live, LiveSize, Waking, Slots, Steps, Locs, MoreToScan,
        Enter, StartWaiting, At, threadVars, listVars, countVars, loopVars
<1>1. ASSUME NEW t \in Tids, JoinOffline(t) PROVE TypeOK'
  <2>1. runListSize < MaxThreads
    BY <1>a, <1>1, RoomForOneMore DEF JoinOffline
  <2> QED BY <1>a, <1>1, <2>1 DEF JoinOffline
<1>2. ASSUME NEW t \in Tids, JoinLeftAhead(t) PROVE TypeOK'
  <2>1. step = "idle" /\ state[t] = "LEFT"
    BY <1>a, <1>2 DEF JoinLeftAhead
  <2>2. leftThreads - 1 \in Nat
    <3>1. /\ Cardinality(InState("LEFT")) \in Nat /\ Cardinality(InState("LEFT")) > 0
      BY <2>1, InStateNonEmpty, InStateFinite
    <3>2. leftThreads = Cardinality(InState("LEFT"))
      BY <1>a, <2>1, <3>1 DEF CountInv
    <3> QED BY <1>a, <3>1, <3>2
  <2> QED BY <1>a, <1>2, <2>2 DEF JoinLeftAhead
<1>3. ASSUME NEW t \in Tids, JoinLeftPassed(t) PROVE TypeOK'
  <2>1. step = "idle" /\ state[t] = "LEFT"
    BY <1>a, <1>3 DEF JoinLeftPassed
  <2>2. leftThreads - 1 \in Nat
    <3>1. /\ Cardinality(InState("LEFT")) \in Nat /\ Cardinality(InState("LEFT")) > 0
      BY <2>1, InStateNonEmpty, InStateFinite
    <3>2. leftThreads = Cardinality(InState("LEFT"))
      BY <1>a, <2>1, <3>1 DEF CountInv
    <3> QED BY <1>a, <3>1, <3>2
  <2> DEFINE c == curThreadIdx - 1
  <2>3. /\ runList' = [runList EXCEPT ![lastIdx[t]] = runList[c], ![c] = t]
        /\ lastIdx' = [lastIdx EXCEPT ![runList[c]] = lastIdx[t], ![t] = c]
    BY <1>3 DEF JoinLeftPassed
  <2>4. /\ runList \in [Slots -> Tids \cup {NoTid}] /\ lastIdx \in [Tids -> Nat]
        /\ c \in Slots /\ c \in 0 .. MaxThreads
    BY <1>a, <1>3 DEF JoinLeftPassed, Passed
  <2> HIDE DEF Slots, c
  <2>5. runList' \in [Slots -> Tids \cup {NoTid}]
    BY <2>3, <2>4
  <2>6. lastIdx' \in [Tids -> Nat]
    BY <2>3, <2>4
  <2> QED BY <1>a, <1>3, <2>2, <2>4, <2>5, <2>6 DEF JoinLeftPassed, c
<1>4. ASSUME NEW t \in Tids, JoinAborts(t) PROVE TypeOK'
  BY <1>a, <1>4 DEF JoinAborts
<1>5. ASSUME NEW t \in Tids, Leave(t) PROVE TypeOK'
  <2>1. step = "idle" /\ state[t] = "RUNNING"
    BY <1>a, <1>5 DEF Leave
  <2>2. runningThreads - 1 \in Nat
    <3>1. /\ Cardinality(InState("RUNNING")) \in Nat /\ Cardinality(InState("RUNNING")) > 0
      BY <2>1, InStateNonEmpty, InStateFinite
    <3>2. runningThreads = Cardinality(InState("RUNNING"))
      BY <1>a, <2>1, <3>1 DEF CountInv
    <3> QED BY <1>a, <3>1, <3>2
  <2> QED BY <1>a, <1>5, <2>2 DEF Leave
<1>6. ASSUME NEW t \in Tids, LeaveWaiting(t) PROVE TypeOK'
  BY <1>a, <1>6 DEF LeaveWaiting
<1>7. ASSUME NEW t \in Tids, Sync(t) PROVE TypeOK'
  <2>1. step = "idle" /\ state[t] = "RUNNING"
    BY <1>a, <1>7 DEF Sync
  <2>2. runningThreads - 1 \in Nat
    <3>1. /\ Cardinality(InState("RUNNING")) \in Nat /\ Cardinality(InState("RUNNING")) > 0
      BY <2>1, InStateNonEmpty, InStateFinite
    <3>2. runningThreads = Cardinality(InState("RUNNING"))
      BY <1>a, <2>1, <3>1 DEF CountInv
    <3> QED BY <1>a, <3>1, <3>2
  <2> QED BY <1>a, <1>7, <2>2 DEF Sync
<1>8. CASE ScanWaiting
  BY <1>a, <1>8 DEF ScanWaiting
<1>9. CASE ScanSkip
  BY <1>a, <1>9 DEF ScanSkip
<1>10. CASE CasWord
  BY <1>a, <1>10 DEF CasWord
<1>11. CASE Wake
  BY <1>a, <1>11 DEF Wake
<1>12. CASE ScanDone
  BY <1>a, <1>12 DEF ScanDone
<1>13. CASE KeepPhase
  BY <1>a, <1>13 DEF KeepPhase
<1>14. CASE EndPhase
  BY <1>a, <1>14 DEF EndPhase, ShuffleOrScan
<1>15. CASE CleanupRemove
  BY <1>a, <1>15 DEF CleanupRemove
<1>16. CASE CleanupKeep
  BY <1>a, <1>16 DEF CleanupKeep
<1>17. CASE CleanupDone
  BY <1>a, <1>17 DEF CleanupDone, ShuffleOrScan
<1>18. ASSUME NEW j \in 0 .. idx, ShuffleSwap(j) PROVE TypeOK'
  <2>1. idx \in Slots /\ j \in Slots
    BY <1>a, <1>18 DEF ShuffleSwap
  <2>2. /\ runList' = [runList EXCEPT ![idx] = runList[j], ![j] = runList[idx]]
        /\ lastIdx' = [lastIdx EXCEPT ![runList[idx]] = j, ![runList[j]] = idx]
    BY <1>18 DEF ShuffleSwap
  <2>3. /\ runList \in [Slots -> Tids \cup {NoTid}] /\ lastIdx \in [Tids -> Nat]
        /\ j \in Nat /\ idx \in Nat
    BY <1>a
  <2> HIDE DEF Slots
  <2>4. runList' \in [Slots -> Tids \cup {NoTid}]
    BY <2>1, <2>2, <2>3
  <2>5. lastIdx' \in [Tids -> Nat]
    BY <2>2, <2>3
  <2> QED BY <1>a, <1>18, <2>4, <2>5 DEF ShuffleSwap
<1>19. CASE ShuffleDone
  BY <1>a, <1>19 DEF ShuffleDone
<1>20. CASE Unlock
  BY <1>a, <1>20 DEF Unlock
<1>21. ASSUME NEW t \in Tids, Waiter(t) \/ Interrupted(t) PROVE TypeOK'
  <2>1. UNCHANGED <<state, futexWord, lastIdx, runList, runListSize,
                    curThreadIdx, runningThreads, leftThreads, phaseCount,
                    caller, op, step, pass, wtid, idx, newSize, aborted>>
    BY <1>21, WaiterFrame
  <2>2. loc' \in [Tids -> Locs]
    <3>1. PICK to \in Locs : loc' = [loc EXCEPT ![t] = to]
      BY <1>21 DEF Waiter, CheckState, FutexWait, ReturnWoken, Interrupted, Wait
    <3> QED BY <1>a, <3>1
  <2> QED BY <1>a, <2>1, <2>2
<1>22. CASE UNCHANGED vars
  BY <1>a, <1>22 DEF vars
<1> QED
  BY <1>a, <1>1, <1>2, <1>3, <1>4, <1>5, <1>6, <1>7, <1>8, <1>9, <1>10, <1>11,
     <1>12, <1>13, <1>14, <1>15, <1>16, <1>17, <1>18, <1>19, <1>20, <1>21, <1>22
  DEF Next, TryWakeNext, Join


------------------------------------------------------------------------------
LEMMA InitInv == Init => IInv
<1> SUFFICES ASSUME Init PROVE IInv
  OBVIOUS
<1> USE BarrierAssumption DEF Init
<1>1. TypeOK
  <2>1. lastIdx \in [Tids -> Nat]
    <3>1. lastIdx \in [Tids -> Garbage] /\ Garbage \subseteq Nat
      OBVIOUS
    <3> QED BY ONLY <3>1
  <2>2. 0 \in 0 .. CleanupPeriod - 1 /\ 0 \in 0 .. MaxThreads
    OBVIOUS
  <2>3. runList \in [Slots -> Tids \cup {NoTid}]
    OBVIOUS
  <2> QED BY <2>1, <2>2, <2>3 DEF TypeOK, Steps, Locs
<1>2. LockInv /\ ListInv /\ WordInv /\ ScanInv /\ SlotInv /\ JoinInv
  BY DEF LockInv, ListInv, WordInv, ScanInv, SlotInv, JoinInv, Live, LiveSize,
         MoreToScan, InState, Waking
<1>3. CountInv
  <2>1. InState("RUNNING") = {} /\ InState("LEFT") = {} /\ InState("OFFLINE") = Tids
    BY DEF InState
  <2>2. Cardinality({}) = 0 /\ Cardinality(Tids) \in Nat
    BY FS_EmptySet, FS_CardinalityType
  <2> QED BY <2>1, <2>2 DEF CountInv, LiveSize, Waking
<1> QED BY <1>1, <1>2, <1>3 DEF IInv

(* The inductive invariant holds throughout.                               *)
LEMMA Invariant == Spec => []IInv
<1>1. IInv /\ [Next]_vars => IInv'
  BY TypeStep, LockStep, ListStep, CountStep, WordStep, ScanStep, SlotStep,
     JoinStep DEF IInv
<1> QED BY <1>1, InitInv, PTL DEF Spec

(* Every variable keeps its type; in particular runningThreads and         *)
(* leftThreads, unsigned in the code, never go below zero, and runList     *)
(* never outgrows its MAX_THREADS entries.                                 *)
THEOREM TypeCorrect == Spec => []TypeOK
<1>1. IInv => TypeOK
  BY DEF IInv
<1> QED BY <1>1, Invariant, PTL

(* runList holds every member of the barrier exactly once, through joins,  *)
(* reschedules, cleanup passes and shuffles.                               *)
THEOREM RunListIsExact == Spec => []RunListExact
<1>1. IInv => RunListExact
  <2> SUFFICES ASSUME IInv PROVE RunListExact
    OBVIOUS
  <2>1. {runList[i] : i \in Live} = Tids \ InState("OFFLINE")
    BY DEF IInv, ListInv, InState
  <2> QED BY <2>1 DEF IInv, ListInv, RunListExact
<1> QED BY <1>1, Invariant, PTL

(* The barrier's two counters count the RUNNING and the LEFT threads.      *)
THEOREM CountsAreExact == Spec => []CountsExact
<1>1. IInv => CountsExact
  BY DEF IInv, CountInv, CountsExact, Waking
<1> QED BY <1>1, Invariant, PTL

(* At most parallelThreads threads run at the same time.                   *)
THEOREM ParallelismIsBounded == Spec => []ParallelismBound
<1>1. IInv => ParallelismBound
  BY DEF IInv, CountInv, ParallelismBound
<1> QED BY <1>1, Invariant, PTL

(* Outside schedLock the barrier runs all it may, and if nobody runs then  *)
(* nobody waits: no phase that could end is left open.                     *)
THEOREM AlwaysWorkConserving == Spec => []WorkConserving
<1>1. IInv => WorkConserving
  BY DEF IInv, LockInv, ScanInv, WorkConserving
<1> QED BY <1>1, Invariant, PTL

(* A thread that is counted as running is never left asleep.               *)
THEOREM WakeupIsNeverLost == Spec => []NoLostWakeup
<1>1. IInv => NoLostWakeup
  BY DEF IInv, WordInv, NoLostWakeup, Waking
<1> QED BY <1>1, Invariant, PTL

(* The assertions of barrier.h and its panic never fail, apart from the    *)
(* one of RejoinFindsItsSlot.                                              *)
THEOREM AssertionsHold == Spec => []AssertsHold
<1>1. IInv => AssertsHold
  <2> SUFFICES ASSUME IInv PROVE AssertsHold
    OBVIOUS
  <2>1. \A t \in Tids :
          /\ loc[t] = "out" => state[t] \in {"OFFLINE", "LEFT"}
          /\ loc[t] = "running" => state[t] = "RUNNING"
          /\ loc[t] = "woken" => state[t] = "RUNNING"
          /\ loc[t] = "futex" /\ futexWord[t] # 1 => state[t] = "RUNNING"
    BY DEF IInv, TypeOK, LockInv, WordInv
  <2>2. step = "cleanup" /\ idx = newSize => runListSize - newSize = leftThreads
    <3> SUFFICES ASSUME step = "cleanup", idx = newSize
                 PROVE  runListSize - newSize = leftThreads
      OBVIOUS
    <3>1. InState("LEFT") = {}
      BY DEF IInv, ListInv, Live, LiveSize, InState
    <3>2. Cardinality(InState("LEFT")) = 0
      BY <3>1, FS_EmptySet
    <3> QED BY <3>2 DEF IInv, CountInv, LiveSize, TypeOK
  <2>3. step = "cas" => futexWord[wtid] = 1
    BY DEF IInv, WordInv
  <2> QED BY <2>1, <2>2, <2>3 DEF AssertsHold
<1> QED BY <1>1, Invariant, PTL

(* The assertion of join() holds as long as no process is killed inside    *)
(* the barrier: a thread that comes back in the phase it left in finds     *)
(* itself in the slot it remembers.                                        *)
THEOREM RejoinIsSafe == ASSUME ~Kills PROVE Spec => []RejoinFindsItsSlot
<1>1. IInv => RejoinFindsItsSlot
  BY DEF IInv, SlotInv, InState, RejoinFindsItsSlot
<1> QED BY <1>1, Invariant, PTL

(* And then join() does not end a phase, as its comment says.              *)
THEOREM JoinEndsNoPhase == ASSUME ~Kills PROVE Spec => []JoinNeverEndsPhase
<1>1. IInv => JoinNeverEndsPhase
  <2> SUFFICES ASSUME IInv, step = "endPhase", op = "join", PhaseIsOver
               PROVE  FALSE
    BY DEF JoinNeverEndsPhase
  <2>1. state[caller] = "RUNNING" /\ caller \in Tids
    BY BarrierAssumption
    DEF IInv, TypeOK, LockInv, ListInv, JoinInv, PhaseIsOver, Live, LiveSize
  <2>2. Cardinality(InState("RUNNING")) > 0
    BY <2>1, InStateNonEmpty
  <2>3. Cardinality(InState("RUNNING")) = 0
    BY DEF IInv, CountInv, PhaseIsOver, Waking, TypeOK
  <2> QED BY <2>2, <2>3, InStateFinite
<1> QED BY <1>1, Invariant, PTL

------------------------------------------------------------------------------
(* The barrier implements the phases of PhaseBarrier.                      *)

(* A thread that runs was scanned: the scan is past its slot.              *)
RanInv == \A t \in Tids : state[t] = "RUNNING" => lastIdx[t] < curThreadIdx

(* Nobody runs while the list is cleaned up or shuffled.                   *)
LEMMA NobodyRuns ==
  ASSUME IInv, RanInv, curThreadIdx = 0
  PROVE  \A t \in Tids : state[t] # "RUNNING"
BY DEF IInv, TypeOK, RanInv

LEMMA RanStep == ~Kills /\ IInv /\ IInv' /\ RanInv /\ [Next]_vars => RanInv'
<1>a. SUFFICES ASSUME ~Kills, IInv, IInv', RanInv, [Next]_vars PROVE RanInv'
  OBVIOUS
<1>1. ASSUME UNCHANGED <<lastIdx, curThreadIdx>>,
             \A t \in Tids : state'[t] = "RUNNING" => state[t] = "RUNNING"
      PROVE  RanInv'
  BY <1>a, <1>1 DEF RanInv
<1>2. ASSUME \A t \in Tids : state'[t] # "RUNNING"
      PROVE  RanInv'
  BY <1>2 DEF RanInv
<1>3. ASSUME NEW t \in Tids,
             JoinOffline(t) \/ JoinLeftAhead(t) \/ JoinAborts(t) \/ Leave(t)
               \/ LeaveWaiting(t) \/ Sync(t)
      PROVE  RanInv'
  <2>1. UNCHANGED <<lastIdx, curThreadIdx>>
    BY <1>3 DEF JoinOffline, JoinLeftAhead, JoinAborts, Leave, LeaveWaiting, Sync,
                threadVars, listVars
  <2>2. \/ \E s \in {"WAITING", "LEFT"} : state' = [state EXCEPT ![t] = s]
        \/ UNCHANGED state
    BY <1>3 DEF JoinOffline, JoinLeftAhead, JoinAborts, Leave, LeaveWaiting, Sync,
                StartWaiting, threadVars
  <2> QED
    BY <1>1, <1>a, <2>1, <2>2 DEF IInv, TypeOK
<1>4. ASSUME NEW t \in Tids, JoinLeftPassed(t) PROVE RanInv'
  <2> DEFINE c == curThreadIdx - 1
             l == lastIdx[t]
  <2>1. /\ runList' = [runList EXCEPT ![l] = runList[c], ![c] = t]
        /\ lastIdx' = [lastIdx EXCEPT ![runList[c]] = l, ![t] = c]
        /\ state' = [state EXCEPT ![t] = "WAITING"] /\ curThreadIdx' = c
        /\ runList[l] = t /\ l < curThreadIdx
    BY <1>4 DEF JoinLeftPassed, StartWaiting, Passed
  <2>2. /\ lastIdx \in [Tids -> Nat] /\ curThreadIdx \in Nat
        /\ state \in [Tids -> {"OFFLINE", "WAITING", "RUNNING", "LEFT"}]
        /\ \A u \in Tids : state[u] \in {"RUNNING", "LEFT"} =>
             lastIdx[u] \in Live /\ runList[lastIdx[u]] = u
    BY <1>a DEF IInv, TypeOK, SlotInv
  <2>3. ASSUME NEW u \in Tids, state'[u] = "RUNNING" PROVE lastIdx'[u] < c
    <3>1. u # t /\ state[u] = "RUNNING" /\ lastIdx[u] < curThreadIdx /\ runList[lastIdx[u]] = u
      BY <1>a, <2>1, <2>2, <2>3 DEF RanInv
    <3>2. CASE u = runList[c]
      BY <2>1, <2>2, <3>1, <3>2
    <3>3. CASE u # runList[c]
      BY <2>1, <2>2, <3>1, <3>3
    <3> QED
      BY <3>2, <3>3
  <2> QED
    BY <2>1, <2>3 DEF RanInv
<1>5. CASE ScanWaiting
  <2>1. /\ curThreadIdx' = curThreadIdx + 1
        /\ lastIdx' = [lastIdx EXCEPT ![runList[curThreadIdx]] = curThreadIdx]
        /\ state' = [state EXCEPT ![runList[curThreadIdx]] = "RUNNING"]
    BY <1>5 DEF ScanWaiting
  <2> QED
    BY <1>a, <2>1 DEF RanInv, IInv, TypeOK
<1>6. CASE ScanSkip
  BY <1>a, <1>6 DEF ScanSkip, RanInv, threadVars, IInv, TypeOK
<1>7. CASE CasWord \/ Wake \/ ScanDone \/ KeepPhase \/ CleanupKeep \/ CleanupDone
             \/ ShuffleDone \/ Unlock \/ UNCHANGED vars
  BY <1>1, <1>7 DEF CasWord, Wake, ScanDone, KeepPhase, CleanupKeep, CleanupDone,
                    ShuffleDone, Unlock, vars, threadVars, listVars
<1>8. CASE EndPhase
  <2>1. PhaseIsOver /\ step = "endPhase" /\ UNCHANGED state
    BY <1>8 DEF EndPhase, At, threadVars
  <2>2. Cardinality(InState("RUNNING")) = 0
    BY <1>a, <2>1 DEF IInv, CountInv, PhaseIsOver, Waking, TypeOK
  <2>3. InState("RUNNING") = {}
    BY <2>2, InStateFinite, FS_EmptySet
  <2> QED
    BY <1>2, <2>1, <2>3 DEF InState
<1>9. CASE CleanupRemove \/ \E j \in 0 .. idx : ShuffleSwap(j)
  <2>1. curThreadIdx = 0
    BY <1>a, <1>9 DEF CleanupRemove, ShuffleSwap, At, IInv, ListInv
  <2>2. \A t \in Tids : state[t] # "RUNNING"
    BY <1>a, <2>1, NobodyRuns
  <2>3. UNCHANGED state \/ state' = [state EXCEPT ![runList[idx]] = "OFFLINE"]
    BY <1>9 DEF CleanupRemove, ShuffleSwap
  <2> QED
    BY <1>2, <1>a, <2>2, <2>3 DEF IInv, TypeOK
<1>10. ASSUME NEW t \in Tids, Waiter(t) \/ Interrupted(t) PROVE RanInv'
  BY <1>1, <1>10, WaiterFrame
<1> QED
  BY <1>a, <1>3, <1>4, <1>5, <1>6, <1>7, <1>8, <1>9, <1>10 DEF Next, TryWakeNext, Join

(* The status of the threads changes only where a step says so.            *)
LEMMA StatusKeeps ==
  ASSUME \A v \in Tids :
           /\ state'[v] = state[v] \/ {state'[v], state[v]} \subseteq {"LEFT", "OFFLINE"}
           /\ state[v] = "WAITING" => (Ahead(v)' <=> Ahead(v))
  PROVE  UNCHANGED Status
<1>1. \A v \in Tids : Status'[v] = Status[v]
  BY DEF Status
<1> QED
  BY <1>1 DEF Status

LEMMA StatusMoves ==
  ASSUME NEW t \in Tids,
         \A v \in Tids \ {t} : /\ state'[v] = state[v]
                               /\ state[v] = "WAITING" => (Ahead(v)' <=> Ahead(v))
  PROVE  Status' = [Status EXCEPT ![t] = Status[t]']
<1>1. \A v \in Tids \ {t} : Status'[v] = Status[v]
  BY DEF Status
<1>2. Status' = [v \in Tids |-> IF v = t THEN Status[t]' ELSE Status[v]]
  BY <1>1 DEF Status
<1> QED
  BY <1>2 DEF Status

(* Whom a thread's status counts as running or pending.                    *)
LEMMA StatusForm ==
  ASSUME TypeOK
  PROVE  /\ Status \in [Tids -> {"out", "pending", "running", "done"}]
         /\ \A t \in Tids :
              /\ Status[t] = "running" <=> state[t] = "RUNNING"
              /\ Status[t] = "pending" <=> state[t] = "WAITING" /\ Ahead(t)
              /\ Status[t] = "done" <=> state[t] = "WAITING" /\ ~Ahead(t)
              /\ Status[t] = "out" <=> state[t] \in {"LEFT", "OFFLINE"}
BY DEF Status, TypeOK

(* With the scan at its start, everybody on the list is ahead of it.       *)
LEMMA AllAhead ==
  ASSUME IInv, curThreadIdx = 0
  PROVE  \A t \in Tids : state[t] = "WAITING" => Ahead(t)
<1>1. /\ \A t \in Tids : state[t] # "OFFLINE" => \E i \in Live : runList[i] = t
      /\ \A i \in Live : i >= 0
  BY DEF IInv, ListInv, Live
<1> QED
  BY <1>1 DEF Ahead

LEMMA AllAheadNext ==
  ASSUME IInv', curThreadIdx' = 0
  PROVE  \A t \in Tids : state'[t] = "WAITING" => Ahead(t)'
<1>1. /\ \A t \in Tids : state'[t] # "OFFLINE" => \E i \in Live' : runList'[i] = t
      /\ \A i \in Live' : i >= 0
  BY DEF IInv, ListInv, Live
<1> QED
  BY <1>1 DEF Ahead

(* join(): the thread is to run in this phase, even if the scan has passed *)
(* the slot it left.                                                       *)
LEMMA JoinRefines ==
  ASSUME ~Kills, IInv, IInv', NEW t \in Tids,
         JoinOffline(t) \/ JoinLeftAhead(t) \/ JoinLeftPassed(t)
  PROVE  Phases!Join(t)
<1>1. /\ caller = NoTid /\ step = "idle" /\ step' = "scan" /\ UNCHANGED phaseCount
      /\ state[t] \in {"OFFLINE", "LEFT"} /\ state' = [state EXCEPT ![t] = "WAITING"]
  BY DEF JoinOffline, JoinLeftAhead, JoinLeftPassed, Enter, StartWaiting, IInv, LockInv
<1>2. /\ state \in [Tids -> {"OFFLINE", "WAITING", "RUNNING", "LEFT"}]
      /\ runList \in [Slots -> Tids \cup {NoTid}] /\ lastIdx \in [Tids -> Nat]
      /\ curThreadIdx \in Nat /\ runListSize \in Nat /\ runListSize <= MaxThreads
      /\ curThreadIdx <= runListSize /\ Live = 0 .. runListSize - 1
      /\ Live' = 0 .. runListSize' - 1
      /\ \A i, k \in Live : runList[i] = runList[k] => i = k
      /\ state[t] = "LEFT" => lastIdx[t] \in Live /\ runList[lastIdx[t]] = t
      /\ MaxThreads \in Nat
  BY <1>1, BarrierAssumption DEF IInv, TypeOK, ListInv, SlotInv, Live, LiveSize
<1>3. Ahead(t)' /\ \A v \in Tids \ {t} : Ahead(v)' <=> Ahead(v)
  <2>1. CASE JoinOffline(t)
    <3>1. /\ runList' = [runList EXCEPT ![runListSize] = t] /\ runListSize' = runListSize + 1
          /\ UNCHANGED curThreadIdx /\ runListSize < MaxThreads
      BY <1>1, <2>1, RoomForOneMore DEF JoinOffline
    <3>2. /\ runList'[runListSize] = t /\ \A i \in Live : runList'[i] = runList[i]
          /\ \A i \in Live' : i \in Live \/ i = runListSize
          /\ runListSize \in Live' /\ Live \subseteq Live'
      BY <1>2, <3>1 DEF Slots
    <3> QED
      BY <1>2, <3>1, <3>2 DEF Ahead
  <2>2. CASE JoinLeftAhead(t)
    <3>1. UNCHANGED <<runList, runListSize, curThreadIdx>> /\ ~Passed(t) /\ state[t] = "LEFT"
      BY <2>2 DEF JoinLeftAhead, listVars
    <3>2. lastIdx[t] \in Live' /\ lastIdx[t] >= curThreadIdx /\ Live' = Live
      BY <1>2, <3>1 DEF Passed
    <3> QED
      BY <1>2, <3>1, <3>2 DEF Ahead
  <2>3. CASE JoinLeftPassed(t)
    <3> DEFINE c == curThreadIdx - 1
               l == lastIdx[t]
    <3>1. /\ runList' = [runList EXCEPT ![l] = runList[c], ![c] = t]
          /\ curThreadIdx' = c /\ UNCHANGED runListSize /\ Passed(t) /\ state[t] = "LEFT"
      BY <2>3 DEF JoinLeftPassed
    <3>2. /\ l \in Live /\ c \in Live /\ l <= c /\ Live' = Live /\ Live \subseteq Slots
          /\ runList[l] = t
      BY <1>2, <3>1 DEF Passed, Slots
    <3>3. runList'[c] = t /\ \A i \in Live : i > c => runList'[i] = runList[i]
      BY <1>2, <3>1, <3>2
    <3>4. \A i \in Live : (i >= c <=> i = c \/ i > c) /\ (i >= curThreadIdx <=> i > c)
      BY <1>2, <3>2
    <3> QED
      BY <3>1, <3>2, <3>3, <3>4 DEF Ahead
  <2> QED
    BY <2>1, <2>2, <2>3
<1>4. Status[t] = "out" /\ Status[t]' = "pending"
  <2>1. state'[t] = "WAITING"
    BY <1>1, <1>2
  <2> QED
    BY <1>1, <1>3, <2>1 DEF Status
<1>5. Status' = [Status EXCEPT ![t] = "pending"]
  <2>1. \A v \in Tids \ {t} : state'[v] = state[v]
    BY <1>1, <1>2
  <2> QED
    BY <1>3, <1>4, <2>1, StatusMoves
<1> QED
  BY <1>1, <1>4, <1>5 DEF Phases!Join

(* sync() and leave(): a thread that has run is not ahead of the scan.     *)
LEMMA SyncLeaveRefine ==
  ASSUME ~Kills, IInv, RanInv, NEW t \in Tids, Sync(t) \/ Leave(t)
  PROVE  Phases!Sync(t) \/ Phases!Leave(t)
<1> DEFINE s == IF Sync(t) THEN "WAITING" ELSE "LEFT"
<1>1. /\ step = "idle" /\ step' = "scan" /\ UNCHANGED phaseCount
      /\ state[t] = "RUNNING" /\ UNCHANGED <<runList, runListSize, curThreadIdx>>
  BY DEF Sync, Leave, Enter, listVars, IInv, LockInv, WordInv
<1>2. state' = [state EXCEPT ![t] = s] /\ s \in {"WAITING", "LEFT"}
  BY DEF Sync, Leave
<1> HIDE DEF s
<1>3. state'[t] = s /\ \A v \in Tids \ {t} : state'[v] = state[v]
  BY <1>2 DEF IInv, TypeOK
<1>4. Live' = Live /\ \A v \in Tids : Ahead(v)' <=> Ahead(v)
  BY <1>1 DEF Ahead, Live, LiveSize
<1>5. ~Ahead(t)
  <2>1. /\ lastIdx[t] \in Live /\ runList[lastIdx[t]] = t /\ lastIdx[t] < curThreadIdx
        /\ \A i, k \in Live : runList[i] = runList[k] => i = k
    BY <1>1 DEF IInv, SlotInv, ListInv, RanInv
  <2>2. \A i \in Live : i \in Int
    BY DEF Live
  <2> QED
    BY <2>1, <2>2 DEF Ahead, IInv, TypeOK
<1>6. Status[t] = "running" /\ Status[t]' = IF s = "WAITING" THEN "done" ELSE "out"
  BY <1>1, <1>2, <1>3, <1>4, <1>5 DEF Status
<1>7. Status' = [Status EXCEPT ![t] = Status[t]']
  BY <1>3, <1>4, StatusMoves
<1> QED
  BY <1>1, <1>2, <1>6, <1>7 DEF Phases!Sync, Phases!Leave

(* checkRunList starts the next thread that waits, within the limit.       *)
LEMMA ScanRefines ==
  ASSUME IInv, ScanWaiting
  PROVE  \E w \in Tids : Phases!Start(w)
<1>0. PICK w : w = runList[curThreadIdx]
  OBVIOUS
<1>1. /\ step = "scan" /\ step' = "cas" /\ MoreToScan
      /\ state[w] = "WAITING" /\ state' = [state EXCEPT ![w] = "RUNNING"]
      /\ curThreadIdx' = curThreadIdx + 1
      /\ UNCHANGED <<runList, runListSize, phaseCount>>
  BY <1>0 DEF ScanWaiting, At, countVars
<1>2. /\ curThreadIdx \in Live /\ Live' = Live /\ w \in Tids /\ runList[curThreadIdx] = w
      /\ \A i \in Live : i \in Int
      /\ \A i, k \in Live : runList[i] = runList[k] => i = k
      /\ curThreadIdx \in Int
  BY <1>0, <1>1 DEF IInv, TypeOK, ListInv, Live, LiveSize, MoreToScan
<1>3. state'[w] = "RUNNING" /\ \A v \in Tids \ {w} : state'[v] = state[v]
  BY <1>1, <1>2 DEF IInv, TypeOK
<1>4. Ahead(w)
  BY <1>2 DEF Ahead
<1>5. ASSUME NEW v \in Tids \ {w} PROVE Ahead(v)' <=> Ahead(v)
  <2>1. \A i \in Live : runList[i] = v => (i >= curThreadIdx <=> i >= curThreadIdx + 1)
    BY <1>2
  <2> QED
    BY <1>1, <1>2, <2>1 DEF Ahead
<1>6. Status[w] = "pending" /\ Status[w]' = "running"
  BY <1>1, <1>2, <1>3, <1>4 DEF Status
<1>7. Status' = [Status EXCEPT ![w] = "running"]
  BY <1>2, <1>3, <1>5, <1>6, StatusMoves
<1>8. Cardinality(Phases!InStatus("running")) < ParallelThreads
  <2>1. Phases!InStatus("running") = InState("RUNNING")
    BY StatusForm DEF Phases!InStatus, InState, IInv
  <2> QED
    BY <1>1, <2>1, BarrierAssumption DEF IInv, CountInv, Waking, MoreToScan, TypeOK
<1>9. phaseCount' = phaseCount
  BY <1>1
<1>10. Phases!Start(w)
  BY <1>6, <1>7, <1>8, <1>9, Zenon DEF Phases!Start, Phases!Cardinality, Cardinality
<1> QED
  BY <1>2, <1>10

(* checkEndPhase: everybody who is there has run.                          *)
LEMMA EndPhaseRefines ==
  ASSUME IInv, IInv', EndPhase
  PROVE  Phases!EndPhase
<1>1. /\ step = "endPhase" /\ PhaseIsOver /\ curThreadIdx' = 0
      /\ phaseCount' = (phaseCount + 1) % CleanupPeriod /\ UNCHANGED state
  BY DEF EndPhase, At, threadVars
<1>2. \A t \in Tids : ~Ahead(t)
  <2>1. \A i \in Live : i < curThreadIdx
    BY <1>1 DEF PhaseIsOver, Live, LiveSize, IInv, TypeOK
  <2>2. \A i \in Live : i \in Int
    BY DEF Live
  <2> QED
    BY <2>1, <2>2 DEF Ahead, IInv, TypeOK
<1>3. \A t \in Tids : state[t] # "RUNNING"
  <2>1. Cardinality(InState("RUNNING")) = 0
    BY <1>1 DEF IInv, CountInv, PhaseIsOver, Waking, TypeOK
  <2>2. InState("RUNNING") = {}
    BY <2>1, InStateFinite, FS_EmptySet
  <2> QED
    BY <2>2 DEF InState
<1>4. \E t \in Tids : state[t] = "WAITING"
  <2> SUFFICES ASSUME \A t \in Tids : state[t] # "WAITING" PROVE FALSE
    OBVIOUS
  <2> DEFINE L == InState("LEFT")
             O == InState("OFFLINE")
  <2>1. /\ IsFiniteSet(L) /\ IsFiniteSet(O)
        /\ Cardinality(L) \in Nat /\ Cardinality(O) \in Nat
    BY InStateFinite
  <2>2. L \cup O = Tids /\ L \cap O = {}
    BY <1>3 DEF InState, IInv, TypeOK
  <2>3. Cardinality(L \cap O) = 0
    BY <2>2, FS_EmptySet
  <2>4. Cardinality(Tids) = Cardinality(L) + Cardinality(O) - Cardinality(L \cap O)
    BY <2>1, <2>2, FS_Union
  <2>5. leftThreads = Cardinality(L) /\ runListSize + Cardinality(O) = Cardinality(Tids)
    BY <1>1, <2>1 DEF IInv, CountInv, LiveSize, TypeOK
  <2> QED
    BY <1>1, <2>1, <2>3, <2>4, <2>5 DEF PhaseIsOver, IInv, TypeOK
<1>5. /\ Phases!InStatus("pending") = {} /\ Phases!InStatus("running") = {}
      /\ Phases!InStatus("done") # {}
  BY <1>2, <1>3, <1>4, StatusForm DEF Phases!InStatus, IInv
<1>6. \A t \in Tids : Status'[t] = IF Status[t] = "done" THEN "pending" ELSE "out"
  <2> SUFFICES ASSUME NEW t \in Tids
               PROVE  Status'[t] = IF Status[t] = "done" THEN "pending" ELSE "out"
    OBVIOUS
  <2>1. state'[t] = "WAITING" => Ahead(t)'
    BY <1>1, AllAheadNext
  <2>2. state[t] \in {"OFFLINE", "WAITING", "LEFT"} /\ state'[t] = state[t]
    BY <1>1, <1>3 DEF IInv, TypeOK
  <2> QED
    BY <1>2, <2>1, <2>2 DEF Status
<1>7. Status' = [t \in Tids |-> IF Status[t] = "done" THEN "pending" ELSE "out"]
  BY <1>6 DEF Status
<1> QED
  BY <1>1, <1>5, <1>7 DEF Phases!EndPhase

(* Every other step leaves the phase and everybody's status in it alone.   *)
LEMMA InnerSteps ==
  ASSUME IInv, IInv',
         \/ ScanSkip \/ CasWord \/ Wake \/ ScanDone \/ KeepPhase
         \/ CleanupRemove \/ CleanupKeep \/ CleanupDone
         \/ (\E j \in 0 .. idx : ShuffleSwap(j)) \/ ShuffleDone \/ Unlock
         \/ \E t \in Tids : Waiter(t) \/ Interrupted(t) \/ JoinAborts(t)
         \/ UNCHANGED vars
  PROVE  UNCHANGED <<Status, phaseCount>>
<1>1. UNCHANGED phaseCount
  BY WaiterFrame DEF ScanSkip, CasWord, Wake, ScanDone, KeepPhase, CleanupRemove,
     CleanupKeep, CleanupDone, ShuffleSwap, ShuffleDone, Unlock, JoinAborts, vars, countVars
<1>2. ASSUME UNCHANGED state, \A v \in Tids : state[v] = "WAITING" => (Ahead(v)' <=> Ahead(v))
      PROVE  UNCHANGED Status
  BY <1>2, StatusKeeps
<1>3. ASSUME UNCHANGED <<state, runList, runListSize, curThreadIdx>>, LiveSize' = LiveSize
      PROVE  UNCHANGED Status
  <2>1. \A v \in Tids : Ahead(v)' <=> Ahead(v)
    BY <1>3 DEF Ahead, Live
  <2> QED
    BY <1>2, <1>3, <2>1
<1>4. ASSUME curThreadIdx = 0, curThreadIdx' = 0,
             \A v \in Tids : state'[v] = state[v] \/ {state'[v], state[v]} \subseteq {"LEFT", "OFFLINE"}
      PROVE  UNCHANGED Status
  <2>1. \A v \in Tids : state[v] = "WAITING" => Ahead(v)
    BY <1>4, AllAhead
  <2>2. \A v \in Tids : state'[v] = "WAITING" => Ahead(v)'
    BY <1>4, AllAheadNext
  <2> QED
    BY <1>4, <2>1, <2>2, StatusKeeps
<1>5. CASE \/ CasWord \/ Wake \/ ScanDone \/ KeepPhase \/ Unlock \/ UNCHANGED vars
           \/ \E t \in Tids : Waiter(t) \/ Interrupted(t) \/ JoinAborts(t)
  <2>1. UNCHANGED <<state, runList, runListSize, curThreadIdx, newSize>>
    BY <1>5, WaiterFrame DEF CasWord, Wake, ScanDone, KeepPhase, Unlock, JoinAborts, vars,
                              threadVars, listVars, loopVars
  <2>2. step = "cleanup" <=> step' = "cleanup"
    BY <1>5, WaiterFrame DEF CasWord, Wake, ScanDone, KeepPhase, Unlock, JoinAborts, vars, At
  <2>3. LiveSize' = LiveSize
    BY <2>1, <2>2 DEF LiveSize
  <2> QED
    BY <1>1, <1>3, <2>1, <2>3
<1>6. CASE ScanSkip
  <2>1. /\ curThreadIdx' = curThreadIdx + 1 /\ state[runList[curThreadIdx]] # "WAITING"
        /\ UNCHANGED <<state, runList, runListSize, step>> /\ step = "scan"
    BY <1>6 DEF ScanSkip, threadVars, At
  <2>2. Live' = Live /\ \A i \in Live : i \in Int
    BY <2>1 DEF Live, LiveSize
  <2>3. ASSUME NEW v \in Tids, state[v] = "WAITING" PROVE Ahead(v)' <=> Ahead(v)
    <3>1. curThreadIdx \in Int
      BY DEF IInv, TypeOK
    <3>2. \A i \in Live : runList[i] = v => (i >= curThreadIdx <=> i >= curThreadIdx + 1)
      BY <2>1, <2>2, <2>3, <3>1
    <3> QED
      BY <2>1, <2>2, <3>2 DEF Ahead
  <2> QED
    BY <1>1, <1>2, <2>1, <2>3
<1>7. CASE \/ CleanupRemove \/ CleanupKeep \/ CleanupDone
           \/ (\E j \in 0 .. idx : ShuffleSwap(j)) \/ ShuffleDone
  <2>1. curThreadIdx = 0 /\ UNCHANGED curThreadIdx
    BY <1>7 DEF CleanupRemove, CleanupKeep, CleanupDone, ShuffleSwap, ShuffleDone, At,
                listVars, IInv, ListInv
  <2>2. \/ UNCHANGED state
        \/ state[runList[idx]] = "LEFT" /\ state' = [state EXCEPT ![runList[idx]] = "OFFLINE"]
    BY <1>7 DEF CleanupRemove, CleanupKeep, CleanupDone, ShuffleSwap, ShuffleDone, threadVars
  <2>3. \A v \in Tids : state'[v] = state[v] \/ {state'[v], state[v]} \subseteq {"LEFT", "OFFLINE"}
    BY <2>2 DEF IInv, TypeOK
  <2> QED
    BY <1>1, <1>4, <2>1, <2>3
<1> QED
  BY <1>1, <1>5, <1>6, <1>7

(* Unless a process dies inside it, the barrier implements the phases: at  *)
(* most parallelThreads members run at a time, each that is there once in  *)
(* every phase, also one that leaves and rejoins where the scan has passed *)
(* it, and a phase ends when all of them have run and one at least waits.  *)
THEOREM Implements == ASSUME ~Kills PROVE Spec => ImplementsPhaseBarrier
<1>1. Init => Phases!Init
  BY DEF Init, Phases!Init, Status
<1>2. Init => RanInv
  BY DEF Init, RanInv
<1>3. IInv /\ IInv' /\ RanInv /\ [Next]_vars => RanInv'
  BY RanStep
<1>4. IInv /\ IInv' /\ RanInv /\ [Next]_vars => [Phases!Next]_<<Status, phaseCount>>
  <2> SUFFICES ASSUME IInv, IInv', RanInv, [Next]_vars
               PROVE  Phases!Next \/ UNCHANGED <<Status, phaseCount>>
    OBVIOUS
  <2>1. ASSUME NEW t \in Tids, JoinOffline(t) \/ JoinLeftAhead(t) \/ JoinLeftPassed(t)
        PROVE  Phases!Next
    BY <2>1, JoinRefines DEF Phases!Next
  <2>2. ASSUME NEW t \in Tids, Sync(t) \/ Leave(t) PROVE Phases!Next
    BY <2>2, SyncLeaveRefine DEF Phases!Next
  <2>3. CASE ScanWaiting
    BY <2>3, ScanRefines DEF Phases!Next
  <2>4. CASE EndPhase
    BY <2>4, EndPhaseRefines DEF Phases!Next
  <2>5. \A t \in Tids : ~LeaveWaiting(t)
    BY DEF LeaveWaiting
  <2>6. CASE \/ ScanSkip \/ CasWord \/ Wake \/ ScanDone \/ KeepPhase
             \/ CleanupRemove \/ CleanupKeep \/ CleanupDone
             \/ (\E j \in 0 .. idx : ShuffleSwap(j)) \/ ShuffleDone \/ Unlock
             \/ \E t \in Tids : Waiter(t) \/ Interrupted(t) \/ JoinAborts(t)
             \/ UNCHANGED vars
    BY <2>6, InnerSteps
  <2> QED
    BY <2>1, <2>2, <2>3, <2>4, <2>5, <2>6 DEF Next, TryWakeNext, Join
<1> QED
  BY <1>1, <1>2, <1>3, <1>4, Invariant, PTL DEF Spec, ImplementsPhaseBarrier, Phases!Spec
==============================================================================
