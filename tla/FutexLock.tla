------------------------------ MODULE FutexLock ------------------------------
(***************************************************************************)
(* The futex mutex of locks.h: futex_lock, futex_lock_nospin,              *)
(* futex_trylock_nospin_timeout and futex_unlock on one 32-bit word.       *)
(*                                                                         *)
(* The word is 0 (free), 1 (taken, nobody sleeps for it as far as the      *)
(* owner knows) or 2 (taken, somebody may sleep for it).  One step is one  *)
(* atomic instruction or one system call.  The test before a               *)
(* compare-and-swap is merged with it: the pair succeeds at an instant     *)
(* where the word is 0 and fails at one where it is not.                   *)
(***************************************************************************)
EXTENDS Integers, FiniteSets, TLAPS

CONSTANTS Threads,    \* the threads that use the lock
          NoThread,   \* "no thread", for the abstract lock
          SpinTries   \* tries before blocking: 5 in futex_lock, 1 in the
                      \* _nospin variants

ASSUME FutexLockAssumption ==
  /\ NoThread \notin Threads
  /\ SpinTries \in Nat \ {0}

VARIABLES lock,   \* the lock word
          pc,     \* where each thread is
          mode,   \* which function it called: "lock", or "try" with a timeout
          tries   \* tries left before the thread blocks

vars == <<lock, pc, mode, tries>>

Blocking == {"try", "xchg", "wait", "asleep", "rexchg"}
Holding  == {"cs", "store"}
Labels   == {"idle", "wake"} \cup Blocking \cup Holding

TypeOK ==
  /\ lock \in 0..2
  /\ pc \in [Threads -> Labels]
  /\ mode \in [Threads -> {"lock", "try"}]
  /\ tries \in [Threads -> 0..SpinTries]

Init ==
  /\ lock = 0
  /\ pc = [t \in Threads |-> "idle"]
  /\ mode = [t \in Threads |-> "lock"]
  /\ tries = [t \in Threads |-> 0]

Goto(t, from, to) == pc[t] = from /\ pc' = [pc EXCEPT ![t] = to]

(* A call of one of the three acquiring functions.                         *)
Call(t, m) ==
  /\ Goto(t, "idle", "try")
  /\ mode' = [mode EXCEPT ![t] = m]
  /\ tries' = [tries EXCEPT ![t] = IF m = "lock" THEN SpinTries ELSE 1]
  /\ UNCHANGED lock

(* *lock == 0 && compare-and-swap(0, 1).                                   *)
TryCas(t) ==
  /\ lock = 0
  /\ Goto(t, "try", "cs")
  /\ lock' = 1
  /\ UNCHANGED <<mode, tries>>

(* The same test when the lock is taken: back off and spin, or block.      *)
TryFail(t) ==
  /\ lock # 0
  /\ Goto(t, "try", IF tries[t] > 1 THEN "try" ELSE "xchg")
  /\ tries' = [tries EXCEPT ![t] = @ - 1]
  /\ UNCHANGED <<lock, mode>>

(* A fault of the next action: c != 2 is tested instead of c == 0.         *)
ExchangeTestsTwo(t) ==
  /\ Goto(t, "xchg", IF lock # 2 THEN "cs" ELSE "wait")
  /\ lock' = 2
  /\ UNCHANGED <<mode, tries>>

(* The exchange with 2 before blocking takes the lock if it was free.      *)
Exchange(t) ==
  /\ Goto(t, "xchg", IF lock = 0 THEN "cs" ELSE "wait")
  /\ lock' = 2
  /\ UNCHANGED <<mode, tries>>

(* FUTEX_WAIT(2): sleep if the word is still 2, else return at once.       *)
FutexWait(t) ==
  /\ Goto(t, "wait", IF lock = 2 THEN "asleep" ELSE "rexchg")
  /\ UNCHANGED <<lock, mode, tries>>

(* The wait ends without a wake: a signal, or the timeout of a "try".  No  *)
(* caller looks at the result of the system call.                          *)
WaitInterrupted(t) ==
  /\ Goto(t, "asleep", "rexchg")
  /\ UNCHANGED <<lock, mode, tries>>

(* A fault of the next action: a woken thread takes the lock as if nobody  *)
(* else could be asleep.                                                   *)
ReExchangeOne(t) ==
  /\ Goto(t, "rexchg", IF lock = 0 THEN "cs"
                       ELSE IF mode[t] = "lock" THEN "try" ELSE "idle")
  /\ lock' = IF lock = 0 THEN 1 ELSE 2
  /\ tries' = [tries EXCEPT ![t] = SpinTries]
  /\ UNCHANGED mode

(* The exchange with 2 after the wait: take the lock, or start over        *)
(* (futex_lock), or give up (futex_trylock_nospin_timeout).                *)
ReExchange(t) ==
  /\ Goto(t, "rexchg", IF lock = 0 THEN "cs"
                       ELSE IF mode[t] = "lock" THEN "try" ELSE "idle")
  /\ lock' = 2
  /\ tries' = [tries EXCEPT ![t] = SpinTries]
  /\ UNCHANGED mode

(* fetch-and-add(-1) of futex_unlock: done if the word was 1.              *)
UnlockDec(t) ==
  /\ Goto(t, "cs", IF lock = 1 THEN "idle" ELSE "store")
  /\ lock' = lock - 1
  /\ UNCHANGED <<mode, tries>>

(* *lock = 0 of the slow path of futex_unlock.                             *)
UnlockStore(t) ==
  /\ Goto(t, "store", "wake")
  /\ lock' = 0
  /\ UNCHANGED <<mode, tries>>

Asleep == {t \in Threads : pc[t] = "asleep"}

(* FUTEX_WAKE(1): any one of the sleepers, if there is one.                *)
UnlockWake(t) ==
  /\ pc[t] = "wake"
  /\ \/ /\ Asleep = {}
        /\ pc' = [pc EXCEPT ![t] = "idle"]
     \/ \E s \in Asleep : pc' = [pc EXCEPT ![t] = "idle", ![s] = "rexchg"]
  /\ UNCHANGED <<lock, mode, tries>>

(* Everything a thread does once it has called: all but the call itself    *)
(* and the signal or timeout that may cut its sleep short.                 *)
Step(t) ==
  \/ TryCas(t) \/ TryFail(t) \/ Exchange(t) \/ FutexWait(t) \/ ReExchange(t)
  \/ UnlockDec(t) \/ UnlockStore(t) \/ UnlockWake(t)

Next ==
  \E t \in Threads :
    \/ \E m \in {"lock", "try"} : Call(t, m)
    \/ Step(t)
    \/ WaitInterrupted(t)

Spec == Init /\ [][Next]_vars

(* The host's scheduler runs every runnable thread, and a thread leaves    *)
(* its critical section; nobody has to call, and no signal has to come.    *)
FairSpec == Spec /\ \A t \in Threads : WF_vars(Step(t))

------------------------------------------------------------------------------

Holders == {t \in Threads : pc[t] \in Holding}

(* At most one thread is past futex_lock and has not yet stored the free   *)
(* word, and the word is non-zero exactly then: the spinning fast path,    *)
(* both exchanges and the two-step unlock agree on who owns the lock.      *)
MutualExclusion ==
  /\ \A t, u \in Holders : t = u
  /\ lock # 0 <=> Holders # {}

(* No lost wake-up: while a thread sleeps in FUTEX_WAIT, either the word   *)
(* tells the owner to wake somebody, or a wake is on its way, or a woken   *)
(* thread is about to write 2 back.  A release can fall between a          *)
(* sleeper's exchange and its FUTEX_WAIT, a newcomer can overtake a woken  *)
(* thread with the fast path, and a timed-out thread can eat the wake.     *)
NoLostWakeup ==
  Asleep # {} => \/ lock = 2
                 \/ \E t \in Threads : pc[t] \in {"store", "wake", "rexchg"}

(* A blocked futex_lock cannot hang while the lock is free: whenever       *)
(* somebody wants the lock, somebody gets it.                              *)
SomeoneGetsIn ==
  (\E t \in Threads : mode[t] = "lock" /\ pc[t] \in Blocking)
    ~> (\E t \in Threads : pc[t] = "cs")

(* The owner the word and the program counters stand for.                  *)
Owner == IF Holders = {} THEN NoThread ELSE CHOOSE t \in Threads : t \in Holders

Abstract == INSTANCE Mutex WITH owner <- Owner

(* Every acquisition finds the lock free and every release is the owner's. *)
ImplementsMutex == Abstract!Spec

-----------------------------------------------------------------------------
(* Proofs, for any set of threads and any number of tries.                 *)

(* The lock word, the program counters and the counters of every thread    *)
(* stay in range: in particular futex_unlock never decrements a free word. *)
(* MutualExclusion is what rules that out, so the two are proved together; *)
(* a thread that spins has tries left.                                     *)
SafeInv ==
  /\ TypeOK
  /\ MutualExclusion
  /\ \A t \in Threads : pc[t] = "try" => tries[t] > 0

LEMMA SafeInit == Init => SafeInv
  BY FutexLockAssumption
  DEF Init, SafeInv, TypeOK, MutualExclusion, Holders, Holding, Labels, Blocking

(* A step of one thread: the label it moves to decides who holds the lock. *)
LEMMA SafeStep == SafeInv /\ [Next]_vars => SafeInv'
<1> SUFFICES ASSUME SafeInv, [Next]_vars PROVE SafeInv'
  OBVIOUS
<1> USE FutexLockAssumption
    DEF SafeInv, TypeOK, MutualExclusion, Holders, Holding, Labels, Blocking, Goto
<1>1. CASE UNCHANGED vars
  BY <1>1 DEF vars
<1>2. ASSUME NEW t \in Threads, NEW m \in {"lock", "try"}, Call(t, m)
      PROVE SafeInv'
  <2>1. lock' = lock /\ pc' = [pc EXCEPT ![t] = "try"] /\ pc[t] = "idle"
    BY <1>2 DEF Call
  <2>2. mode' \in [Threads -> {"lock", "try"}] /\ tries' \in [Threads -> 0..SpinTries]
    BY <1>2 DEF Call
  <2>3. \A u \in Threads : pc'[u] = "try" => tries'[u] > 0
    BY <1>2 DEF Call
  <2> QED BY <2>1, <2>2, <2>3
<1>3. ASSUME NEW t \in Threads, TryCas(t) PROVE SafeInv'
  BY <1>3 DEF TryCas
<1>4. ASSUME NEW t \in Threads, TryFail(t) PROVE SafeInv'
  <2>1. tries' \in [Threads -> 0..SpinTries]
    <3>1. tries' = [tries EXCEPT ![t] = tries[t] - 1]
      BY <1>4 DEF TryFail
    <3>2. tries[t] > 0
      BY <1>4 DEF TryFail
    <3> QED BY <3>1, <3>2
  <2>2. \A u \in Threads : pc'[u] = "try" => tries'[u] > 0
    BY <1>4 DEF TryFail
  <2> QED BY <1>4, <2>1, <2>2 DEF TryFail
<1>5. ASSUME NEW t \in Threads, Exchange(t) PROVE SafeInv'
  BY <1>5 DEF Exchange
<1>6. ASSUME NEW t \in Threads, FutexWait(t) PROVE SafeInv'
  BY <1>6 DEF FutexWait
<1>7. ASSUME NEW t \in Threads, WaitInterrupted(t) PROVE SafeInv'
  BY <1>7 DEF WaitInterrupted
<1>8. ASSUME NEW t \in Threads, ReExchange(t) PROVE SafeInv'
  BY <1>8 DEF ReExchange
<1>9. ASSUME NEW t \in Threads, UnlockDec(t) PROVE SafeInv'
  BY <1>9 DEF UnlockDec
<1>10. ASSUME NEW t \in Threads, UnlockStore(t) PROVE SafeInv'
  BY <1>10 DEF UnlockStore
<1>11. ASSUME NEW t \in Threads, UnlockWake(t) PROVE SafeInv'
  BY <1>11 DEF UnlockWake, Asleep
<1> QED
  BY <1>1, <1>2, <1>3, <1>4, <1>5, <1>6, <1>7, <1>8, <1>9, <1>10, <1>11
  DEF Next, Step
(* Every variable stays in range, in any execution of locks.h's mutex.     *)
THEOREM TypeCorrect == Spec => []TypeOK
<1>1. SafeInv => TypeOK
  BY DEF SafeInv
<1> QED BY <1>1, SafeInit, SafeStep, PTL DEF Spec

(* Mutual exclusion of futex_lock / futex_unlock, spinning or blocking.    *)
THEOREM LockIsExclusive == Spec => []MutualExclusion
<1>1. SafeInv => MutualExclusion
  BY DEF SafeInv
<1> QED BY <1>1, SafeInit, SafeStep, PTL DEF Spec

(* Nobody sleeps in FUTEX_WAIT with no wake owed to him.  Needs the word   *)
(* to be in 0..2, so that a decremented 2 is a 1 and a decremented 1 a 0.  *)
LEMMA WakeupStep == SafeInv /\ NoLostWakeup /\ [Next]_vars => NoLostWakeup'
<1> SUFFICES ASSUME SafeInv, NoLostWakeup, [Next]_vars PROVE NoLostWakeup'
  OBVIOUS
<1> USE DEF SafeInv, TypeOK, NoLostWakeup, Asleep, Labels, Blocking, Holding, Goto
<1>1. CASE UNCHANGED vars
  BY <1>1 DEF vars
<1>2. ASSUME NEW t \in Threads, NEW m \in {"lock", "try"}, Call(t, m)
      PROVE NoLostWakeup'
  BY <1>2 DEF Call
<1>3. ASSUME NEW t \in Threads, TryCas(t) PROVE NoLostWakeup'
  BY <1>3 DEF TryCas
<1>4. ASSUME NEW t \in Threads, TryFail(t) PROVE NoLostWakeup'
  BY <1>4 DEF TryFail
<1>5. ASSUME NEW t \in Threads, Exchange(t) PROVE NoLostWakeup'
  BY <1>5 DEF Exchange
<1>6. ASSUME NEW t \in Threads, FutexWait(t) PROVE NoLostWakeup'
  BY <1>6 DEF FutexWait
<1>7. ASSUME NEW t \in Threads, WaitInterrupted(t) PROVE NoLostWakeup'
  BY <1>7 DEF WaitInterrupted
<1>8. ASSUME NEW t \in Threads, ReExchange(t) PROVE NoLostWakeup'
  BY <1>8 DEF ReExchange
<1>9. ASSUME NEW t \in Threads, UnlockDec(t) PROVE NoLostWakeup'
  BY <1>9 DEF UnlockDec
<1>10. ASSUME NEW t \in Threads, UnlockStore(t) PROVE NoLostWakeup'
  BY <1>10 DEF UnlockStore
<1>11. ASSUME NEW t \in Threads, UnlockWake(t) PROVE NoLostWakeup'
  <2>1. CASE Asleep = {} /\ pc' = [pc EXCEPT ![t] = "idle"]
    BY <2>1
  <2>2. ASSUME NEW s \in Asleep, pc' = [pc EXCEPT ![t] = "idle", ![s] = "rexchg"]
        PROVE NoLostWakeup'
    BY <2>2, <1>11 DEF UnlockWake
  <2> QED BY <1>11, <2>1, <2>2 DEF UnlockWake
<1> QED
  BY <1>1, <1>2, <1>3, <1>4, <1>5, <1>6, <1>7, <1>8, <1>9, <1>10, <1>11
  DEF Next, Step

(* No lost wake-up, whatever the number of threads and tries.              *)
THEOREM WakeupIsNeverLost == Spec => []NoLostWakeup
<1>1. Init => NoLostWakeup
  BY DEF Init, NoLostWakeup, Asleep
<1> QED BY <1>1, SafeInit, SafeStep, WakeupStep, PTL DEF Spec

(* Who owns the lock in the abstract specification.                        *)
LEMMA OwnerCharacterised ==
  ASSUME MutualExclusion
  PROVE  /\ Owner = NoThread <=> Holders = {}
         /\ \A t \in Holders : Owner = t
  BY FutexLockAssumption DEF Owner, MutualExclusion, Holders

(* A step of the lock word and the program counters is an acquisition, a   *)
(* release or a stutter of Mutex.                                          *)
LEMMA MutexStep == SafeInv /\ SafeInv' /\ [Next]_vars => [Abstract!Next]_Owner
<1> SUFFICES ASSUME SafeInv, SafeInv', [Next]_vars PROVE [Abstract!Next]_Owner
  OBVIOUS
<1>1. /\ Owner = NoThread <=> Holders = {}
      /\ \A t \in Holders : Owner = t
      /\ Owner' = NoThread <=> Holders' = {}
      /\ \A t \in Holders' : Owner' = t
  BY OwnerCharacterised, FutexLockAssumption
  DEF SafeInv, MutualExclusion, Owner, Holders
<1>2. Owner \in Holders \cup {NoThread} /\ Owner' \in Holders' \cup {NoThread}
  BY <1>1
<1>3. CASE Holders' = Holders
  <2>1. Owner' = Owner
    BY <1>1, <1>2, <1>3
  <2> QED BY <2>1
<1>4. CASE Holders = {} /\ Holders' # {}
  <2>1. Owner = NoThread /\ Owner' \in Threads
    BY <1>1, <1>2, <1>4 DEF Holders
  <2> QED BY <2>1 DEF Abstract!Next, Abstract!Acquire
<1>5. CASE Holders # {} /\ Holders' = {}
  <2>1. Owner \in Threads /\ Owner' = NoThread
    BY <1>1, <1>2, <1>5 DEF Holders
  <2> QED BY <2>1 DEF Abstract!Next, Abstract!Release
<1>6. Holders # {} /\ Holders' # {} => Holders' = Holders
  <2> SUFFICES ASSUME Holders # {}, Holders' # {} PROVE Holders' = Holders
    OBVIOUS
  <2> USE DEF SafeInv, TypeOK, MutualExclusion, Holders, Holding, Labels, Blocking, Goto
  <2>1. CASE UNCHANGED vars
    BY <2>1 DEF vars
  <2>2. ASSUME NEW t \in Threads, NEW m \in {"lock", "try"}, Call(t, m)
        PROVE Holders' = Holders
    BY <2>2 DEF Call
  <2>3. ASSUME NEW t \in Threads, Step(t) PROVE Holders' = Holders
    <3>1. CASE TryCas(t)
      BY <3>1 DEF TryCas
    <3>2. CASE TryFail(t)
      BY <3>2 DEF TryFail
    <3>3. CASE Exchange(t) \/ ReExchange(t)
      BY <3>3 DEF Exchange, ReExchange
    <3>4. CASE FutexWait(t)
      BY <3>4 DEF FutexWait
    <3>5. CASE UnlockDec(t)
      BY <3>5 DEF UnlockDec
    <3>6. CASE UnlockStore(t)
      BY <3>6 DEF UnlockStore
    <3>7. CASE UnlockWake(t)
      BY <3>7 DEF UnlockWake, Asleep
    <3> QED BY <2>3, <3>1, <3>2, <3>3, <3>4, <3>5, <3>6, <3>7 DEF Step
  <2>4. ASSUME NEW t \in Threads, WaitInterrupted(t) PROVE Holders' = Holders
    BY <2>4 DEF WaitInterrupted
  <2> QED BY <2>1, <2>2, <2>3, <2>4 DEF Next
<1> QED BY <1>3, <1>4, <1>5, <1>6

(* The futex mutex implements the abstract lock, for any set of threads.   *)
THEOREM FutexLockImplementsMutex == Spec => ImplementsMutex
<1>1. Init => Abstract!Init
  BY DEF Init, Abstract!Init, Owner, Holders, Holding
<1>2. Spec => []SafeInv
  BY SafeInit, SafeStep, PTL DEF Spec
<1> QED BY <1>1, <1>2, MutexStep, PTL DEF Spec, ImplementsMutex, Abstract!Spec
==============================================================================
