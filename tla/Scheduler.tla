------------------------------ MODULE Scheduler ------------------------------
(***************************************************************************)
(* The thread scheduler of scheduler.h and scheduler.cpp: threads of the   *)
(* simulated processes share the simulated cores ("contexts"), leave the   *)
(* simulation around their system calls, sleep in simulated time, and hand *)
(* their cores over at the end of a scheduling quantum.  Threads follow    *)
(* the calls of zsim.cpp and virt/; the watchdog thread moves time when    *)
(* everybody sleeps, breaks stalls, and cleans up after dead processes.    *)
(*                                                                         *)
(* One step is one critical section of schedLock.  The barrier is seen     *)
(* from outside its own critical sections and with parallelThreads not     *)
(* below the number of cores: a context that joins runs at once, and the   *)
(* last one to sync or leave ends the phase (PhaseBarrier, Barrier).       *)
(***************************************************************************)
EXTENDS Integers, FiniteSets, Sequences

CONSTANTS
  Threads,        \* the threads of all the simulated processes
  NoThread,       \* nullptr
  NumCores,       \* numCores
  Mask,           \* the contexts each thread may run on
  Pid,            \* the process of each thread
  SchedQuantum,   \* schedQuantum, in phases
  MaxSleep,       \* longest sleep, in phases
  KeepFakeLeaves, \* the watchdog leaves this many fake leaves alone: 8 in the code
  Stalls,         \* may a fake leave last until the watchdog acts?
  Mortal,         \* the processes that may die at any time
  BackToBack      \* may a thread make two system calls without a join between?

Ctxs == 0 .. NumCores - 1

ASSUME SchedulerAssumption ==
  /\ IsFiniteSet(Threads) /\ NoThread \notin Threads
  /\ NumCores \in Nat \ {0}
  /\ Mask \in [Threads -> (SUBSET Ctxs) \ {{}}]
  /\ DOMAIN Pid = Threads
  /\ SchedQuantum \in Nat \ {0}
  /\ MaxSleep \in Nat \ {0}
  /\ KeepFakeLeaves \in Nat
  /\ Stalls \in BOOLEAN /\ BackToBack \in BOOLEAN

VARIABLES
  gidMap,      \* the threads the scheduler knows
  state,       \* ThreadInfo.state; "NONE" without a ThreadInfo
  cid,         \* ThreadInfo.cid
  handoff,     \* ThreadInfo.handoffThread
  futexWord,   \* ThreadInfo.futexWord
  marked,      \* ThreadInfo.markedForSleep
  wakeIn,      \* ThreadInfo.wakeupPhase - curPhase, not below 0
  curThread,   \* ContextInfo.curThread; a context is USED iff it has one
  freeList, outQueue,    \* as sets: any element may be at the front
  runQueue, ahead,       \* a set, and for each thread in it those before it
  sleepQueue, fakeLeaves,
  quantum,     \* curPhase modulo SchedQuantum
  bar,         \* the barrier's view of each context
  pc,          \* where each thread is
  wd,          \* what the watchdog is doing between two critical sections
  aborted      \* has a failed assertion or a panic ended the simulation?

sleepVars == <<futexWord, marked, wakeIn>>
ctxVars   == <<state, cid, curThread, freeList, outQueue, bar>>
runVars   == <<runQueue, ahead, handoff, quantum>>
wdVars    == <<wd, aborted>>
vars == <<gidMap, sleepVars, ctxVars, runVars, sleepQueue, fakeLeaves, pc, wdVars>>

WdIdle == [job |-> "idle", th |-> NoThread, c |-> 0, pid |-> 0]

Init ==
  /\ gidMap = {}
  /\ state = [t \in Threads |-> "NONE"]
  /\ cid = [t \in Threads |-> 0]
  /\ handoff = [t \in Threads |-> NoThread]
  /\ futexWord = [t \in Threads |-> 0]
  /\ marked = [t \in Threads |-> FALSE]
  /\ wakeIn = [t \in Threads |-> 0]
  /\ curThread = [c \in Ctxs |-> NoThread]
  /\ freeList = Ctxs /\ outQueue = {}
  /\ runQueue = {} /\ ahead = [t \in Threads |-> {}]
  /\ sleepQueue = <<>> /\ fakeLeaves = <<>>
  /\ quantum = 0
  /\ bar = [c \in Ctxs |-> "out"]
  /\ pc = [t \in Threads |-> "none"]
  /\ wd = WdIdle
  /\ aborted = FALSE

At(t, from, to) ==
  /\ ~aborted
  /\ pc[t] = from
  /\ pc' = [pc EXCEPT ![t] = to]

Elements(s)   == {s[i] : i \in DOMAIN s}
FakeLeave(t)  == t \in Elements(fakeLeaves)
Without(s, t) ==
  IF t \notin Elements(s) THEN s
  ELSE LET i == CHOOSE i \in DOMAIN s : s[i] = t
       IN  SubSeq(s, 1, i - 1) \o SubSeq(s, i + 1, Len(s))

------------------------------------------------------------------------------
(* The policy: schedThread, schedContext, schedTick.                       *)

(* Mutants of SchedThread: OUT threads keep their core; or lose one outside*)
(* the mask.                                                               *)
SchedThreadNoSteal(t) ==
  LET free == freeList \cap Mask[t]
  IN  IF cid[t] \in free THEN {cid[t]} ELSE free

SchedThreadAnyOut(t) ==
  LET free == freeList \cap Mask[t]
  IN  IF cid[t] \in free THEN {cid[t]}
      ELSE IF free # {} THEN free ELSE {cid[o] : o \in outQueue}

(* The contexts schedThread(t) may return: the last one it ran on, else a  *)
(* free one, else one whose thread is OUT.                                 *)
SchedThread(t) ==
  LET free == freeList \cap Mask[t]
  IN  IF cid[t] \in free THEN {cid[t]}
      ELSE IF free # {} THEN free
      ELSE {cid[o] : o \in outQueue} \cap Mask[t]

(* Mutant of SchedContext: any thread of the queue that may run there.     *)
SchedContextAny(c) == {t \in runQueue : c \in Mask[t]}

(* schedContext(c): the first thread of the run queue that may run on c,   *)
(* if there is one.                                                        *)
SchedContext(c) ==
  LET able == {t \in runQueue : c \in Mask[t]}
  IN  {t \in able : ahead[t] \cap able = {}}

PopRunQueue(S) ==
  /\ runQueue' = runQueue \ S
  /\ ahead' = [t \in Threads |-> IF t \in S THEN {} ELSE ahead[t] \ S]

(* Mutant of PushRunQueue: at the front.                                   *)
PushRunQueueFront(t) ==
  /\ runQueue' = runQueue \cup {t}
  /\ ahead' = [u \in Threads |-> IF u \in runQueue THEN ahead[u] \cup {t} ELSE {}]

PushRunQueue(t) ==
  /\ runQueue' = runQueue \cup {t}
  /\ ahead' = [ahead EXCEPT ![t] = runQueue]

(* schedTick: in queue order, each thread gets one of the cores of its     *)
(* mask that are still available, in a random order of the cores.          *)
Handovers ==
  {g \in UNION {[S -> Ctxs] : S \in SUBSET runQueue} :
     /\ \A t \in DOMAIN g : g[t] \in Mask[t]
     /\ \A t, u \in DOMAIN g : g[t] = g[u] => t = u
     /\ \A t \in runQueue \ DOMAIN g : \A c \in Mask[t] :
          \E u \in ahead[t] \cap DOMAIN g : g[u] = c}

(* Mutant of SchedTick: the threads stay in the run queue.                 *)
SchedTickKeeps(cur, g) ==
  /\ UNCHANGED <<runQueue, ahead>>
  /\ handoff' = [v \in Threads |->
       IF \E t \in DOMAIN g : cur[g[t]] = v
       THEN CHOOSE t \in DOMAIN g : cur[g[t]] = v
       ELSE handoff[v]]

(* It tells the thread on each of these cores whom to hand it to.          *)
SchedTick(cur, g) ==
  /\ PopRunQueue(DOMAIN g)
  /\ handoff' = [v \in Threads |->
       IF \E t \in DOMAIN g : cur[g[t]] = v
       THEN CHOOSE t \in DOMAIN g : cur[g[t]] = v
       ELSE handoff[v]]

------------------------------------------------------------------------------
(* The end of a phase: callback().                                         *)

(* The sleepers callback() wakes: it pops the queue while they are due.    *)
Due(sq) ==
  CHOOSE n \in 0 .. Len(sq) :
    /\ \A i \in 1 .. n : wakeIn[sq[i]] <= 1
    /\ n < Len(sq) => wakeIn[sq[n + 1]] > 1

(* From the given thread states, contexts and sleep queue.  It aborts if a *)
(* sleeper missed its phase or does not wait, or a core to hand over has   *)
(* no thread.                                                              *)
Callback(st, cur, sq) ==
  LET n     == Due(sq)
      woken == {sq[i] : i \in 1 .. n}
      wakes == \A t \in woken : wakeIn[t] = 1 /\ futexWord[t] = 1
      tick  == runQueue # {} /\ quantum' = 0
  IN  /\ state' = [t \in Threads |-> IF t \in woken THEN "BLOCKED" ELSE st[t]]
      /\ sleepQueue' = SubSeq(sq, n + 1, Len(sq))
      /\ futexWord' = [t \in Threads |-> IF t \in woken THEN 0 ELSE futexWord[t]]
      /\ wakeIn' = [t \in Threads |-> IF wakeIn[t] > 0 THEN wakeIn[t] - 1 ELSE 0]
      /\ quantum' = (quantum + 1) % SchedQuantum
      /\ \/ ~tick /\ UNCHANGED <<runQueue, ahead, handoff>> /\ aborted' = ~wakes
         \/ \E g \in Handovers :
              /\ tick /\ SchedTick(cur, g)
              /\ aborted' = ~(wakes /\ \A t \in DOMAIN g : cur[g[t]] # NoThread)

(* What a sync() or leave() of the barrier leads to, from its view b.      *)
PhaseDone(b) == (\E c \in Ctxs : b[c] = "done") /\ (\A c \in Ctxs : b[c] # "running")

EndPhaseIfDone(b, st, cur, sq) ==
  IF PhaseDone(b)
  THEN /\ bar' = [c \in Ctxs |-> IF b[c] = "done" THEN "running" ELSE b[c]]
       /\ Callback(st, cur, sq)
  ELSE /\ bar' = b /\ state' = st /\ sleepQueue' = sq
       /\ UNCHANGED <<futexWord, wakeIn, runVars, aborted>>

------------------------------------------------------------------------------
(* start() and join().                                                     *)

Start(t) ==
  /\ At(t, "none", "join")
  /\ gidMap' = gidMap \cup {t}
  /\ state' = [state EXCEPT ![t] = "STARTED"]
  /\ cid' = [cid EXCEPT ![t] = 0]
  /\ handoff' = [handoff EXCEPT ![t] = NoThread]
  /\ futexWord' = [futexWord EXCEPT ![t] = 0]
  /\ marked' = [marked EXCEPT ![t] = FALSE]
  /\ wakeIn' = [wakeIn EXCEPT ![t] = 0]
  /\ UNCHANGED <<curThread, freeList, outQueue, bar, runQueue, ahead, quantum,
                 sleepQueue, fakeLeaves, wdVars>>

(* join() after a fake leave: the thread never left.                       *)
JoinFromFakeLeave(t) ==
  /\ At(t, "join", "run")
  /\ FakeLeave(t)
  /\ fakeLeaves' = Without(fakeLeaves, t)
  /\ UNCHANGED <<gidMap, sleepVars, ctxVars, runVars, sleepQueue, wdVars>>

(* Mutant of JoinFromOut: without bar.join().                              *)
JoinFromOutAlone(t) ==
  /\ At(t, "join", "run")
  /\ ~FakeLeave(t) /\ ~marked[t] /\ state[t] = "OUT"
  /\ state' = [state EXCEPT ![t] = "RUNNING"]
  /\ outQueue' = outQueue \ {t}
  /\ UNCHANGED <<gidMap, sleepVars, cid, curThread, freeList, bar, runVars,
                 sleepQueue, fakeLeaves, wdVars>>

(* join() of a thread that is OUT: its context is still its own.           *)
JoinFromOut(t) ==
  /\ At(t, "join", "run")
  /\ ~FakeLeave(t) /\ ~marked[t] /\ state[t] = "OUT"
  /\ state' = [state EXCEPT ![t] = "RUNNING"]
  /\ outQueue' = outQueue \ {t}
  /\ bar' = [bar EXCEPT ![cid[t]] = "running"]
  /\ UNCHANGED <<gidMap, sleepVars, cid, curThread, freeList, runVars,
                 sleepQueue, fakeLeaves, wdVars>>

NeedsContext(t) ==
  ~FakeLeave(t) /\ ~marked[t] /\ state[t] \in {"STARTED", "BLOCKED", "SLEEPING"}

(* Mutant of Occupy: the blocked thread stays in outQueue.                 *)
OccupyKeepsOut(t, c) ==
  /\ state' = [u \in Threads |->
       IF u = t THEN "RUNNING"
       ELSE IF u \in outQueue /\ cid[u] = c THEN "BLOCKED" ELSE state[u]]
  /\ cid' = [cid EXCEPT ![t] = c]
  /\ curThread' = [curThread EXCEPT ![c] = t]
  /\ freeList' = freeList \ {c}
  /\ bar' = [bar EXCEPT ![c] = "running"]
  /\ UNCHANGED outQueue

(* Put t on the context schedThread found, blocking the thread that is OUT *)
(* on it, if any.                                                          *)
Occupy(t, c) ==
  /\ state' = [u \in Threads |->
       IF u = t THEN "RUNNING"
       ELSE IF u \in outQueue /\ cid[u] = c THEN "BLOCKED" ELSE state[u]]
  /\ cid' = [cid EXCEPT ![t] = c]
  /\ curThread' = [curThread EXCEPT ![c] = t]
  /\ freeList' = freeList \ {c}
  /\ outQueue' = {u \in outQueue : cid[u] # c}
  /\ bar' = [bar EXCEPT ![c] = "running"]

JoinContext(t) ==
  /\ At(t, "join", "run")
  /\ NeedsContext(t)
  /\ \E c \in SchedThread(t) : Occupy(t, c)
  /\ sleepQueue' = Without(sleepQueue, t)
  /\ UNCHANGED <<gidMap, sleepVars, runVars, fakeLeaves, wdVars>>

(* Mutant of JoinRunQueue: futexWord is not set before the unlock.         *)
JoinRunQueueNoWord(t) ==
  /\ At(t, "join", "wait")
  /\ NeedsContext(t) /\ SchedThread(t) = {}
  /\ state' = [state EXCEPT ![t] = "QUEUED"]
  /\ PushRunQueue(t)
  /\ sleepQueue' = Without(sleepQueue, t)
  /\ UNCHANGED <<gidMap, sleepVars, cid, curThread, freeList, outQueue, bar,
                 handoff, quantum, fakeLeaves, wdVars>>

JoinRunQueue(t) ==
  /\ At(t, "join", "wait")
  /\ NeedsContext(t) /\ SchedThread(t) = {}
  /\ state' = [state EXCEPT ![t] = "QUEUED"]
  /\ PushRunQueue(t)
  /\ futexWord' = [futexWord EXCEPT ![t] = 1]
  /\ sleepQueue' = Without(sleepQueue, t)
  /\ UNCHANGED <<gidMap, marked, wakeIn, cid, curThread, freeList, outQueue, bar,
                 handoff, quantum, fakeLeaves, wdVars>>

JoinAssertion(t) ==
  pc[t] = "join" /\ ~FakeLeave(t) =>
    ~marked[t] /\ state[t] \in {"STARTED", "BLOCKED", "OUT", "SLEEPING"}

(* waitForContext(): the FUTEX_WAIT on the word of the thread.             *)
WaitReturns(t) ==
  /\ At(t, "wait", "run")
  /\ futexWord[t] = 0
  /\ UNCHANGED <<gidMap, sleepVars, ctxVars, runVars, sleepQueue, fakeLeaves, wdVars>>

------------------------------------------------------------------------------
(* leave().  The caller is the thread, in SyscallEnter or in finish(), or  *)
(* the watchdog; its own next step is the other conjunct of each action.   *)

(* The context c passes from t, left in the given state, to u, which is    *)
(* woken ("Wakeup race in barrier?" if it does not wait) and does not      *)
(* join: to the barrier nothing happens.                                   *)
PassOn(t, c, u, to) ==
  /\ state' = [state EXCEPT ![t] = to, ![u] = "RUNNING"]
  /\ cid' = [cid EXCEPT ![u] = c]
  /\ curThread' = [curThread EXCEPT ![c] = u]
  /\ futexWord' = [futexWord EXCEPT ![u] = 0]
  /\ PopRunQueue({u})
  /\ aborted' = (futexWord[u] # 1)

(* bar.leave(c): of a thread that waits, for its dead thread, it has no    *)
(* further effect.                                                         *)
BarLeave(c, st, cur, sq) ==
  IF bar[c] = "running"
  THEN EndPhaseIfDone([bar EXCEPT ![c] = "out"], st, cur, sq)
  ELSE /\ bar' = [bar EXCEPT ![c] = "out"]
       /\ state' = st /\ sleepQueue' = sq
       /\ UNCHANGED <<futexWord, wakeIn, runVars, aborted>>

(* Mutant of SleepPosition: at the end.                                    *)
SleepPositionEnd(t) == Len(sleepQueue)

(* The ordered insert into sleepQueue: after those that wake no later.     *)
SleepPosition(t) ==
  Cardinality({i \in DOMAIN sleepQueue :
                 \A k \in 1 .. i : wakeIn[sleepQueue[k]] <= wakeIn[t]})

SleepInsert(t) ==
  LET n == SleepPosition(t)
  IN  SubSeq(sleepQueue, 1, n) \o <<t>> \o SubSeq(sleepQueue, n + 1, Len(sleepQueue))

LeaveAssertion(t, c) == curThread[c] = t /\ state[t] = "RUNNING"

LeaveToSleep(t, c) ==
  /\ LeaveAssertion(t, c) /\ marked[t]
  /\ marked' = [marked EXCEPT ![t] = FALSE]
  /\ \/ \E u \in SchedContext(c) :
          /\ PassOn(t, c, u, "SLEEPING")
          /\ sleepQueue' = SleepInsert(t)
          /\ UNCHANGED <<wakeIn, freeList, bar, handoff, quantum>>
     \/ /\ SchedContext(c) = {}
        /\ curThread' = [curThread EXCEPT ![c] = NoThread]
        /\ freeList' = freeList \cup {c}
        /\ BarLeave(c, [state EXCEPT ![t] = "SLEEPING"], curThread', SleepInsert(t))
        /\ UNCHANGED cid
  /\ UNCHANGED <<gidMap, outQueue>>

LeaveAwake(t, c) ==
  /\ LeaveAssertion(t, c) /\ ~marked[t]
  /\ \/ \E u \in SchedContext(c) :
          /\ PassOn(t, c, u, "BLOCKED")
          /\ UNCHANGED <<wakeIn, outQueue, bar, handoff, quantum, sleepQueue>>
     \/ /\ SchedContext(c) = {}
        /\ outQueue' = outQueue \cup {t}
        /\ BarLeave(c, [state EXCEPT ![t] = "OUT"], curThread, sleepQueue)
        /\ UNCHANGED <<cid, curThread>>
  /\ UNCHANGED <<gidMap, marked, freeList>>

Leave(t, c) == LeaveToSleep(t, c) \/ LeaveAwake(t, c)

(* SyscallEnter: the thread has decided to leave, and calls leave().       *)
SyscallLeaves(t) ==
  /\ At(t, "leave", "syscall")
  /\ Leave(t, cid[t])
  /\ UNCHANGED <<fakeLeaves, wd>>

------------------------------------------------------------------------------
(* sync() and the handoff at its end.                                      *)

SyncAssertion(t) == pc[t] = "run" => ~marked[t] /\ bar[cid[t]] = "running"

Sync(t) ==
  /\ At(t, "run", "sync")
  /\ SyncAssertion(t)
  /\ EndPhaseIfDone([bar EXCEPT ![cid[t]] = "done"], state, curThread, sleepQueue)
  /\ UNCHANGED <<gidMap, marked, cid, curThread, freeList, outQueue, fakeLeaves, wd>>

(* Back from the barrier: sync()'s assertion, and those of deschedule().   *)
Returns(t) == pc[t] = "sync" /\ bar[cid[t]] = "running"

ReturnAssertion(t) ==
  Returns(t) =>
    state[t] = "RUNNING" /\ (handoff[t] # NoThread => curThread[cid[t]] = t)

SyncReturns(t) ==
  /\ At(t, "sync", "run")
  /\ Returns(t) /\ ReturnAssertion(t) /\ handoff[t] = NoThread
  /\ UNCHANGED <<gidMap, sleepVars, ctxVars, runVars, sleepQueue, fakeLeaves, wdVars>>

(* The context goes to the thread that was promised it; then the thread    *)
(* may find another one, or it queues up.                                  *)
HandOff(t) ==
  LET dst == handoff[t]
      c   == cid[t]
      st  == [state EXCEPT ![dst] = "RUNNING", ![t] = "QUEUED"]
      cur == [curThread EXCEPT ![c] = dst]
  IN  /\ Returns(t) /\ ReturnAssertion(t) /\ dst # NoThread
      /\ aborted' = (futexWord[dst] # 1)
      /\ handoff' = [handoff EXCEPT ![t] = NoThread]
      /\ \/ \E d \in SchedThread(t) :
              /\ At(t, "sync", "run")
              /\ state' = [u \in Threads |->
                   IF u = t THEN "RUNNING"
                   ELSE IF u \in outQueue /\ cid[u] = d THEN "BLOCKED" ELSE st[u]]
              /\ cid' = [cid EXCEPT ![dst] = c, ![t] = d]
              /\ curThread' = [cur EXCEPT ![d] = t]
              /\ freeList' = freeList \ {d}
              /\ outQueue' = {u \in outQueue : cid[u] # d}
              /\ bar' = [bar EXCEPT ![d] = "running"]
              /\ futexWord' = [futexWord EXCEPT ![dst] = 0]
              /\ UNCHANGED <<runQueue, ahead>>
         \/ /\ SchedThread(t) = {}
            /\ At(t, "sync", "wait")
            /\ state' = st
            /\ cid' = [cid EXCEPT ![dst] = c]
            /\ curThread' = cur
            /\ PushRunQueue(t)
            /\ futexWord' = [futexWord EXCEPT ![dst] = 0, ![t] = 1]
            /\ UNCHANGED <<freeList, outQueue, bar>>
      /\ UNCHANGED <<gidMap, marked, wakeIn, quantum, sleepQueue, fakeLeaves, wd>>

------------------------------------------------------------------------------
(* System calls: SyscallEnter, syscallLeave, SyscallExit.                  *)

(* A call that is not on the blacklist: the thread does not really leave.  *)
SyscallFakeLeave(t) ==
  /\ At(t, "run", "syscall")
  /\ fakeLeaves' = Append(fakeLeaves, t)
  /\ UNCHANGED <<gidMap, sleepVars, ctxVars, runVars, sleepQueue, wdVars>>

(* One that is: syscallLeave unlocks and calls leave().                    *)
SyscallEnter(t) ==
  /\ At(t, "run", "leave")
  /\ UNCHANGED <<gidMap, sleepVars, ctxVars, runVars, sleepQueue, fakeLeaves, wdVars>>

(* A sleep or a timeout: the virtualisation marks the thread first.        *)
Mark(t, n) ==
  /\ marked' = [marked EXCEPT ![t] = TRUE]
  /\ wakeIn' = [wakeIn EXCEPT ![t] = n]
  /\ futexWord' = [futexWord EXCEPT ![t] = 1]

SyscallEnterSleep(t) ==
  /\ At(t, "run", "leave")
  /\ \E n \in 1 .. MaxSleep : Mark(t, n)
  /\ UNCHANGED <<gidMap, ctxVars, runVars, sleepQueue, fakeLeaves, wdVars>>

(* A second call before the thread joined again: VirtSyscallEnter runs and *)
(* marks the thread, but nobody leaves.                                    *)
SyscallEnterAgain(t) ==
  /\ BackToBack
  /\ At(t, "join", "syscall")
  /\ ~marked[t]
  /\ UNCHANGED <<gidMap, ctxVars, runVars, sleepQueue, fakeLeaves, wdVars>>
  /\ \/ UNCHANGED sleepVars
     \/ \E n \in 1 .. MaxSleep : Mark(t, n)

(* The call returns, in its own time; a sleeper may be cut short by a      *)
(* signal.                                                                 *)
SyscallExit(t) ==
  /\ At(t, "syscall", "join")
  /\ UNCHANGED <<gidMap, sleepVars, ctxVars, runVars, sleepQueue, fakeLeaves, wdVars>>

(* A timeout that did not time out: isSleeping() says yes, and then        *)
(* notifySleepEnd() is called; the sleeper may have been woken in between. *)
SeesItSleeps(t) ==
  /\ At(t, "syscall", "endSleep")
  /\ state[t] = "SLEEPING"
  /\ UNCHANGED <<gidMap, sleepVars, ctxVars, runVars, sleepQueue, fakeLeaves, wdVars>>

NotifyAssertion(t) ==
  pc[t] \in {"endSleep", "deadSleep"} => ~marked[t] /\ state[t] \in {"SLEEPING", "BLOCKED"}

NotifySleepEnd(t) ==
  /\ At(t, "endSleep", "join")
  /\ NotifyAssertion(t)
  /\ state' = [state EXCEPT ![t] = "BLOCKED"]
  /\ sleepQueue' = Without(sleepQueue, t)
  /\ UNCHANGED <<gidMap, sleepVars, cid, curThread, freeList, outQueue, bar,
                 runVars, fakeLeaves, wdVars>>

------------------------------------------------------------------------------
(* finish(), by the thread or, once it is dead, by the watchdog.           *)

(* The rest of it, once the thread has left: it is taken from its queue    *)
(* and deleted.                                                            *)
Delete(t) ==
  /\ state' = [state EXCEPT ![t] = "NONE"]
  /\ outQueue' = outQueue \ {t}
  /\ IF t \in outQueue
     THEN /\ curThread' = [curThread EXCEPT ![cid[t]] = NoThread]
          /\ freeList' = freeList \cup {cid[t]}
     ELSE UNCHANGED <<curThread, freeList>>
  /\ IF t \in runQueue THEN PopRunQueue({t}) ELSE UNCHANGED <<runQueue, ahead>>
  /\ wd' = IF wd.th = t /\ wd.job = "cleanup" THEN WdIdle ELSE wd
  /\ UNCHANGED <<sleepVars, cid, bar, handoff, quantum, sleepQueue, fakeLeaves, aborted>>

Finishes(t) ==
  \/ state[t] \in {"STARTED", "OUT", "BLOCKED"}
  \/ state[t] = "QUEUED" /\ t \in runQueue

MayFinish == {"join", "syscall", "doomed"}

(* A thread that left only in appearance, or not at all, leaves first.     *)
Finish(t) ==
  /\ pc[t] \in MayFinish
  /\ gidMap' = gidMap \ {t}
  /\ \/ /\ FakeLeave(t) \/ state[t] = "RUNNING"
        /\ At(t, pc[t], "finishing")
        /\ fakeLeaves' = Without(fakeLeaves, t)
        /\ UNCHANGED <<sleepVars, ctxVars, runVars, sleepQueue, wdVars>>
     \/ /\ ~FakeLeave(t) /\ Finishes(t)
        /\ At(t, pc[t], "none")
        /\ Delete(t)

FinishLeaves(t) ==
  /\ At(t, "finishing", "left")
  /\ Leave(t, cid[t])
  /\ UNCHANGED <<fakeLeaves, wd>>

FinishDeletes(t) ==
  /\ At(t, "left", "none")
  /\ Finishes(t)
  /\ Delete(t)
  /\ UNCHANGED gidMap

FinishAssertion(t) ==
  /\ pc[t] = "doomed" /\ ~FakeLeave(t) /\ state[t] # "RUNNING" => Finishes(t)
  /\ pc[t] = "left" => Finishes(t)

------------------------------------------------------------------------------
(* The watchdog.  A stall: it takes the first thread off the fake leaves,  *)
(* releases schedLock, and leaves for it with what it read before.         *)

LeaveJob(t, pid) == [job |-> "leave", th |-> t, c |-> cid[t], pid |-> pid]

WdStall ==
  /\ ~aborted /\ Stalls /\ wd = WdIdle /\ fakeLeaves # <<>>
  /\ wd' = LeaveJob(Head(fakeLeaves), Pid[Head(fakeLeaves)])
  /\ fakeLeaves' = Tail(fakeLeaves)
  /\ UNCHANGED <<gidMap, sleepVars, ctxVars, runVars, sleepQueue, pc, aborted>>

WdLeave ==
  /\ ~aborted /\ wd.job = "leave" /\ Pid[wd.th] = wd.pid
  /\ Leave(wd.th, wd.c)
  /\ wd' = [wd EXCEPT !.job = "next"]
  /\ UNCHANGED <<fakeLeaves, pc>>

(* It goes on with the next one, if that made the same call; whose process *)
(* it should compare and remember it gets wrong: pid stays the first one's.*)
WdNext ==
  /\ ~aborted /\ wd.job = "next"
  /\ Len(fakeLeaves) > KeepFakeLeaves
  /\ fakeLeaves # <<>>
  /\ wd' = LeaveJob(Head(fakeLeaves), wd.pid)
  /\ fakeLeaves' = Tail(fakeLeaves)
  /\ UNCHANGED <<gidMap, sleepVars, ctxVars, runVars, sleepQueue, pc, aborted>>

WdStops ==
  /\ ~aborted /\ wd.job = "next"
  /\ wd' = WdIdle
  /\ UNCHANGED <<gidMap, sleepVars, ctxVars, runVars, sleepQueue, fakeLeaves, pc,
                 aborted>>

WdAssertion == wd.job = "leave" => Pid[wd.th] = wd.pid /\ LeaveAssertion(wd.th, wd.c)

(* With every thread out, it drives time to the next wake-up.              *)
Scheduled == {c \in Ctxs : curThread[c] # NoThread}

(* Mutant of TimeForward: not while an OUT thread keeps a core.            *)
TimeForwardIdle ==
  /\ ~aborted /\ wd = WdIdle
  /\ Scheduled = {}
  /\ sleepQueue # <<>>
  /\ Callback(state, curThread, sleepQueue)
  /\ UNCHANGED <<gidMap, marked, cid, curThread, freeList, outQueue, bar, fakeLeaves,
                 pc, wd>>

TimeForward ==
  /\ ~aborted /\ wd = WdIdle
  /\ Cardinality(Scheduled) = Cardinality(outQueue)
  /\ sleepQueue # <<>>
  /\ Callback(state, curThread, sleepQueue)
  /\ UNCHANGED <<gidMap, marked, cid, curThread, freeList, outQueue, bar, fakeLeaves,
                 pc, wd>>

------------------------------------------------------------------------------
(* A process dies, and the watchdog cleans up after it: processCleanup.    *)

Kill(p) ==
  /\ ~aborted /\ p \in Mortal
  /\ \E t \in Threads : Pid[t] = p /\ pc[t] # "none"
  /\ \A t \in Threads : Pid[t] = p => pc[t] \notin {"dead", "doomed", "deadSleep"}
  /\ pc' = [t \in Threads |-> IF Pid[t] = p /\ pc[t] # "none" THEN "dead" ELSE pc[t]]
  /\ UNCHANGED <<gidMap, sleepVars, ctxVars, runVars, sleepQueue, fakeLeaves, wdVars>>

Cleanup(t) ==
  /\ wd = WdIdle /\ t \in gidMap
  /\ At(t, "dead", IF state[t] = "SLEEPING" THEN "deadSleep" ELSE "doomed")
  /\ wd' = [WdIdle EXCEPT !.job = "cleanup", !.th = t]
  /\ UNCHANGED <<gidMap, sleepVars, ctxVars, runVars, sleepQueue, fakeLeaves, aborted>>

CleanupWakes(t) ==
  /\ At(t, "deadSleep", "doomed")
  /\ NotifyAssertion(t)
  /\ state' = [state EXCEPT ![t] = "BLOCKED"]
  /\ sleepQueue' = Without(sleepQueue, t)
  /\ UNCHANGED <<gidMap, sleepVars, cid, curThread, freeList, outQueue, bar,
                 runVars, fakeLeaves, wdVars>>

------------------------------------------------------------------------------
(* The assertions the code makes where the handlers' guards require them.  *)
Assertions ==
  /\ \A t \in Threads :
       /\ JoinAssertion(t) /\ SyncAssertion(t) /\ ReturnAssertion(t)
       /\ NotifyAssertion(t) /\ FinishAssertion(t)
       /\ pc[t] \in {"leave", "finishing"} => LeaveAssertion(t, cid[t])
  /\ WdAssertion

AssertionFails ==
  /\ ~aborted /\ ~Assertions
  /\ aborted' = TRUE
  /\ UNCHANGED <<gidMap, sleepVars, ctxVars, runVars, sleepQueue, fakeLeaves, pc, wd>>

Ended == aborted /\ UNCHANGED vars

Thread(t) ==
  \/ Start(t)
  \/ JoinFromFakeLeave(t) \/ JoinFromOut(t) \/ JoinContext(t) \/ JoinRunQueue(t)
  \/ WaitReturns(t)
  \/ Sync(t) \/ SyncReturns(t) \/ HandOff(t)
  \/ SyscallFakeLeave(t) \/ SyscallEnter(t) \/ SyscallEnterSleep(t)
  \/ SyscallEnterAgain(t) \/ SyscallLeaves(t) \/ SyscallExit(t)
  \/ SeesItSleeps(t) \/ NotifySleepEnd(t)
  \/ Finish(t) \/ FinishLeaves(t) \/ FinishDeletes(t)

Watchdog ==
  \/ WdStall \/ WdLeave \/ WdNext \/ WdStops \/ TimeForward
  \/ \E t \in Threads : Cleanup(t) \/ CleanupWakes(t)

Next ==
  \/ \E t \in Threads : Thread(t)
  \/ Watchdog
  \/ \E p \in Mortal : Kill(p)
  \/ AssertionFails \/ Ended

Spec == Init /\ [][Next]_vars

------------------------------------------------------------------------------
(* Properties.                                                             *)

States == {"NONE", "STARTED", "RUNNING", "OUT", "BLOCKED", "SLEEPING", "QUEUED"}
Labels == {"none", "join", "wait", "run", "sync", "leave", "syscall", "endSleep",
           "finishing", "left", "dead", "deadSleep", "doomed"}

(* Every variable keeps its type, the queues name threads that exist, and  *)
(* ahead is an order of the run queue.                                     *)
TypeOK ==
  /\ gidMap \subseteq Threads
  /\ state \in [Threads -> States]
  /\ cid \in [Threads -> Ctxs]
  /\ handoff \in [Threads -> Threads \cup {NoThread}]
  /\ futexWord \in [Threads -> {0, 1}]
  /\ marked \in [Threads -> BOOLEAN]
  /\ wakeIn \in [Threads -> 0 .. MaxSleep]
  /\ curThread \in [Ctxs -> Threads \cup {NoThread}]
  /\ freeList \subseteq Ctxs /\ outQueue \subseteq Threads
  /\ runQueue \subseteq Threads
  /\ ahead \in [Threads -> SUBSET runQueue]
  /\ \A t, u \in runQueue : t # u => (t \in ahead[u]) # (u \in ahead[t])
  /\ Elements(sleepQueue) \subseteq Threads
  /\ Elements(fakeLeaves) \subseteq Threads
  /\ quantum \in 0 .. SchedQuantum - 1
  /\ bar \in [Ctxs -> {"out", "running", "done"}]
  /\ pc \in [Threads -> Labels]
  /\ wd \in [job : {"idle", "leave", "next", "cleanup"}, th : Threads \cup {NoThread},
             c : Ctxs, pid : {Pid[t] : t \in Threads} \cup {0}]
  /\ aborted \in BOOLEAN

(* No assertion or panic of the scheduler can fail: join, leave, sync,     *)
(* notifySleepEnd, finish, the deadlines of callback(), the cores schedTick*)
(* hands over and the wake-ups.                                            *)
NeverAborts == TypeOK /\ ~aborted /\ Assertions

(* join()'s assertion on the thread's state (scheduler.h:299, 313).        *)
JoinAsserts == \A t \in Threads : JoinAssertion(t)

(* A context has the thread that believes to be on it, and no other; the   *)
(* free list and the OUT queue miss nothing and hold nothing stale.        *)
ContextsExact ==
  /\ \A c \in Ctxs, t \in Threads :
       curThread[c] = t <=> state[t] \in {"RUNNING", "OUT"} /\ cid[t] = c
  /\ freeList = Ctxs \ Scheduled
  /\ outQueue = {t \in Threads : state[t] = "OUT"}

(* A thread that executes owns a core of its mask, runs in the barrier, and*)
(* has honoured every handoff asked of it.                                 *)
RunnersHoldCores ==
  \A t \in Threads : pc[t] \in {"run", "leave"} =>
    /\ state[t] = "RUNNING" /\ curThread[cid[t]] = t /\ cid[t] \in Mask[t]
    /\ bar[cid[t]] = "running"
    /\ handoff[t] = NoThread

(* A thread asleep in waitForContext is in the run queue, or promised the  *)
(* core of exactly one thread that is about to hand it over.               *)
Promisers(t) ==
  {v \in Threads : handoff[v] = t /\ state[v] = "RUNNING" /\ pc[v] = "sync"}

WaitersAreKept ==
  \A t \in Threads : pc[t] = "wait" =>
    IF futexWord[t] = 0 THEN state[t] = "RUNNING"
    ELSE /\ state[t] = "QUEUED"
         /\ IF t \in runQueue THEN \A v \in Threads : handoff[v] # t
            ELSE Cardinality(Promisers(t)) = 1

(* Nobody queues for a core that is free or whose thread is OUT: schedThread*)
(* and schedContext leave schedTick nothing but running victims.           *)
WorkConserving ==
  \A t \in runQueue : \A c \in Mask[t] :
    curThread[c] # NoThread /\ state[curThread[c]] = "RUNNING"

(* The sleep queue is the sleepers, by deadline, all of them ahead.        *)
SleepersOrdered ==
  /\ Elements(sleepQueue) = {t \in Threads : state[t] = "SLEEPING"}
  /\ \A i, j \in DOMAIN sleepQueue :
       i < j => /\ sleepQueue[i] # sleepQueue[j]
                /\ wakeIn[sleepQueue[i]] <= wakeIn[sleepQueue[j]]
  /\ \A i \in DOMAIN sleepQueue : wakeIn[sleepQueue[i]] >= 1

(* A phase does not end while a thread still executes in it, or is in a    *)
(* system call that it entered without leaving.                            *)
PhaseWaitsForRunners ==
  [][quantum' # quantum =>
       \A t \in Threads : pc'[t] \notin {"run", "leave"} /\ ~FakeLeave(t)]_vars

(* A thread is not overtaken in the run queue by one of the same mask that *)
(* came later.                                                             *)
NoOvertaking ==
  [][\A t \in runQueue \ runQueue' : \A u \in ahead[t] :
       Mask[u] = Mask[t] => u \notin runQueue']_vars

------------------------------------------------------------------------------
(* Threads run their phase, return from their calls, and go on; only a     *)
(* thread that really left, or sleeps, may stay away for ever.             *)
Fairness ==
  /\ \A t \in Threads :
       /\ WF_vars(JoinFromFakeLeave(t) \/ JoinFromOut(t) \/ JoinContext(t) \/ JoinRunQueue(t))
       /\ WF_vars(WaitReturns(t) \/ SyncReturns(t) \/ HandOff(t))
       /\ WF_vars(SyscallLeaves(t))
       /\ WF_vars(FakeLeave(t) /\ (SyscallExit(t) \/ Finish(t)))
       /\ WF_vars(FinishLeaves(t) \/ FinishDeletes(t))
       /\ SF_vars(Sync(t))
  /\ WF_vars(TimeForward)

FairSpec == Spec /\ Fairness

(* A thread that waits for a core gets one.                                *)
EveryoneGetsACore ==
  \A t \in Threads : pc[t] = "wait" ~> pc[t] = "run"

(* A sleeper wakes, even if it has to be the watchdog that moves time.     *)
SleepersWake ==
  \A t \in Threads : state[t] = "SLEEPING" ~> state[t] # "SLEEPING"
==============================================================================
