------------------------------- MODULE Processes -------------------------------
(***************************************************************************)
(* The processes of a simulation and what stops them: start, fork, restart *)
(* and end, fast-forward with its control thread and the event queue, the  *)
(* end-of-phase actions, termination, and the watchdog that moves time     *)
(* when everyone sleeps.  Each process has one application thread and its  *)
(* control thread FFThread; process 0 has the watchdog.                    *)
(*                                                                         *)
(* The barrier is seen from outside (PhaseBarrier): the phase ends when    *)
(* every thread in it has passed or left, and not all have left.  The      *)
(* end-of-phase actions run with schedLock held, by the thread that ended  *)
(* the phase.                                                              *)
(***************************************************************************)
EXTENDS Integers, FiniteSets, Functions

CONSTANTS Procs,      \* procIdx; 0 is the master process
          Configs,    \* [mode, ff, left : per process; n : numProcs at the start]
          Togglers,   \* processes whose fast-forward is toggled from outside
          MaxPhases, MaxToggles, MaxSleep

VARIABLES proc,  \* each process, see Booting
          sim    \* the shared state, see Init

vars == <<proc, sim>>

Modes == {"always", "never", "multi"}   \* of syncedFastForward

(* What is assumed of the constants.                                       *)
ConstantsFit ==
  /\ IsFiniteSet(Procs) /\ Procs \subseteq Nat /\ 0 \in Procs
  /\ Configs \subseteq [mode : [Procs -> Modes], ff : [Procs -> BOOLEAN], left : [Procs -> Nat],
                        n : Nat \ {0}]
  /\ MaxPhases \in Nat /\ MaxToggles \in Nat /\ MaxSleep \in Nat

NoProc == -1
Watchdog == -2
Gone == -3     \* a process that has exited

(* pc: where its application thread is.  ff: where its control thread is.  *)
(* end: what SimEnd does ("no", "drain", "exit").  The rest are fields.    *)
Booting(c, p) ==
  [pc |-> IF p < c.n THEN "boot" ELSE "unborn", ff |-> "idle", inFF |-> c.ff[p],
   started |-> FALSE, end |-> "no", status |-> "running", left |-> c.left[p],
   toggled |-> FALSE, alive |-> TRUE, wake |-> 0]

Init ==
  \E c \in Configs :
    /\ proc = [p \in Procs |-> Booting(c, p)]
    /\ sim = [mode |-> c.mode, n |-> c.n, grown |-> FALSE, phases |-> 0, term |-> FALSE,
              active |-> 0, ffp |-> 0, sffp |-> 0, toggles |-> 0,
              eop |-> "none", by |-> NoProc, cb |-> NoProc, evs |-> {},
              ffLock |-> NoProc, late |-> FALSE, wd |-> "sleep", seen |-> 0,
              dumped |-> FALSE, fail |-> "none"]

Running == sim.fail = "none"
Fails(s, why) == [s EXCEPT !.fail = why]

-----------------------------------------------------------------------------
(* The barrier and schedLock.                                              *)

InBarrier(pr) == {p \in Procs : pr[p].pc \in {"run", "wait", "back"}}

(* A sync or a leave ends the phase if it was the last one missing.        *)
TryWakeNext(pr, s, p) ==
  IF InBarrier(pr) # {} /\ \A q \in InBarrier(pr) : pr[q].pc = "wait"
  THEN [s EXCEPT !.eop = "pause", !.by = p] ELSE s

SchedLockFree == sim.eop = "none"

(* p's application thread may go on: it is not the one ending the phase.   *)
App(p) == Running /\ proc[p].alive /\ sim.by # p
At(p, pc) == App(p) /\ proc[p].pc = pc

Goto(p, pc) == proc' = [proc EXCEPT ![p].pc = pc]
(* Leave the barrier for pc.                                               *)
LeaveTo(p, pc) ==
  LET pr == [proc EXCEPT ![p].pc = pc]
  IN proc' = pr /\ sim' = TryWakeNext(pr, sim, p)

-----------------------------------------------------------------------------
(* Fast-forward (process_tree.cpp).                                        *)

Synced(s, p) == s.mode[p] = "always" \/ (s.mode[p] = "multi" /\ s.n > 1)

CountFF(s, p, k) ==
  [s EXCEPT !.ffp = @ + k, !.sffp = IF Synced(s, p) THEN @ + k ELSE @]

(* A fault of the next definition: only synced fast-forward is counted.    *)
EnterFFUncounted(s, p) == [s EXCEPT !.sffp = IF Synced(s, p) THEN @ + 1 ELSE @]
EnterFF(s, p) == CountFF(s, p, 1)
ExitFF(s, p) == CountFF(s, p, -1)

-----------------------------------------------------------------------------
(* Start, fork and end.                                                    *)

(* notifyStart, the first time; then ThreadStart.  Process 0 does it in    *)
(* SimInit, before any other has a heap to attach to.                      *)
Boot(p) ==
  /\ At(p, "boot") /\ (p = 0 \/ proc[0].started)
  /\ LET first == ~proc[p].started
         ff == proc[p].inFF
         s1 == IF ~first THEN sim
               ELSE [IF ff THEN CountFF(sim, p, 1) ELSE sim EXCEPT !.active = @ + 1]
     IN IF first /\ ((p = 0) # (sim.active = 0))
        THEN sim' = Fails(sim, "race") /\ UNCHANGED proc
        ELSE /\ sim' = s1
             /\ proc' = [proc EXCEPT ![p].started = TRUE, ![p].pc = IF ff THEN "ff" ELSE "join"]

(* getNextChild makes a process on the fly; it inherits the parent's state.*)
Fork(p, c) ==
  /\ App(p) /\ proc[p].pc \in {"out", "ffout"} /\ ~sim.term
  /\ proc[c].pc = "unborn" /\ c = sim.n
  /\ proc' = [proc EXCEPT ![c].pc = "boot", ![c].inFF = proc[p].inFF, ![c].left = proc[p].left]
  /\ sim' = [sim EXCEPT !.n = @ + 1, !.grown = TRUE, !.mode[c] = sim.mode[p]]

(* SimEnd up to and with notifyEnd, by whoever comes first; pc is where    *)
(* p's application thread is afterwards.  It takes no lock.                *)
SimEnd(p, pr, s) ==
  LET s1 == IF pr[p].inFF THEN ExitFF(s, p) ELSE s
      again == pr[p].left > 0 /\ ~s.term
  IN IF pr[p].end # "no" THEN proc' = pr /\ sim' = s
     ELSE /\ proc' = [pr EXCEPT ![p].inFF = FALSE, ![p].end = IF p = 0 THEN "drain" ELSE "exit",
                                ![p].status = IF again THEN "restart" ELSE "exited",
                                ![p].left = IF again THEN @ - 1 ELSE @]
          /\ sim' = IF again THEN s1 ELSE [s1 EXCEPT !.active = @ - 1]

AppSimEnd(p) == SimEnd(p, [proc EXCEPT ![p].pc = "ended"], sim)

(* exit(0): process 0 waits for the others and dumps the statistics first. *)
(* Its locks and events stay behind in shared memory, and nobody comes to  *)
(* unlock or to answer them.                                               *)
WithoutProc(q, p) == IF q = p THEN Gone ELSE q
Exit(p) ==
  /\ Running /\ proc[p].alive
  /\ proc[p].end = "exit" \/ (proc[p].end = "drain" /\ sim.active = 0)
  /\ proc' = [proc EXCEPT ![p].alive = FALSE]
  /\ sim' = [sim EXCEPT !.dumped = @ \/ p = 0,
                        !.ffLock = WithoutProc(@, p), !.cb = WithoutProc(@, p),
                        !.evs = {[e EXCEPT !.p = WithoutProc(@, p)] : e \in @}]

(* The harness reaps it (chldSigHandler); main() cleans the scheduler up.  *)
Restart(p) ==
  /\ Running /\ ~proc[p].alive /\ proc[p].status = "restart" /\ SchedLockFree
  /\ proc' = [proc EXCEPT ![p].alive = TRUE, ![p].status = "running", ![p].pc = "boot",
                          ![p].ff = "idle", ![p].end = "no", ![p].toggled = FALSE]
  /\ UNCHANGED sim

-----------------------------------------------------------------------------
(* The application thread (zsim.cpp).                                      *)

Join(p) ==
  /\ At(p, "join") /\ SchedLockFree
  /\ IF sim.term THEN AppSimEnd(p) ELSE Goto(p, "run") /\ UNCHANGED sim

Sync(p) == At(p, "run") /\ SchedLockFree /\ LeaveTo(p, "wait")

(* TakeBarrier, after sync().                                              *)
(* (Before it, a fault: termination is not looked at.)                     *)
BackIgnoresTerm(p) ==
  At(p, "back") /\ SchedLockFree /\ (IF proc[p].inFF THEN LeaveTo(p, "ff") ELSE Goto(p, "run") /\ UNCHANGED sim)
Back(p) ==
  /\ At(p, "back")
  /\ IF proc[p].inFF THEN SchedLockFree /\ LeaveTo(p, "ff")
     ELSE IF sim.term THEN SchedLockFree /\ LeaveTo(p, "ending")
     ELSE Goto(p, "run") /\ UNCHANGED sim

(* Its SimEnd, when leave() has returned.                                  *)
Ending(p) == At(p, "ending") /\ AppSimEnd(p)

(* SyscallEnter: leaves the barrier, for a time unknown or to sleep; in    *)
(* fast-forward there is nothing to leave.                                 *)
Syscall(p) ==
  \/ At(p, "run") /\ SchedLockFree /\ LeaveTo(p, "out")
  \/ At(p, "ff") /\ Goto(p, "ffout") /\ UNCHANGED sim

Sleep(p, k) ==
  /\ At(p, "run") /\ SchedLockFree
  /\ LET pr == [proc EXCEPT ![p].pc = "asleep", ![p].wake = sim.phases + k]
     IN proc' = pr /\ sim' = TryWakeNext(pr, sim, p)

SyscallExit(p) ==
  /\ App(p) /\ proc[p].pc \in {"out", "ffout"}
  /\ proc[p].pc = "out" /\ proc[p].inFF => SchedLockFree   \* SimThreadFini
  /\ IF sim.term THEN AppSimEnd(p)
     ELSE /\ Goto(p, IF proc[p].pc = "ffout" \/ proc[p].inFF THEN "ff" ELSE "join")
          /\ UNCHANGED sim

(* The program ends in a system call: Fini.                                *)
ProgramEnds(p) ==
  /\ App(p) /\ proc[p].pc \in {"out", "ffout"}
  /\ AppSimEnd(p)

(* FFBasicBlock, when someone has ended the fast-forward.                  *)
FFBasicBlock(p) == At(p, "ff") /\ ~proc[p].inFF /\ SchedLockFree /\ Goto(p, "join") /\ UNCHANGED sim

(* The magic operations, with ffLock held.                                 *)
ROIBegin(p) ==
  /\ At(p, "ff") /\ proc[p].inFF /\ sim.ffLock = NoProc
  /\ proc' = [proc EXCEPT ![p].inFF = FALSE]
  /\ sim' = ExitFF(sim, p)

ROIEnd(p) ==
  /\ At(p, "run") /\ ~proc[p].inFF /\ sim.ffLock = NoProc /\ ~Synced(sim, p)
  /\ proc' = [proc EXCEPT ![p].inFF = TRUE]
  /\ sim' = EnterFF(sim, p)

-----------------------------------------------------------------------------
(* FFThread.                                                               *)

FFAt(p, l) == Running /\ proc[p].alive /\ proc[p].ff = l

Toggle(p) ==
  /\ FFAt(p, "idle") /\ p \in Togglers /\ ~proc[p].toggled /\ sim.toggles < MaxToggles
  /\ proc[p].started /\ proc[p].end = "no"
  /\ proc' = [proc EXCEPT ![p].toggled = TRUE]
  /\ sim' = [sim EXCEPT !.toggles = @ + 1]

(* Nobody has unlocked the toggle lock for five seconds.                   *)
FFTimeout(p) ==
  /\ FFAt(p, "idle") /\ ~proc[p].toggled /\ proc[p].started /\ sim.term /\ proc[p].end = "no"
  /\ SimEnd(p, proc, sim)

FFLock(p) ==
  /\ FFAt(p, "idle") /\ proc[p].toggled /\ sim.ffLock = NoProc
  /\ proc' = [proc EXCEPT ![p].toggled = FALSE, ![p].ff = IF proc[p].inFF THEN "exit" ELSE "insert"]
  /\ sim' = [sim EXCEPT !.ffLock = p]

FFExit(p) ==
  /\ FFAt(p, "exit")
  /\ proc' = [proc EXCEPT ![p].ff = "idle", ![p].inFF = FALSE]
  /\ sim' = IF proc[p].inFF THEN [ExitFF(sim, p) EXCEPT !.ffLock = NoProc]
            ELSE Fails(sim, IF proc[p].end = "no" THEN "exitFastForward" ELSE "ended")

(* EventQueue::insert of the SyncEvent: tick() holds qLock while it runs   *)
(* callbacks, and has let go of it when numPhases is incremented.          *)
FFInsert(p) ==
  /\ FFAt(p, "insert") /\ sim.eop \notin {"tick", "call"}
  /\ proc' = [proc EXCEPT ![p].ff = "wait"]
  /\ sim' = [sim EXCEPT !.evs = @ \cup {[p |-> p, at |-> sim.phases]}, !.ffLock = NoProc,
                        !.late = @ \/ sim.eop = "bump"]

(* A fault of the next definition: signal() only by who enters.            *)
FFEnterSignalsIf(p) ==
  /\ FFAt(p, "wait") /\ sim.cb = p /\ sim.ffLock = NoProc
  /\ proc' = [proc EXCEPT ![p].ff = "idle", ![p].inFF = TRUE]
  /\ sim' = IF proc[p].inFF THEN sim ELSE [EnterFF(sim, p) EXCEPT !.cb = NoProc, !.eop = "tick"]
FFEnter(p) ==
  /\ FFAt(p, "wait") /\ sim.cb = p /\ sim.ffLock = NoProc
  /\ proc' = [proc EXCEPT ![p].ff = "idle", ![p].inFF = TRUE]
  /\ sim' = [IF proc[p].inFF THEN sim ELSE EnterFF(sim, p) EXCEPT !.cb = NoProc, !.eop = "tick"]

-----------------------------------------------------------------------------
(* EndOfPhaseActions and callback().                                       *)

(* The process whose thread ends the phase; the watchdog is of process 0.  *)
EndingIn == IF sim.by = Watchdog THEN 0 ELSE sim.by
EopAt(l) == Running /\ sim.eop = l /\ proc[EndingIn].alive

(* Waits for synced fast-forward; then CheckForTermination.                *)
Unpause ==
  /\ EopAt("pause") /\ sim.sffp = 0
  /\ sim' = IF sim.term THEN Fails(sim, "CheckForTermination")
            ELSE [sim EXCEPT !.term = sim.phases >= MaxPhases, !.eop = "tick"]
  /\ UNCHANGED proc

Due(s) == {e \in s.evs : e.at <= s.phases}
Tick ==
  /\ EopAt("tick")
  /\ \/ \E e \in Due(sim) :
          sim' = IF e.at # sim.phases THEN Fails(sim, "tick")
                 ELSE [sim EXCEPT !.evs = @ \ {e}, !.cb = e.p, !.eop = "call"]
     \/ Due(sim) = {} /\ sim' = [sim EXCEPT !.eop = "bump"]
  /\ UNCHANGED proc

(* numPhases++, the sleepers whose time has come, and the barrier's wakes. *)
Bump ==
  /\ EopAt("bump")
  /\ sim' = [sim EXCEPT !.phases = @ + 1, !.eop = "none", !.by = NoProc]
  /\ proc' = [p \in Procs |->
       CASE proc[p].pc = "wait" -> [proc[p] EXCEPT !.pc = "back"]
         [] proc[p].pc = "asleep" /\ proc[p].wake <= sim.phases + 1
              -> [proc[p] EXCEPT !.pc = "out", !.wake = 0]
         [] OTHER -> proc[p]]

(* The watchdog: looks at the termination condition without the lock, then *)
(* moves time forward if nothing has moved and only sleepers are left.     *)
WdLook ==
  /\ Running /\ proc[0].alive /\ sim.wd = "sleep" /\ proc[0].started
  /\ IF sim.term THEN SchedLockFree /\ proc[0].end = "no" /\ SimEnd(0, proc, sim)
     ELSE sim' = [sim EXCEPT !.wd = "act"] /\ UNCHANGED proc

(* A fault of the next definition: it does not look whether time moves.    *)
WdActAnyPhase ==
  /\ Running /\ proc[0].alive /\ sim.wd = "act" /\ SchedLockFree
  /\ sim' = [IF InBarrier(proc) = {} /\ \E p \in Procs : proc[p].pc = "asleep"
             THEN [sim EXCEPT !.eop = "pause", !.by = Watchdog] ELSE sim
             EXCEPT !.wd = "sleep", !.seen = sim.phases]
  /\ UNCHANGED proc
WdAct ==
  /\ Running /\ proc[0].alive /\ sim.wd = "act" /\ SchedLockFree
  /\ sim' = [IF sim.seen = sim.phases /\ InBarrier(proc) = {}
                /\ \E p \in Procs : proc[p].pc = "asleep"
             THEN [sim EXCEPT !.eop = "pause", !.by = Watchdog] ELSE sim
             EXCEPT !.wd = "sleep", !.seen = sim.phases]
  /\ UNCHANGED proc

-----------------------------------------------------------------------------
AppStep(p) ==
  \/ Boot(p) \/ Join(p) \/ Sync(p) \/ Back(p) \/ Ending(p) \/ FFBasicBlock(p) \/ Exit(p)
FFStep(p) == FFTimeout(p) \/ FFLock(p) \/ FFExit(p) \/ FFInsert(p) \/ FFEnter(p)
EndOfPhase == Unpause \/ Tick \/ Bump

Next ==
  \/ \E p \in Procs :
       \/ AppStep(p) \/ SyscallExit(p) \/ FFStep(p) \/ Toggle(p) \/ Restart(p)
       \/ Syscall(p) \/ ProgramEnds(p) \/ ROIBegin(p) \/ ROIEnd(p)
       \/ \E k \in 1..MaxSleep : Sleep(p, k)
       \/ \E c \in Procs : Fork(p, c)
  \/ EndOfPhase \/ WdLook \/ WdAct

Spec == Init /\ [][Next]_vars

(* The host runs every thread.  A system call may last for ever, except in *)
(* a process whose control thread may wait for a phase that never ends.    *)
Fairness ==
  /\ WF_vars(EndOfPhase) /\ WF_vars(WdLook) /\ WF_vars(WdAct)
  /\ \A p \in Procs : WF_vars(AppStep(p)) /\ WF_vars(FFStep(p)) /\ WF_vars(Restart(p))
  /\ \A p \in Togglers : WF_vars(Syscall(p) \/ SyscallExit(p))

-----------------------------------------------------------------------------
Started == {p \in Procs : proc[p].started}
InFF == {p \in Started : proc[p].inFF}

(* Termination is decided once, since whoever comes out of the barrier, of *)
(* a call, or of a sleep afterwards leaves, and the watchdog stops; events *)
(* fire in their phase.  What can fail is known: processes that all end    *)
(* before one starts; a control thread that ends the fast-forward of a     *)
(* process that is ending, which takes no lock; and an event inserted      *)
(* between tick() and the increment of numPhases (zsim.cpp:422, 307, 394;  *)
(* process_tree.cpp:63; event_queue.h:97, 114).                            *)
NoSurprises ==
  \/ sim.fail \in {"none", "race", "ended"}
  \/ sim.fail = "tick" /\ sim.late

(* The counters by which the simulation pauses, the harness looks for      *)
(* deadlocks and process 0 waits are exact whoever ends, forks or toggles. *)
(* "Multiprocess" is excepted once a process is made on the fly: the first *)
(* fork changes what getSyncedFastForward() says of those in fast-forward  *)
(* (process_tree.cpp:60-109, process_tree.h:113).                          *)
CountsExact ==
  /\ sim.ffp = Cardinality(InFF)
  /\ ~(sim.grown /\ \E p \in Procs : sim.mode[p] = "multi") =>
       sim.sffp = Cardinality({p \in InFF : Synced(sim, p)})
  /\ sim.active = Cardinality({p \in Started : proc[p].status # "exited"})

(* The statistics are dumped after the last process has ended.             *)
DumpedLast == sim.dumped => \A p \in Started : proc[p].status = "exited"

ProcessesExact == NoSurprises /\ CountsExact /\ DumpedLast

(* What the code cannot get out of.  callback() waits, with qLock held,    *)
(* for a control thread that needs ffLock, and who has ffLock waits for    *)
(* qLock to insert() (zsim.cpp:1470-1484, event_queue.h:93-114).  And      *)
(* exit(0) may come from either thread of a process while the other holds  *)
(* ffLock, has an entry into fast-forward pending, or ends a phase with    *)
(* schedLock and qLock held (zsim.cpp:1234, 1463).                         *)
ControlDeadlock ==
  sim.eop = "call" /\ \E p \in Procs : sim.ffLock = p /\ proc[p].ff = "insert"
CutShort ==
  \/ sim.eop = "call" /\ Gone \in {sim.cb, sim.ffLock}
  \/ \E p \in Procs : sim.eop # "none" /\ EndingIn = p /\ ~proc[p].alive
Stuck == ControlDeadlock \/ CutShort

(* The end of a phase is over in the end, fast-forward entry by the        *)
(* control threads included, unless synced fast-forward pauses it          *)
(* (zsim.cpp:1395-1428); and once the termination condition is met, every  *)
(* process ends, in fast-forward, in the barrier or asleep (zsim.cpp:      *)
(* 1404-1408, 1244).  Excepted is what is Stuck, which the code reaches:   *)
(* it is enough that two processes are toggled in one phase, or that one   *)
(* ends while its entry into fast-forward is pending.                      *)
Pending == sim.term \/ sim.eop # "none"
Over ==
  \/ ~Running \/ Stuck
  \/ IF sim.term THEN \A p \in Started : ~proc[p].alive
     ELSE sim.eop = "none" \/ sim.sffp # 0
GoesOn == Pending ~> Over
=============================================================================
