-------------------------------- MODULE Harness --------------------------------
(***************************************************************************)
(* The harness (zsim_harness.cpp): it makes the shared heap, launches the  *)
(* processes, of which the first builds the simulation while the others    *)
(* wait for it, and looks after them until none is left.  SIGCHLD's        *)
(* handler interrupts its main loop anywhere, and the loop reaps children  *)
(* as well; children end, are restarted, crash or hang.  The time the loop *)
(* sleeps is counted in its sleeps.                                        *)
(***************************************************************************)
EXTENDS Integers, FiniteSets, Functions

CONSTANTS Last,      \* the processes are 0 .. Last
          Restarts,  \* of processes that are not the first: numbers of restarts
          StallLimit,\* sleeps that may pass without a phase: 120 seconds
          MaxPhases, MaxTrouble \* bounds; trouble: fast-forward, faults and interrupts

VARIABLES kid,  \* of each process: its life, the exit code of a zombie, the childInfo entry
                \* (info), procExited (exited), restarts left, started, hung
          h     \* the harness: pc, next to launch, inHandler, pending SIGCHLD, attached
                \* (globzinfo), interrupted, termStatus (term), lastNumPhases, secsStalled;
                \* the simulation: ready, active, phases, ff.  Ghosts: over (how it ended),
                \* calm (sleeps since a phase), lulled (calm at the last look), excused (a look
                \* while nothing should advance), missed, trouble

vars == <<kid, h>>
Procs == 0 .. Last

Init ==
  \E left \in Restarts :
    /\ kid = [p \in Procs |-> [life |-> "none", code |-> "none", info |-> "invalid", exited |-> "running",
                               left |-> IF p = 0 THEN 0 ELSE left, started |-> FALSE, hung |-> FALSE]]
    /\ h = [pc |-> "fork", next |-> 0, inHandler |-> FALSE, pending |-> FALSE, attached |-> FALSE,
            interrupted |-> FALSE, term |-> "ok", saw |-> "nobody", lastNumPhases |-> 0, stalled |-> 0,
            ready |-> FALSE, active |-> 0, phases |-> 0, ff |-> FALSE,
            over |-> "no", calm |-> 0, lulled |-> 0, excused |-> FALSE, missed |-> FALSE, trouble |-> 0]

Alive(p) == kid[p].life \in {"boot", "run", "ending"}
Zombies == {p \in Procs : kid[p].life = "zombie"}
NumChildren == Cardinality({p \in Procs : kid[p].info = "running"})
Going == h.over = "no"

Dead(code) == [p \in Procs |-> IF Alive(p) THEN [kid[p] EXCEPT !.life = "zombie", !.code = code] ELSE kid[p]]

(* exit(): the exit handler kills the whole tree, if there are children.   *)
ExitWith(why, kids) ==
  /\ h' = [h EXCEPT !.over = why]
  /\ kid' = IF NumChildren > 0 THEN Dead("killed") ELSE kids

-----------------------------------------------------------------------------
(* The processes.  The first sets the heap's pointer when all is built.    *)
Dies(p, code) ==
  /\ kid' = [kid EXCEPT ![p].life = "zombie", ![p].code = code]
  /\ h' = [h EXCEPT !.pending = TRUE]

Boot(p) ==
  /\ Going /\ kid[p].life = "boot" /\ (p = 0 \/ h.ready)
  /\ kid' = [kid EXCEPT ![p].life = "run", ![p].started = TRUE]
  /\ h' = [h EXCEPT !.ready = TRUE, !.active = IF kid[p].started THEN @ ELSE @ + 1]

(* SimEnd: notifyEnd; then exit(0), of the first after all the others.     *)
End(p) ==
  /\ Going /\ kid[p].life = "run" /\ ~kid[p].hung
  /\ IF kid[p].left > 0
     THEN /\ kid' = [kid EXCEPT ![p].life = "ending", ![p].exited = "restart", ![p].left = @ - 1]
          /\ UNCHANGED h
     ELSE /\ kid' = [kid EXCEPT ![p].life = "ending", ![p].exited = "exited"]
          /\ h' = [h EXCEPT !.active = @ - 1]
Exit(p) == Going /\ kid[p].life = "ending" /\ (p = 0 => h.active = 0) /\ Dies(p, "ok")

(* What goes wrong: a panic, an end nobody caught, a thread that is stuck. *)
Troubled == Going /\ h.trouble < MaxTrouble
Crash(p, code) ==
  /\ Troubled /\ kid[p].life \in {"boot", "run"}
  /\ kid' = [kid EXCEPT ![p].life = "zombie", ![p].code = code]
  /\ h' = [h EXCEPT !.pending = TRUE, !.trouble = @ + 1]
Hang(p) ==
  /\ Troubled /\ kid[p].life = "run" /\ ~kid[p].hung
  /\ kid' = [kid EXCEPT ![p].hung = TRUE] /\ h' = [h EXCEPT !.trouble = @ + 1]

(* Phases pass while nobody is stuck, and none in fast-forward.            *)
Stuck(p) == kid[p].started /\ (kid[p].hung \/ (~Alive(p) /\ kid[p].exited = "running"))
Phase ==
  /\ Going /\ h.active > 0 /\ ~h.ff /\ h.phases < MaxPhases /\ \A p \in Procs : ~Stuck(p)
  /\ h' = [h EXCEPT !.phases = @ + 1, !.calm = 0] /\ UNCHANGED kid
Toggle ==
  /\ Troubled /\ h.active > 0 /\ \A p \in Procs : ~Stuck(p)
  /\ h' = [h EXCEPT !.ff = ~@, !.trouble = @ + 1] /\ UNCHANGED kid

-----------------------------------------------------------------------------
(* main() and LaunchProcess: the fork, and then the childInfo entry.       *)
Main == Going /\ ~h.inHandler
Fork ==
  /\ Main /\ h.pc = "fork"
  /\ kid' = [kid EXCEPT ![h.next].life = "boot"] /\ h' = [h EXCEPT !.pc = "record"]
Record ==
  /\ Main /\ h.pc = "record"
  /\ kid' = [kid EXCEPT ![h.next].info = "running"]
  /\ h' = [h EXCEPT !.pc = IF h.next = Last THEN "test" ELSE "fork", !.next = @ + 1]

Test ==
  /\ Main /\ h.pc = "test"
  /\ IF NumChildren = 0 THEN ExitWith(IF h.term = "ok" THEN "done" ELSE "graceful", kid)
     ELSE /\ h.ready
          /\ h' = [h EXCEPT !.attached = TRUE, !.pc = "sleep", !.interrupted = FALSE] /\ UNCHANGED kid

(* Awake, it reads whether phases should pass, and then whether they do.   *)
Sleep(k) ==
  /\ Main /\ h.pc = "sleep" /\ (k = 1 \/ h.interrupted)
  /\ h' = [h EXCEPT !.pc = IF k = 1 THEN "slept" ELSE "stirred", !.calm = IF @ > StallLimit THEN @ ELSE @ + k,
             !.saw = IF h.active = 0 THEN "nobody" ELSE IF h.ff THEN "idlers" ELSE "runners"]
  /\ UNCHANGED kid

(* (Before it, a fault: the time of an earlier stall is kept.)             *)
StalledKept(k) == IF h.phases <= h.lastNumPhases THEN h.stalled + k ELSE h.stalled
Stalled(k) == IF h.phases <= h.lastNumPhases THEN h.stalled + k ELSE 0
Look ==
  /\ Main /\ h.pc \in {"slept", "stirred"}
  /\ h' = [h EXCEPT !.pc = "reap",
             !.stalled = IF h.saw = "runners" THEN Stalled(IF h.pc = "slept" THEN 1 ELSE 0) ELSE @,
             !.lastNumPhases = IF h.saw # "nobody" THEN h.phases ELSE @,
             !.lulled = h.calm, !.excused = @ \/ h.saw # "runners"]
  /\ UNCHANGED kid

(* A child whose signal has not fired is only noted.                       *)
ReapInLoop(p) ==
  /\ Main /\ h.pc = "reap" /\ p \in Zombies
  /\ kid' = [kid EXCEPT ![p].life = "gone", ![p].info = "done"]
  /\ h' = [h EXCEPT !.missed = TRUE]
Judge ==
  /\ Main /\ h.pc = "reap" /\ Zombies = {}
  /\ IF h.stalled > StallLimit THEN ExitWith("deadlock", Dead("killed"))
     ELSE h' = [h EXCEPT !.pc = "test", !.lulled = 0] /\ UNCHANGED kid

-----------------------------------------------------------------------------
(* chldSigHandler: one signal for any number of children.                  *)
Handler ==
  /\ Main /\ h.pending
  /\ h' = [h EXCEPT !.inHandler = TRUE, !.pending = FALSE, !.interrupted = TRUE] /\ UNCHANGED kid

(* eraseChild, the checks and the restart.                                 *)
Restarting(p) == h.attached /\ kid[p].exited = "restart"
Reap(p) ==
  /\ Going /\ h.inHandler /\ p \in Zombies
  /\ CASE kid[p].info # "running" -> ExitWith("unknown child", kid)
       [] kid[p].info = "running" /\ kid[p].code = "panic" -> ExitWith("panic", kid)
       [] kid[p].info = "running" /\ kid[p].code # "panic" /\ h.attached /\ kid[p].exited = "running" ->
            ExitWith("anomalous", kid)
       [] OTHER ->
            /\ kid' = IF Restarting(p)
                      THEN [kid EXCEPT ![p].life = "boot", ![p].exited = "running", ![p].code = "none"]
                      ELSE [kid EXCEPT ![p].life = "gone", ![p].info = "done"]
            /\ h' = [h EXCEPT !.missed = @ \/ ~h.attached]
Return ==
  /\ Going /\ h.inHandler /\ Zombies = {}
  /\ h' = [h EXCEPT !.inHandler = FALSE] /\ UNCHANGED kid

(* sigHandler: the first SIGINT kills the children, the second everything. *)
Interrupt ==
  /\ Main /\ (Troubled \/ h.term = "graceful")
  /\ IF h.term = "ok"
     THEN /\ kid' = [p \in Procs |-> IF Alive(p) /\ kid[p].info = "running"
                                     THEN [kid[p] EXCEPT !.life = "zombie", !.code = "killed"] ELSE kid[p]]
          /\ h' = [h EXCEPT !.term = "graceful", !.trouble = @ + 1, !.interrupted = TRUE,
                     !.pending = @ \/ \E p \in Procs : Alive(p) /\ kid[p].info = "running"]
     ELSE h' = [h EXCEPT !.over = "killed"] /\ kid' = Dead("killed")

ProcStep(p) == Boot(p) \/ End(p) \/ Exit(p)
MainStep ==
  \/ Fork \/ Record \/ Test \/ Look \/ Judge
  \/ \E k \in {0, 1} : Sleep(k)
  \/ \E p \in Procs : ReapInLoop(p)
HandlerStep == Handler \/ Return \/ \E p \in Procs : Reap(p)

Next ==
  \/ \E p \in Procs : ProcStep(p) \/ Hang(p) \/ \E code \in {"panic", "killed"} : Crash(p, code)
  \/ Phase \/ Toggle
  \/ MainStep \/ HandlerStep \/ Interrupt

-----------------------------------------------------------------------------
(* childInfo says which children there are, in whatever order they end and *)
(* are reaped and restarted, but while one is being launched: if it ends   *)
(* then, the harness does not know it (zsim_harness.cpp:234-239, 97).      *)
ChildrenKnown ==
  /\ Going => \A p \in Procs : kid[p].info = "running" <=>
       kid[p].life \notin {"none", "gone"} /\ ~(h.pc = "record" /\ h.next = p)
  /\ h.over = "unknown child" => h.pc = "record"

(* If it exits saying that all children are done, each has ended as it     *)
(* should and as often; unless it reaped one without looking at how it     *)
(* ended, in the loop or before it had the heap (zsim_harness.cpp:117-128, *)
(* 463).                                                                   *)
DoneIsDone ==
  h.over = "done" /\ ~h.missed => \A p \in Procs : kid[p].exited = "exited" /\ kid[p].left = 0

(* Processes are killed as deadlocked only when no phase had passed for    *)
(* the time the limit says, at the last look.  Excepted: a look that finds *)
(* everybody in fast-forward, or nobody active, forgets the phases before  *)
(* it and not the stall (zsim_harness.cpp:439-456).                        *)
DeadlockReal == h.over = "deadlock" /\ ~h.excused => h.lulled > StallLimit

(* Nothing runs on after the harness but a child it does not know.         *)
NoStrays == ~Going /\ h.over # "unknown child" => \A p \in Procs : ~Alive(p)

HarnessExact == ChildrenKnown /\ DoneIsDone /\ DeadlockReal /\ NoStrays

(* The harness ends whatever happens to its children.  Left out are fast-  *)
(* forward that lasts, and a first process that dies unseen before the     *)
(* heap is ready, while others wait for it (zsim_harness.cpp:119, 414).    *)
Over == ~Going \/ h.ff \/ (~h.ready /\ kid[0].life = "gone")
=============================================================================
