----------------------------- MODULE CoreRecorder -----------------------------
(***************************************************************************)
(* CoreRecorder (core_recorder.cpp), the recorder of an in-order core: its *)
(* accesses form one chain of timing events, and what the weave phase adds *)
(* to the chain shifts the core's clock at the end of the phase, as long   *)
(* as the core runs or has events left.  One core; an access's events are  *)
(* one event, that takes its latency and any contention.  Writebacks hang  *)
(* on the chain and delay nothing of it, so they are left out.             *)
(***************************************************************************)
EXTENDS Integers, Sequences, SequencesExt

CONSTANTS PhaseLength,
          Latencies,   \* of an access, without contention
          Gaps,        \* cycles from an access to the next
          Contention,  \* what the weave phase may add to an access
          MaxPhases, MaxAccesses, MaxLeaves \* bounds

VARIABLES rec, \* state (st), gapCycles (gap), totalGapCycles, prevRespCycle, lastStart and
               \* lastOrig (of the last event simulated), lastUnhaltedCycle, totalHaltedCycles;
               \* the core's curCycle; chain, the events to come, the last of which is
               \* prevRespEvent; at, the cycle of the first of them
          sim  \* glob (globPhaseCycles), mode.  Ghosts: accesses and leaves so far; added and seen, the
               \* contention on the chain since the join, and before the last core event;
               \* joined, busy: since when and for how long the core has not been halted;
               \* work, the cycles of the core without contention; failed, an assertion has

vars == <<rec, sim>>

Max2(a, b) == IF a > b THEN a ELSE b
NextPhase == sim.glob + PhaseLength
Event(kind, orig, min, post) == [kind |-> kind, orig |-> orig, min |-> min, post |-> post]

Init ==
  /\ rec = [st |-> "HALTED", gap |-> 0, totalGap |-> 0, prevCycle |-> 0, lastStart |-> 0, lastOrig |-> 0,
            unhalted |-> 0, halted |-> 0, cur |-> 0, chain |-> <<>>, at |-> 0]
  /\ sim = [glob |-> 0, mode |-> "bound", accesses |-> 0, leaves |-> 0, added |-> 0, seen |-> 0, joined |-> 0,
            busy |-> 0, work |-> 0, failed |-> FALSE]

Fails(c) == sim.failed \/ c

-----------------------------------------------------------------------------
(* A halted core starts a new chain at the beginning of the phase.         *)
notifyJoin ==
  /\ sim.mode = "bound" /\ rec.st # "RUNNING"
  /\ IF rec.st = "HALTED"
     THEN /\ rec' = [rec EXCEPT !.st = "RUNNING", !.totalGap = @ + rec.gap, !.gap = 0,
                       !.halted = @ + sim.glob - rec.unhalted, !.prevCycle = sim.glob,
                       !.chain = <<Event("core", sim.glob, sim.glob, 0)>>, !.at = sim.glob,
                       !.cur = Max2(@, sim.glob)]
          /\ sim' = [sim EXCEPT !.added = 0, !.seen = 0, !.joined = sim.glob, !.work = Max2(rec.cur, sim.glob),
                       !.failed = Fails(rec.chain # <<>> \/ rec.unhalted > sim.glob)]
     ELSE /\ rec' = [rec EXCEPT !.st = "RUNNING"]
          /\ sim' = [sim EXCEPT !.failed = Fails(rec.cur < sim.glob)]

Waiting(r, c) == Event("core", r.prevCycle - r.gap, r.prevCycle, c - r.prevCycle)

(* An access some cycles after the last, and the core waits for it.        *)
recordAccess(gap, lat) ==
  LET req == rec.cur + gap IN
  /\ sim.mode = "bound" /\ rec.st = "RUNNING" /\ rec.cur <= NextPhase /\ sim.accesses < MaxAccesses
  /\ rec' = [rec EXCEPT !.cur = req + lat, !.prevCycle = req + lat,
                        !.chain = @ \o <<Waiting(rec, req), Event("access", 0, req, lat)>>]
  /\ sim' = [sim EXCEPT !.accesses = @ + 1, !.work = @ + gap + lat,
                        !.failed = Fails(rec.cur < rec.prevCycle)]

(* Instructions without accesses, up to the end of the phase.              *)
Compute ==
  /\ sim.mode = "bound" /\ rec.st = "RUNNING" /\ rec.cur < NextPhase
  /\ rec' = [rec EXCEPT !.cur = NextPhase]
  /\ sim' = [sim EXCEPT !.work = @ + NextPhase - rec.cur]

Taper(r) == Event("core", r.prevCycle - r.gap, r.prevCycle, 0)
notifyLeave ==
  /\ sim.mode = "bound" /\ rec.st = "RUNNING" /\ rec.cur <= NextPhase
  /\ sim.leaves < MaxLeaves
  /\ LET r == [rec EXCEPT !.prevCycle = rec.cur] IN
     rec' = [r EXCEPT !.st = "DRAINING", !.chain = @ \o <<Waiting(rec, rec.cur), Taper(r)>>]
  /\ sim' = [sim EXCEPT !.leaves = @ + 1, !.failed = Fails(rec.chain = <<>>)]

-----------------------------------------------------------------------------
(* A running core's chain ends in the next phase, at its cycle.            *)
cSimStart ==
  /\ sim.mode = "bound" /\ sim.glob < MaxPhases * PhaseLength
  /\ rec.st = "RUNNING" => rec.cur >= NextPhase
  /\ LET covered == [rec EXCEPT !.prevCycle = rec.cur,
                       !.chain = IF rec.prevCycle < rec.cur THEN Append(@, Waiting(rec, rec.cur)) ELSE @]
     IN rec' = CASE rec.st = "HALTED" -> rec
                 [] rec.st = "RUNNING" -> [covered EXCEPT !.chain = Append(@, Taper(covered))]
                 [] rec.st = "DRAINING" -> [rec EXCEPT !.cur = Max2(@, NextPhase)]
  /\ sim' = [sim EXCEPT !.mode = "weave", !.work = IF rec.st = "DRAINING" THEN @ + Max2(0, NextPhase - rec.cur) ELSE @]

(* The weave phase runs the first event, if it is before its end.          *)
Due == rec.chain # <<>> /\ rec.at < NextPhase
simulate(extra) ==
  LET e == Head(rec.chain)
      last == Len(rec.chain) = 1
  IN
  /\ sim.mode = "weave" /\ Due
  /\ extra > 0 => e.kind = "access"
  /\ rec' = [rec EXCEPT !.chain = Tail(@), !.at = @ + e.post + extra,
               !.lastStart = IF e.kind = "core" THEN rec.at ELSE @,
               !.lastOrig = IF e.kind = "core" THEN e.orig ELSE @]
  /\ sim' = [sim EXCEPT !.added = @ + extra, !.seen = IF e.kind = "core" THEN sim.added ELSE @,
               !.failed = Fails(rec.at < e.min \/ (last /\ rec.st # "DRAINING"))]

(* The clock shifts, and the cycle of the last response with it.           *)
(* (Before it, a fault: the response stays where it was.)                  *)
SkewCur(r, skew) == [r EXCEPT !.cur = @ + skew, !.gap = @ + skew]
Skew(r, skew) == [r EXCEPT !.cur = @ + skew, !.gap = @ + skew, !.prevCycle = @ + skew]
cSimEnd ==
  LET before == rec.lastOrig + rec.gap
      r == Skew(rec, rec.lastStart - before)
      halts == rec.chain = <<>>
  IN
  /\ sim.mode = "weave" /\ ~Due
  /\ rec' = IF rec.st = "HALTED" THEN rec
            ELSE IF halts THEN [r EXCEPT !.st = "HALTED", !.unhalted = rec.lastStart] ELSE r
  /\ sim' = [sim EXCEPT !.mode = "bound", !.glob = NextPhase,
               !.busy = IF rec.st # "HALTED" /\ halts THEN @ + rec.lastStart - sim.joined ELSE @,
               !.failed = Fails(rec.st # "HALTED" /\ \/ before > rec.cur \/ rec.lastStart > rec.cur
                                                     \/ before > rec.lastStart
                                                     \/ (halts /\ rec.st # "DRAINING"))]

Next ==
  \/ notifyJoin
  \/ \E gap \in Gaps, lat \in Latencies : recordAccess(gap, lat)
  \/ Compute
  \/ notifyLeave
  \/ cSimStart
  \/ \E extra \in Contention : simulate(extra)
  \/ cSimEnd

-----------------------------------------------------------------------------
(* The gap is the contention met so far: each cycle of it delays the core  *)
(* once, however many phases the events take that meet it, and whether or  *)
(* not the thread leaves and comes back meanwhile (core_recorder.cpp:187). *)
GapExact == sim.mode = "bound" /\ rec.st # "HALTED" => rec.gap = sim.seen

(* The clock without contention only counts what the core does.            *)
ClockExact == rec.st # "HALTED" => rec.cur - rec.gap = sim.work

(* The halted cycles are those without a thread and without events.        *)
HaltedExact == rec.st = "HALTED" => rec.unhalted - rec.halted = sim.busy

RecorderExact == ~sim.failed /\ GapExact /\ ClockExact /\ HaltedExact
=============================================================================
