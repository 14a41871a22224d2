--------------------------------- MODULE Weave ---------------------------------
(***************************************************************************)
(* The weave phase: OOOCoreRecorder records the memory accesses of a core  *)
(* as a graph of timing events in the bound phase, ContentionSim runs the  *)
(* graph domain by domain in the weave phase, CrossingEvent synchronises   *)
(* two domains, and cSimEnd shifts the core's clock by the contention the  *)
(* weave phase found.                                                      *)
(*                                                                         *)
(* DelayEvents have one parent and one child in these graphs and run with  *)
(* their parent, so they are the delays of edges.  An access is one event  *)
(* of the domain of its cache or memory.  The event of lowest cycle of a   *)
(* queue is any of those (PrioQueue.tla models the queue itself).          *)
(***************************************************************************)
EXTENDS Integers, Sequences, FiniteSets, SequencesExt

CONSTANTS NumCores,    \* each core has a recorder
          Domains,     \* event domains, 0 .. numDomains-1
          Threads,     \* simulation threads
          Layouts,     \* the ways to give the domains to the threads
          HomeOf,      \* the domain of each core
          PhaseLength,
          Latency,     \* cycles of an access without contention
          Contention,  \* the extra cycles the weave models may add
          Delays,      \* from the access of a core to its next instruction
          MaxPhases, MaxAccesses, MaxEvents  \* bounds

NoEv  == 0
Ids   == 1..MaxEvents
Cores == 1..NumCores
ASSUME WeaveAssumption ==
  /\ IsFiniteSet(Threads)
  /\ Layouts \subseteq [Domains -> Threads]
  /\ HomeOf \in [Cores -> Domains]
  /\ {NumCores, PhaseLength, Latency, MaxPhases, MaxEvents} \subseteq Nat \ {0}
  /\ Contention \subseteq Nat /\ Delays \subseteq Nat

VARIABLES h,      \* s.ev: the events; s.q: the queues; s.last: lastCrossing; s.bad
          rec,    \* each core's recorder and clock
          dom,    \* curCycle, prio, queuePrio of each domain
          th,     \* each simulation thread: where it is, and its local queues
          threadOf,\* the thread of each domain, constant
          mode,    \* "bound", "start": in cSimStart, "weave" (inCSim), "end": before cSimEnd
          turn,    \* the core whose bound phase or cSimStart runs
          limit, lastLimit, threadsDone, phases,
          accesses \* accesses recorded so far, for the bound

vars == <<h, rec, dom, th, threadOf, mode, turn, limit, lastLimit, threadsDone, phases, accesses>>
weave == <<dom, th, mode, turn, limit, lastLimit, threadsDone, phases>>

DomainsOf(t) == {d \in Domains : threadOf[d] = t}
SimThreads == {t \in Threads : DomainsOf(t) # {}}

Max2(a, b) == IF a > b THEN a ELSE b

Kinds == {"issue", "disp", "acc", "resp", "xing"}

(* Functions from events to delays: none, x added, x taken out.            *)
Nobody        == [y \in {} |-> 0]
With(f, x, d) == [y \in DOMAIN f \cup {x} |-> IF y = x THEN d ELSE f[y]]
Without(f, x) == [y \in DOMAIN f \ {x} |-> f[y]]

(* A TimingEvent.  min = 0 stands for the unset minStartCycle.  kids gives *)
(* its children with the delays on the way, outs the crossings of which it *)
(* is the source (its child is their CrossingSrcEvent).  Of a crossing: sd *)
(* is the source domain, called and done what the source said, ps and qs   *)
(* the slacks; due is auxiliary, the last cycle another than the source    *)
(* asked for.                                                              *)
Event(k, d, c, min, pre, post, zll) ==
  [k |-> k, dom |-> d, core |-> c, min |-> min, pre |-> pre, post |-> post,
   zll |-> zll, cyc |-> 0, np |-> 0, kids |-> Nobody, outs |-> Nobody,
   sd |-> d, called |-> FALSE, done |-> 0, ps |-> 0, qs |-> 0, due |-> 0]

(* No event.                                                               *)
Free == Event("free", 0, 0, 0, 0, 0, 0)

Live(ev) == {i \in Ids : ev[i].k # "free"}
FreeIds(ev) == Ids \ Live(ev)
NewId(ev) == CHOOSE i \in FreeIds(ev) : TRUE
Parents(ev, i) == {p \in Live(ev) : i \in DOMAIN ev[p].kids}
Sources(ev, i) == {p \in Live(ev) : i \in DOMAIN ev[p].outs}
Check(s, c) == [s EXCEPT !.bad = @ \/ ~c]

(* The glob of the recorder that calls: globPhaseCycles.                   *)
Glob == phases * PhaseLength
NextPhase == Glob + PhaseLength

Recorder == [st |-> "HALTED", last |-> NoEv, gap |-> 0, cur |-> 0, simZll |-> 0,
             simStart |-> 0, slack |-> 0, unhalted |-> 0, fut |-> {}]

Init ==
  /\ h = [ev |-> [i \in Ids |-> Free], q |-> [d \in Domains |-> {}],
          last |-> [x \in Cores \X Domains \X Domains |-> [cyc |-> 0, ev |-> NoEv]],
          bad |-> FALSE, late |-> FALSE, cut |-> FALSE]
  /\ rec = [c \in Cores |-> Recorder]
  /\ dom = [d \in Domains |-> [cur |-> 0, prio |-> 0, qprio |-> 0]]
  /\ th = [t \in Threads |-> [at |-> "asleep", d |-> 0, ev |-> NoEv, sim |-> 0, src |-> 0, rel |-> 0,
                              stalled |-> FALSE, pq |-> {}, sq |-> <<>>, nsq |-> <<>>]]
  /\ threadOf \in Layouts
  /\ mode = "bound" /\ turn = 1 /\ limit = 0 /\ lastLimit = 0
  /\ threadsDone = 0 /\ phases = 0 /\ accesses = 0

-----------------------------------------------------------------------------
(* A new event i and TimingEvent::addChild of each of its parents, over    *)
(* its delay: the parents have not run yet.                                *)
Link(ev, i, e, parents, delay) ==
  [j \in Ids |-> IF j = i THEN [e EXCEPT !.np = Cardinality(parents)]
                 ELSE IF j \in parents THEN [ev[j] EXCEPT !.kids = With(@, i, delay[j])]
                 ELSE ev[j]]
AddEvent(s, i, e, parents, delay) ==
  [s EXCEPT !.bad = @ \/ ~(parents \subseteq Live(s.ev)), !.ev = Link(@, i, e, parents, delay)]
AddChild(s, p, i, e, d) == AddEvent(s, i, e, {p}, [x \in {p} |-> d])

(* ContentionSim::enqueueSynced, of an event that waits for nobody.        *)
EnqueueSynced(s, i, cycle) ==
  [Check(s, cycle >= lastLimit /\ s.ev[i].np = 0)
     EXCEPT !.q[s.ev[i].dom] = @ \cup {<<cycle, i>>}]

(* ContentionSim::enqueueCrossing of a new crossing: a response goes on    *)
(* when its request's parent, back, is done; a request is chained to the   *)
(* last one of this core between these domains if that is still to come,   *)
(* else it is queued.                                                      *)
EnqueueCrossing(s, x, xe, cycle, back) ==
  LET key == <<xe.core, xe.sd, xe.dom>>
      prev == s.last[key]
      chained == prev.cyc > dom[xe.sd].cur /\ prev.cyc <= cycle
      queued == EnqueueSynced(Check(AddEvent(s, x, xe, {}, Nobody), cycle >= dom[xe.sd].cur), x, cycle)
  IN
  IF back # NoEv THEN AddChild(s, back, x, xe, 0)
  ELSE [IF chained THEN AddChild(s, prev.ev, x, xe, 0) ELSE queued
          EXCEPT !.last[key] = [cyc |-> cycle, ev |-> x]]

(* The slack before a crossing is the parent's postDelay, and 1 if that is *)
(* 0: what a domain polls is always ahead of the other one's clock.  Then  *)
(* a fault, without the 1.                                                 *)
PreSlackAny(slack) == slack
PreSlack(slack) == IF slack = 0 THEN 1 ELSE slack

(* handleCrossing and the CrossingEvent constructor, for child k of p: the *)
(* source half takes the child's place, the crossing becomes its parent.   *)
(* What starts at min and has the postDelay slack is p, or the delay on    *)
(* the edge if there is one.                                               *)
Cross(s, p, k, min, slack, back) ==
  LET e == s.ev[p]
      x == NewId(s.ev)
      from == min + PreSlack(slack)
      cycle == Max2(lastLimit, from)
      xe == [Event("xing", s.ev[k].dom, e.core, from, 0, 0, from - rec[e.core].gap)
               EXCEPT !.sd = e.dom, !.ps = PreSlack(slack), !.qs = s.ev[k].pre,
                      !.kids = [j \in {k} |-> 0], !.due = cycle]
      cut == [s EXCEPT !.ev[p].kids = Without(@, k), !.ev[p].outs = With(@, x, e.kids[k])]
  IN EnqueueCrossing(cut, x, xe, cycle, back)

-----------------------------------------------------------------------------
(* The delay from the last issue event to the next, at least what it was   *)
(* without contention ("to avoid negative skews"), and a fault of it.      *)
IssueDelayNone(zll, lastZll, pre) == 0
IssueDelay(zll, lastZll, pre) == zll - lastZll - pre

(* OOOCoreRecorder::addIssueEvent: an issue event at cycle cyc, after the  *)
(* last one and after the responses that come before it, the last of them  *)
(* at maxC.                                                                *)
AddIssue(s, r, c, cyc) ==
  LET zll == cyc - r.gap
      prior == {f \in r.fut : f.zll < zll}
      live == {f \in prior : f.ev # NoEv}
      maxC == IF live = {} THEN 0 ELSE CHOOSE z \in {f.zll : f \in live} : \A f \in live : f.zll <= z
      pre == IF maxC > 0 THEN zll - maxC ELSE 0
      lastZll == s.ev[r.last].zll
      parents == {r.last} \cup {f.ev : f \in live}
      delay == [p \in parents |-> IF p = r.last THEN IssueDelay(zll, lastZll, pre) ELSE 0]
      i == NewId(s.ev)
  IN [s |-> AddEvent(Check(s, zll >= lastZll /\ \A f \in live : f.zll >= lastZll),
                     i, Event("issue", HomeOf[c], c, cyc, pre, 0, zll), parents, delay),
      r |-> [r EXCEPT !.last = i, !.fut = @ \ prior]]

(* notifyJoin.                                                             *)
Join(c) ==
  LET r == rec[c]
      i == NewId(h.ev)
      issued == AddIssue(h, r, c, r.cur)
  IN
  /\ mode = "bound" /\ turn = c /\ phases < MaxPhases /\ r.st # "RUNNING"
  /\ FreeIds(h.ev) # {}
  /\ IF r.st = "HALTED"
     THEN /\ h' = EnqueueSynced(AddEvent(Check(h, r.last = NoEv /\ r.unhalted <= Glob),
                                         i, Event("issue", HomeOf[c], c, Glob, 0, 0, Glob), {}, Nobody),
                                i, Glob)
          /\ rec' = [rec EXCEPT ![c] = [r EXCEPT !.last = i, !.gap = 0, !.slack = 0,
                                                 !.cur = Max2(r.cur, Glob), !.st = "RUNNING"]]
     ELSE /\ h' = Check(issued.s, r.cur >= Glob)
          /\ rec' = [rec EXCEPT ![c] = [issued.r EXCEPT !.st = "RUNNING"]]
  /\ UNCHANGED <<weave, threadOf, accesses>>

(* notifyLeave.                                                            *)
Leave(c) ==
  LET issued == AddIssue(h, rec[c], c, rec[c].cur) IN
  /\ mode = "bound" /\ turn = c /\ rec[c].st = "RUNNING" /\ rec[c].cur <= NextPhase
  /\ FreeIds(h.ev) # {}
  /\ h' = issued.s
  /\ rec' = [rec EXCEPT ![c] = [issued.r EXCEPT !.st = "DRAINING"]]
  /\ UNCHANGED <<weave, threadOf, accesses>>

(* recordAccess of a GET that is issued, dispatched and requested in this  *)
(* cycle and served in domain m: issue -> dispatch -> access -> response.  *)
(* (No response comes between the issue and the dispatch.  The dispatch    *)
(* takes the domain of its parent.)  Then the edges that cross are cut     *)
(* (produceCrossings): the way back answers the way there.  PUTs are edges *)
(* without a response and are left out.                                    *)
RecordAccess(c, m) ==
  LET cyc == rec[c].cur
      a  == AddIssue(h, rec[c], c, cyc)
      d  == NewId(a.s.ev)
      s1 == AddChild(a.s, a.r.last, d, Event("disp", HomeOf[c], c, cyc, 0, 0, cyc - a.r.gap), 0)
      e  == NewId(s1.ev)
      s2 == AddChild(s1, d, e, Event("acc", m, c, cyc, 0, Latency, 0), 0)
      p  == NewId(s2.ev)
      s3 == AddChild(s2, e, p, Event("resp", HomeOf[c], c, cyc + Latency, 0, 0, 0), 0)
      s4 == Cross(s3, d, e, cyc, 0, NoEv)
      s5 == Cross(s4, e, p, cyc, Latency, d)
  IN
  /\ mode = "bound" /\ turn = c /\ rec[c].st = "RUNNING" /\ rec[c].cur <= NextPhase
  /\ accesses < MaxAccesses /\ Cardinality(FreeIds(h.ev)) >= 6
  /\ h' = IF m = HomeOf[c] THEN s3 ELSE s5
  /\ \E dl \in Delays :
       rec' = [rec EXCEPT ![c] = [a.r EXCEPT !.cur = a.r.cur + dl,
                 !.fut = a.r.fut \cup {[zll |-> cyc + Latency - a.r.gap, ev |-> p]}]]
  /\ accesses' = accesses + 1
  /\ UNCHANGED <<weave, threadOf>>

(* Instructions without an access.                                         *)
Advance(c) ==
  /\ mode = "bound" /\ turn = c /\ phases < MaxPhases
  /\ rec[c].st = "RUNNING" /\ rec[c].cur <= NextPhase
  /\ rec' = [rec EXCEPT ![c].cur = NextPhase + 1]
  /\ UNCHANGED <<h, weave, threadOf, accesses>>

-----------------------------------------------------------------------------
(* The thread on core c has left, or is past the phase and in the barrier. *)
(* The bound phases of two cores commute (locks guard each queue, and the  *)
(* last crossing is a core's own): they are taken one after the other.     *)
EndBound(c) ==
  /\ mode = "bound" /\ turn = c /\ phases < MaxPhases
  /\ rec[c].st = "RUNNING" => rec[c].cur > NextPhase
  /\ turn' = IF c = NumCores THEN 1 ELSE c + 1
  /\ mode' = IF c = NumCores THEN "start" ELSE "bound"
  /\ UNCHANGED <<h, rec, dom, th, threadOf, limit, lastLimit, threadsDone, phases, accesses>>

(* cSimStart of a core, one after the other: a running core is past the    *)
(* phase and gets its taper, an issue event that starts the next phase; a  *)
(* draining core forgets its responses.                                    *)
StartCore(c) ==
  LET r == rec[c]
      t == AddIssue(h, r, c, NextPhase)
  IN
  /\ mode = "start" /\ turn = c
  /\ FreeIds(h.ev) # {}
  /\ CASE r.st = "HALTED" -> UNCHANGED <<h, rec>>
       [] r.st = "DRAINING" ->
            /\ rec' = [rec EXCEPT ![c] = [r EXCEPT !.fut = {}, !.cur = Max2(r.cur, NextPhase)]]
            /\ UNCHANGED h
       [] OTHER ->
            LET taper == h.ev[r.last].zll < NextPhase - r.gap IN
            /\ h' = Check(IF taper THEN t.s ELSE h,
                          r.cur > NextPhase /\ h.ev[r.last].zll <= r.cur - r.gap)
            /\ rec' = IF taper THEN [rec EXCEPT ![c] = t.r] ELSE rec
  /\ turn' = turn + 1
  /\ UNCHANGED <<dom, th, threadOf, mode, limit, lastLimit, threadsDone, phases, accesses>>

(* ContentionSim::simulatePhase wakes the threads and waits.               *)
CSimStart ==
  /\ mode = "start" /\ turn > NumCores
  /\ mode' = "weave"
  /\ turn' = 0
  /\ limit' = NextPhase
  /\ th' = [t \in Threads |-> [th[t] EXCEPT
        !.at = IF t \in SimThreads THEN "run" ELSE "asleep",
        !.pq = DomainsOf(t)]]
  /\ UNCHANGED <<h, rec, dom, threadOf, lastLimit, threadsDone, phases, accesses>>

-----------------------------------------------------------------------------
(* ContentionSim::enqueue, in the weave phase, with D for dom.             *)
Enqueue(s, D, i, cycle) ==
  [Check(s, s.ev[i].np = 0 /\ cycle >= lastLimit /\ cycle >= D[s.ev[i].dom].cur)
     EXCEPT !.q[s.ev[i].dom] = @ \cup {<<cycle, i>>}]

(* parentDone of an event, and of a crossing chained to another or to the  *)
(* parent of its request: not before its own minStartCycle.                *)
ParentDone(e, start) ==
  LET c == IF e.k = "xing" THEN Max2(start, e.min) ELSE start IN
  [e EXCEPT !.cyc = Max2(@, c), !.np = @ - 1, !.due = Max2(@, c),
            !.done = IF e.called THEN Max2(@, c) ELSE @]

(* CrossingEvent::markSrcEventDone, called in the source's domain.         *)
MarkSrcEventDone(e, cycle) == [e EXCEPT !.done = cycle, !.called = TRUE]

(* The events after i ended: its children heard of it, and it is freed.    *)
Hear(ev, i, end, kids, outs) ==
  [j \in Ids |->
     LET e == IF j \in kids THEN ParentDone(ev[j], end + ev[i].kids[j]) ELSE ev[j] IN
     IF j = i THEN Free
     ELSE IF j \in outs THEN MarkSrcEventDone(e, end + ev[i].outs[j]) ELSE e]

(* Event i is done at cycle: what its children in K hear, through their    *)
(* delays, and those that wait for nobody now are queued.  A parent tells  *)
(* each of its children once, so their order is of no account.             *)
Tell(s, D, i, cycle, K) ==
  LET e == s.ev[i]
      end == cycle + e.post
      kids == K \cap DOMAIN e.kids
      outs == K \cap DOMAIN e.outs
      heard == Hear(s.ev, i, end, kids, outs)
      ready == {j \in kids : heard[j].np = 0}
      at(j) == heard[j].cyc + heard[j].pre
      ok == /\ \A j \in kids : j \in Live(s.ev) /\ s.ev[j].np > 0
            /\ \A j \in ready : at(j) >= lastLimit /\ at(j) >= D[heard[j].dom].cur
            /\ \A j \in outs : ~s.ev[j].called /\ end + e.outs[j] >= D[s.ev[j].sd].cur
  IN [s EXCEPT !.bad = @ \/ ~ok, !.ev = heard,
               !.q = [d \in Domains |-> @[d] \cup {<<at(j), j>> : j \in {x \in ready : heard[x].dom = d}}]]

(* TimingEvent::done: the children, and the event is freed.  Before it, a  *)
(* fault: only one child hears of it.                                      *)
DoneTellsOne(s, D, i, cycle) ==
  LET all == DOMAIN s.ev[i].kids \cup DOMAIN s.ev[i].outs
  IN Tell(s, D, i, cycle, IF all = {} THEN {} ELSE {CHOOSE j \in all : TRUE})
Done(s, D, i, cycle) == Tell(s, D, i, cycle, Ids)

(* simulate of everything but a crossing: an issue event reports to its    *)
(* recorder, an access may find contention.                                *)
RunEvent(s, D, i, cycle) ==
  LET e == s.ev[i] IN
  \E more \in IF e.k = "acc" THEN Contention ELSE {0} :
    /\ h' = Done(s, D, i, cycle + more)
    /\ rec' = IF e.k # "issue" THEN rec
              ELSE [rec EXCEPT ![e.core] = [rec[e.core] EXCEPT
                      !.simZll = e.zll, !.simStart = cycle, !.slack = cycle - e.zll,
                      !.last = IF rec[e.core].last = i THEN NoEv ELSE rec[e.core].last]]

(* Crossing i runs: its source was done, at doneCycle.                     *)
RunCrossing(s, D, i, cycle) ==
  LET e == s.ev[i]
      late == cycle > Max2(e.due, e.done + e.ps + e.qs)
  IN h' = [Done(s, D, i, Max2(cycle, e.done)) EXCEPT !.late = @ \/ late]

(* The clocks as the events of this step see them: d is at this cycle.     *)
Clocks(d, cycle) == [dom EXCEPT ![d].cur = cycle]

Queue(d) == h.q[d]
IsFirst(d, cycle) == \A x \in Queue(d) : cycle <= x[1]
HasOne(t) == \A d, e \in DomainsOf(t) : d = e
(* A thread with one domain stops before the limit, with several after it. *)
Over(t, d) == \A x \in Queue(d) : IF HasOne(t) THEN x[1] >= limit ELSE x[1] > limit

(* The domain a thread looks at: the one with the lowest queuePrio of      *)
(* those not stalled, then the last of the stalled ones.                   *)
NextDomain(t, d) ==
  IF th[t].pq # {}
  THEN d \in th[t].pq /\ \A x \in th[t].pq : dom[d].qprio <= dom[x].qprio
  ELSE th[t].sq # <<>> /\ d = Last(th[t].sq)

(* Takes d from the queue of domains it came from; the stalled queues are  *)
(* swapped at the end of an iteration that leaves the first one empty.     *)
TakeDomain(r) == IF r.pq # {} THEN [r EXCEPT !.pq = @ \ {r.d}, !.stalled = FALSE]
                 ELSE [r EXCEPT !.sq = Front(@), !.stalled = TRUE]
Swap(r) == IF r.sq = <<>> /\ (r.pq = {} \/ r.stalled)
           THEN [r EXCEPT !.sq = r.nsq, !.nsq = <<>>] ELSE r

(* One iteration of simulatePhaseThread: dequeue the first event and run   *)
(* it, unless it is a crossing whose source is not done, which goes on     *)
(* step by step against the source's domain.  Only run() checks the        *)
(* minStartCycle, and the loop over stalled domains does not call it.      *)
Dequeue(t, d) ==
  /\ mode = "weave" /\ th[t].at = "run"
  /\ NextDomain(t, d) /\ ~Over(t, d)
  /\ \E x \in Queue(d) :
       LET c == x[1]
           e == h.ev[x[2]]
           s == [Check(h, /\ HasOne(t) => c >= dom[d].cur
                          /\ th[t].pq # {} => c >= e.min)
                   EXCEPT !.q[d] = @ \ {x}]
           waits == e.k = "xing" /\ ~e.called
       IN /\ IsFirst(d, c)
          /\ dom' = [dom EXCEPT ![d] = [dom[d] EXCEPT !.cur = c,
                        !.prio = IF e.k = "xing" /\ e.called THEN 0 ELSE dom[d].prio]]
          /\ th' = [th EXCEPT ![t] = [TakeDomain([@ EXCEPT !.d = d]) EXCEPT
                       !.at = IF waits THEN "xing" ELSE "publish", !.ev = x[2], !.sim = c]]
          /\ CASE waits -> h' = s /\ UNCHANGED rec
               [] e.k = "xing" /\ e.called -> RunCrossing(s, Clocks(d, c), x[2], c) /\ UNCHANGED rec
               [] OTHER -> RunEvent(s, Clocks(d, c), x[2], c)
  /\ UNCHANGED <<threadOf, mode, turn, limit, lastLimit, threadsDone, phases, accesses>>

(* Nothing more to do for d in this phase.                                 *)
FinishDomain(t, d) ==
  /\ mode = "weave" /\ th[t].at = "run"
  /\ NextDomain(t, d) /\ Over(t, d)
  /\ dom' = [dom EXCEPT ![d].cur = limit]
  /\ th' = [th EXCEPT ![t] = Swap(TakeDomain([@ EXCEPT !.d = d]))]
  /\ UNCHANGED <<h, rec, threadOf, mode, turn, limit, lastLimit, threadsDone, phases, accesses>>

(* CrossingEvent::simulate of a crossing that was not called: first the    *)
(* source's clock is read, ...                                             *)
ReadSource(t) ==
  LET e == h.ev[th[t].ev] IN
  /\ th[t].at = "xing"
  /\ th' = [th EXCEPT ![t] = [@ EXCEPT !.at = "recheck",
                      !.src = Max2(dom[e.sd].cur + e.ps + e.qs, e.zll + rec[e.core].slack + e.qs),
                      !.rel = e.zll + rec[e.core].slack + e.qs]]
  /\ UNCHANGED <<h, rec, dom, threadOf, mode, turn, limit, lastLimit, threadsDone, phases, accesses>>

(* A fault of the next action: called is not read again.                   *)
RecheckNothing(t) ==
  LET r == th[t]
      next == Max2(r.src, r.sim)
      s == [h EXCEPT !.ev[r.ev].np = 0, !.ev[r.ev].due = Max2(@, r.rel)]
  IN
  /\ r.at = "recheck"
  /\ h' = Enqueue(s, Clocks(r.d, r.sim), r.ev, next)
  /\ dom' = [dom EXCEPT ![r.d].prio = IF next = r.sim THEN 1 ELSE 2]
  /\ th' = [th EXCEPT ![t] = [@ EXCEPT !.at = "publish", !.src = 0, !.rel = 0]]
  /\ UNCHANGED <<rec, threadOf, mode, turn, limit, lastLimit, threadsDone, phases, accesses>>

(* ... then called again, and if the source is still not done, the         *)
(* crossing is queued for the earliest cycle at which it may arrive.       *)
Recheck(t) ==
  LET r == th[t]
      next == Max2(r.src, r.sim)
      s == [h EXCEPT !.ev[r.ev].np = 0, !.ev[r.ev].due = Max2(@, r.rel)]
  IN
  /\ r.at = "recheck"
  /\ IF h.ev[r.ev].called
     THEN RunCrossing(h, Clocks(r.d, r.sim), r.ev, r.sim) /\ dom' = [dom EXCEPT ![r.d].prio = 0]
     ELSE /\ h' = Enqueue(s, Clocks(r.d, r.sim), r.ev, next)
          /\ dom' = [dom EXCEPT ![r.d].prio = IF next = r.sim THEN 1 ELSE 2]
  /\ th' = [th EXCEPT ![t] = [@ EXCEPT !.at = "publish", !.src = 0, !.rel = 0]]
  /\ UNCHANGED <<rec, threadOf, mode, turn, limit, lastLimit, threadsDone, phases, accesses>>

(* The end of an iteration: the domain's clock becomes that of its next    *)
(* event, for crossings out of it to read.                                 *)
Publish(t) ==
  LET r == th[t]
      back == IF HasOne(t) \/ dom[r.d].prio = 0
              THEN [r EXCEPT !.pq = @ \cup {r.d}]
              ELSE IF r.stalled THEN [r EXCEPT !.nsq = Append(@, r.d)]
              ELSE [r EXCEPT !.sq = Append(@, r.d)]
  IN
  /\ r.at = "publish"
  /\ \E c \in IF Queue(r.d) = {} THEN {limit} ELSE {x[1] : x \in Queue(r.d)} :
       /\ IsFirst(r.d, c)
       /\ h' = Check(h, HasOne(t) => c >= dom[r.d].cur)
       /\ dom' = [dom EXCEPT ![r.d] = [dom[r.d] EXCEPT !.cur = c,
                       !.qprio = IF HasOne(t) THEN dom[r.d].qprio ELSE c]]
  /\ th' = [th EXCEPT ![t] = Swap([back EXCEPT !.at = "run", !.ev = NoEv, !.sim = 0])]
  /\ UNCHANGED <<rec, threadOf, mode, turn, limit, lastLimit, threadsDone, phases, accesses>>

(* The end of simThreadLoop's iteration: the last thread wakes the caller. *)
ThreadDone(t) ==
  LET n == threadsDone + 1 IN
  /\ mode = "weave" /\ th[t].at = "run"
  /\ th[t].pq = {} /\ th[t].sq = <<>>
  /\ th' = [th EXCEPT ![t] = [@ EXCEPT !.at = "asleep", !.d = 0, !.stalled = FALSE]]
  /\ threadsDone' = IF n = Cardinality(SimThreads) THEN 0 ELSE n
  /\ mode' = IF n = Cardinality(SimThreads) THEN "end" ELSE mode
  /\ UNCHANGED <<h, rec, dom, threadOf, turn, limit, lastLimit, phases, accesses>>

(* cSimEnd of a core: the last issue event simulated has moved from lec1   *)
(* to lec2, so the core's clock skews by the difference.  Responses that   *)
(* came are forgotten; a core that ran out of events halts.                *)
Skew(r) == r.simStart - (r.simZll + r.gap)
EndsWell(r) ==
  /\ r.simZll + r.gap <= r.cur /\ r.simStart <= r.cur /\ Skew(r) >= 0
  /\ r.last = NoEv => r.fut = {} \/ r.st = "RUNNING"
EndCore(r) ==
  IF r.st = "HALTED" THEN r
  ELSE [r EXCEPT !.cur = @ + Skew(r), !.gap = @ + Skew(r),
                 !.fut = {[f EXCEPT !.ev = IF f.ev \in Live(h.ev) THEN f.ev ELSE NoEv] : f \in r.fut},
                 !.unhalted = IF r.last = NoEv THEN r.simStart ELSE @,
                 !.st = IF r.last = NoEv THEN "HALTED" ELSE @]

(* The rest of ContentionSim::simulatePhase; the phase counter moves on.   *)
(* The cores end one after the other and have nothing in common.           *)
CSimEnd ==
  LET busy == {c \in Cores : rec[c].st # "HALTED"} IN
  /\ mode = "end"
  /\ h' = [h EXCEPT !.bad = @ \/ \E c \in busy : ~EndsWell(rec[c]),
                    !.cut = @ \/ \E c \in busy : rec[c].last = NoEv /\ rec[c].st = "RUNNING"]
  /\ rec' = [c \in Cores |-> EndCore(rec[c])]
  /\ lastLimit' = limit
  /\ phases' = phases + 1
  /\ mode' = "bound"
  /\ turn' = 1
  /\ UNCHANGED <<dom, th, threadOf, limit, threadsDone, accesses>>

Stopped == h.bad \/ h.cut

ThreadStep(t) ==
  /\ ~Stopped
  /\ \/ \E d \in Domains : Dequeue(t, d) \/ FinishDomain(t, d)
     \/ ReadSource(t) \/ Recheck(t) \/ Publish(t) \/ ThreadDone(t)

Bound ==
  /\ ~Stopped
  /\ \/ \E c \in Cores : Join(c) \/ Leave(c) \/ Advance(c) \/ EndBound(c) \/ StartCore(c)
     \/ \E c \in Cores, m \in Domains : RecordAccess(c, m)
     \/ CSimStart \/ CSimEnd

Next == Bound \/ \E t \in Threads : ThreadStep(t)

Spec == Init /\ [][Next]_vars
(* A thread that is awake goes on: the host runs it.  That is the weak     *)
(* fairness of ThreadStep(t), which is enabled as long as t is awake, in a *)
(* form that TLC evaluates without ENABLED.                                *)
GoesOn(t) == []<>(th[t].at = "asleep" \/ Stopped) \/ []<><<th'[t] # th[t]>>_vars
FairSpec == Spec /\ \A t \in Threads : GoesOn(t)

-----------------------------------------------------------------------------
(* Types: a core's clock and gap never become negative.                    *)
TypeOK ==
  /\ \A i \in Live(h.ev) : h.ev[i].k \in Kinds /\ h.ev[i].dom \in Domains
  /\ h.q \in [Domains -> SUBSET (Nat \X Ids)]
  /\ \A c \in Cores :
       /\ rec[c].st \in {"HALTED", "RUNNING", "DRAINING"}
       /\ rec[c].last \in Ids \cup {NoEv}
       /\ {rec[c].gap, rec[c].cur, rec[c].simZll, rec[c].simStart, rec[c].slack} \subseteq Nat
  /\ \A t \in Threads : th[t].at \in {"asleep", "run", "xing", "recheck", "publish"}
  /\ mode \in {"bound", "start", "weave", "end"}
  /\ threadsDone \in 0..Cardinality(Threads)

(* No assertion of the weave phase fails: no event is queued before the    *)
(* last limit or in its domain's past, none starts before its minimum, no  *)
(* finished event gets a child, the clock of a domain does not go back,    *)
(* and contention never makes a core faster (contention_sim.cpp:199-222,   *)
(* 314, 321; timing_event.h:107, 160; timing_event.cpp:123;                *)
(* ooo_core_recorder.cpp:158, 317-319).                                    *)
NeverFails == TypeOK /\ ~h.bad

Running(i) == \E t \in Threads : th[t].at \in {"xing", "recheck"} /\ th[t].ev = i
QueuedAt(i) == UNION {{<<x[1], d>> : x \in {y \in h.q[d] : y[2] = i}} : d \in Domains}

(* No event is lost and none runs twice: an event waits for exactly the    *)
(* parents that are still to be done, one that waits for nobody is in the  *)
(* queue of its domain, once, or is being run, and whoever is to call a    *)
(* crossing is alive as long as it has not (timing_event.h:136, 179-188;   *)
(* timing_event.cpp:34-43, 119-128).                                       *)
EveryEventIsDue ==
  ~Stopped =>
    \A i \in Live(h.ev) :
      /\ h.ev[i].np = Cardinality(Parents(h.ev, i))
      /\ IF h.ev[i].np = 0 /\ ~Running(i)
         THEN \E x \in QueuedAt(i) : x[2] = h.ev[i].dom /\ QueuedAt(i) = {x}
         ELSE QueuedAt(i) = {}
      /\ h.ev[i].k = "xing" /\ ~h.ev[i].called => Cardinality(Sources(h.ev, i)) = 1

(* Reading the other domain's clock and called without a lock never makes  *)
(* a crossing late: it runs no later than the cycle its source was done    *)
(* plus its slacks, or than what its core or its chain asked for           *)
(* (timing_event.cpp:144-161, "have to check again, AFTER reading the      *)
(* cycles! Otherwise, we have a race").                                    *)
NotLate == ~h.late

(* A running core always has an issue event left for the next phase, so it *)
(* never halts: "if we were RUNNING, the phase would have been tapered     *)
(* off" (ooo_core_recorder.cpp:293-296, 349-350).                          *)
RunningStaysTapered == ~h.cut

(* The domains' polling of each other ends: every weave phase is over in   *)
(* the end (contention_sim.cpp:177, 294-296, 373-417).                     *)
PhaseEnds == mode = "weave" ~> mode # "weave"
=============================================================================
