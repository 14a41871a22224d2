------------------------------ MODULE TimingCache ------------------------------
(***************************************************************************)
(* The weave-phase timing of a cache (timing_cache.cpp): its array does    *)
(* one lookup per cycle, lookups of hits and misses before those of        *)
(* writebacks and zcache walks, and a fixed number of MSHRs.  access()     *)
(* ties each miss's events together in the bound phase; the events of a    *)
(* domain are then simulated in the order of their cycles.                 *)
(***************************************************************************)
EXTENDS Integers, Sequences, SequencesExt, FiniteSetsExt

CONSTANTS NumReqs,
          MSHRs,     \* numbers of MSHRs
          AccLat, TagLat, Ways, Cands, \* latencies, and the size of a zcache's walk
          Cycles,    \* of the requests
          GetLats, EvictLats \* of the levels above, without contention

VARIABLES tc,  \* mshrs, lastFreeCycle, lastAccCycle, activeMisses, pendingQueue, and ev:
               \* of each event to come, its cycle at, the parents left, and of a
               \* replacement the step of its path and its accsLeft
          log  \* ghost: the requests; slots, the cycles of lookups, n of them; failed, an
               \* assertion has

vars == <<tc, log>>

Reqs == 1 .. NumReqs

(* A request hits, or misses, gets the line after a time, and evicts       *)
(* another, until some other time, or none.                                *)
Plans ==
  [cycle : Cycles, hit : {TRUE}, get : {0}, evict : {-1}]
    \cup [cycle : Cycles, hit : {FALSE}, get : GetLats, evict : EvictLats \cup {-1}]

(* The replacement path of access(): the walk's lookups, one event per     *)
(* level of the tree, and one read and one write of a swap.                *)
Lookups == (Cands + Ways - 1) \div Ways - 1
Least(a, b) == IF a < b THEN a ELSE b
Walk ==
  LET f[i \in 0 .. Lookups] ==
        IF i = 0 THEN [path |-> <<>>, fringe |-> Ways - 1, left |-> Lookups]
        ELSE LET g == f[i - 1] IN
             IF g.left = 0 THEN g
             ELSE [path |-> Append(g.path,
                              [pre |-> IF i = 1 THEN TagLat ELSE 0,
                               post |-> TagLat - Least(TagLat - 1, g.fringe),
                               accs |-> Least(g.fringe, g.left)]),
                   fringe |-> g.fringe * (Ways - 1),
                   left |-> g.left - Least(g.fringe, g.left)]
  IN f[Lookups].path
Path ==
  IF Lookups = 0 THEN <<>>
  ELSE Walk \o << [pre |-> TagLat, post |-> TagLat, accs |-> 1], [pre |-> 0, post |-> 0, accs |-> 1] >>

(* The events of a miss: its start; then the response and what the         *)
(* writeback waits for, which frees the MSHR.                              *)
Ev(at, left) == [at |-> at, left |-> left, step |-> 1, accs |-> 0]
Replaces(q) == ~q.hit /\ q.evict >= 0 /\ Path # <<>>
Parents(q) == 1 + (IF q.evict >= 0 THEN 1 ELSE 0) + (IF Replaces(q) THEN 1 ELSE 0)
Events(r, q) ==
  IF q.hit THEN {<<r, "hit">>}
  ELSE {<<r, "start">>, <<r, "resp">>, <<r, "wb">>} \cup (IF Replaces(q) THEN {<<r, "repl">>} ELSE {})
Initially(q, name) ==
  CASE name \in {"hit", "start"} -> Ev(q.cycle, 0)
    [] name = "resp" -> Ev(q.cycle + AccLat + q.get, 1)
    [] name = "repl" -> [Ev(q.cycle, 1) EXCEPT !.accs = Path[1].accs]
    [] name = "wb" -> Ev(q.cycle + AccLat + IF q.evict > q.get THEN q.evict ELSE q.get, Parents(q))

Init ==
  \E n \in MSHRs, plan \in [Reqs -> Plans] :
    /\ tc = [mshrs |-> n, lastFreeCycle |-> 0, lastAccCycle |-> 0, activeMisses |-> 0,
             pendingQueue |-> <<>>,
             ev |-> [e \in UNION {Events(r, plan[r]) : r \in Reqs} |-> Initially(plan[e[1]], e[2])]]
    /\ log = [req |-> plan, slots |-> {}, n |-> 0, failed |-> FALSE]

-----------------------------------------------------------------------------
(* highPrioAccess: in the first cycle without a lookup, and it remembers   *)
(* the last free one.                                                      *)
LookupCycle(t, c) == IF c > t.lastAccCycle THEN c ELSE t.lastAccCycle + 1
highPrioAccess(t, c) ==
  [t EXCEPT !.lastFreeCycle = IF t.lastAccCycle < c - 1 THEN c - 1 ELSE @,
            !.lastAccCycle = LookupCycle(t, c)]

(* tryLowPrioAccess: granted if the cycle before was free.                 *)
(* (Before it, a fault: that cycle is granted again.)                      *)
Free(t, c) == t.lastAccCycle < c - 1 \/ t.lastFreeCycle = c - 1
lowPrioKeepsFree(t, c) == [t EXCEPT !.lastAccCycle = IF c - 1 > @ THEN c - 1 ELSE @]
lowPrioAccess(t, c) ==
  [t EXCEPT !.lastFreeCycle = 0, !.lastAccCycle = IF c - 1 > @ THEN c - 1 ELSE @]

Looked(l, c) == [l EXCEPT !.slots = @ \cup {c}, !.n = @ + 1]

(* parentDone() of a child.                                                *)
Done(ev, e) == [f \in DOMAIN ev \ {e} |-> ev[f]]
ParentDone(ev, e, c) ==
  IF e \notin DOMAIN ev THEN ev
  ELSE [ev EXCEPT ![e].at = IF c > @ THEN c ELSE @, ![e].left = @ - 1]

Runnable == {e \in DOMAIN tc.ev : tc.ev[e].left = 0 /\ e \notin ToSet(tc.pendingQueue)}
First(e) == e \in Runnable /\ \A f \in Runnable : tc.ev[e].at <= tc.ev[f].at

-----------------------------------------------------------------------------
Queue(e) == tc' = [tc EXCEPT !.pendingQueue = Append(@, e)] /\ UNCHANGED log
HighPrio(c) ==
  log' = [Looked(log, LookupCycle(tc, c)) EXCEPT !.failed = @ \/ c < tc.lastFreeCycle]

simulateHit(e, c) ==
  /\ e[2] = "hit"
  /\ IF tc.activeMisses < tc.mshrs
     THEN tc' = [highPrioAccess(tc, c) EXCEPT !.ev = Done(@, e)] /\ HighPrio(c)
     ELSE Queue(e)

simulateMissStart(e, c) ==
  /\ e[2] = "start"
  /\ IF tc.activeMisses < tc.mshrs
     THEN /\ LET r == e[1]
                 q == log.req[r]
                 done == LookupCycle(tc, c) + AccLat
                 got == ParentDone(Done(tc.ev, e), <<r, "resp">>, done + q.get)
                 walks == IF Replaces(q) THEN ParentDone(got, <<r, "repl">>, done + Path[1].pre) ELSE got
                 evicts == IF q.evict >= 0 THEN ParentDone(walks, <<r, "wb">>, done + q.evict) ELSE walks
             IN tc' = [highPrioAccess(tc, c) EXCEPT !.activeMisses = @ + 1, !.ev = evicts]
          /\ HighPrio(c)
     ELSE Queue(e)

simulateMissResponse(e, c) ==
  /\ e[2] = "resp"
  /\ tc' = [tc EXCEPT !.ev = ParentDone(Done(@, e), <<e[1], "wb">>, c)]
  /\ UNCHANGED log

(* It frees the MSHR, and all that wait for one try again.                 *)
(* (Before it, a fault: only the first one does.)                          *)
RequeueFirst(t, c) ==
  IF t.pendingQueue = <<>> THEN t
  ELSE [t EXCEPT !.pendingQueue = Tail(@), !.ev[Head(t.pendingQueue)].at = c + 1]
Requeue(t, c) ==
  [t EXCEPT !.pendingQueue = <<>>,
            !.ev = [e \in DOMAIN @ |-> IF e \in ToSet(t.pendingQueue) THEN [@[e] EXCEPT !.at = c + 1]
                                       ELSE @[e]]]

Retry(e, c) == tc' = [tc EXCEPT !.ev[e].at = c + 1] /\ UNCHANGED log

simulateMissWriteback(e, c) ==
  /\ e[2] = "wb"
  /\ IF Free(tc, c)
     THEN /\ tc' = Requeue([lowPrioAccess(tc, c) EXCEPT !.activeMisses = @ - 1, !.ev = Done(@, e)], c)
          /\ log' = [Looked(log, c - 1) EXCEPT !.failed = @ \/ tc.activeMisses = 0]
     ELSE Retry(e, c)

simulateReplAccess(e, c) ==
  /\ e[2] = "repl"
  /\ IF Free(tc, c)
     THEN LET i == tc.ev[e]
              t == lowPrioAccess(tc, c)
          IN /\ log' = [Looked(log, c - 1) EXCEPT !.failed = @ \/ i.accs = 0]
             /\ tc' = [t EXCEPT !.ev =
                  IF i.accs > 1 THEN [@ EXCEPT ![e].accs = i.accs - 1, ![e].at = c + 1]
                  ELSE IF i.step < Len(Path)
                  THEN [@ EXCEPT ![e] = [at |-> c + Path[i.step].post + Path[i.step + 1].pre,
                                         left |-> 0, step |-> i.step + 1, accs |-> Path[i.step + 1].accs]]
                  ELSE ParentDone(Done(@, e), <<e[1], "wb">>, c + Path[i.step].post)]
     ELSE Retry(e, c)

Next ==
  \E e \in Runnable :
    /\ First(e)
    /\ LET c == tc.ev[e].at IN
         \/ simulateHit(e, c)
         \/ simulateMissStart(e, c)
         \/ simulateMissResponse(e, c)
         \/ simulateMissWriteback(e, c)
         \/ simulateReplAccess(e, c)

-----------------------------------------------------------------------------
(* The array does one lookup per cycle, although those of low priority are *)
(* dated back to a cycle that high-priority ones may have passed.          *)
OncePerCycle == Cardinality(log.slots) = log.n

(* A miss has its MSHR from start to writeback, and whatever waits for one *)
(* waits only while there is none: no release goes unnoticed.              *)
Started(r) == <<r, "wb">> \in DOMAIN tc.ev /\ <<r, "start">> \notin DOMAIN tc.ev
MSHRsExact ==
  /\ tc.activeMisses = Cardinality({r \in Reqs : Started(r)})
  /\ tc.activeMisses <= tc.mshrs
  /\ tc.pendingQueue # <<>> => tc.activeMisses = tc.mshrs

(* Nothing is left when nothing can be simulated any more; by then all     *)
(* lookups have been done.                                                 *)
Needs(q) == IF q.hit THEN 1 ELSE 2 + IF Replaces(q) THEN Lookups + 2 ELSE 0
AllEnd ==
  Runnable = {} =>
    /\ DOMAIN tc.ev = {}
    /\ log.n = MapThenSumSet(LAMBDA r : Needs(log.req[r]), Reqs)

TimingCacheExact == OncePerCycle /\ MSHRsExact /\ AllEnd /\ ~log.failed
=============================================================================
