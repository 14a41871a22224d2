------------------------------ MODULE WeaveProofs ------------------------------
(***************************************************************************)
(* Proofs about Weave, for any number of cores, domains, threads, events,  *)
(* phases and accesses: the graph of timing events that the bound phase    *)
(* records stays a graph that the weave phase can run.                     *)
(*                                                                         *)
(* First what each operation leaves of an event, of the graph (Graph) and  *)
(* of the queues (Waiting), then of both (Good), with the crossings that a *)
(* thread is running as a parameter; then the threads, and every step.     *)
(* The last sections are about the memory controllers' events and the      *)
(* recorder of an in-order core.                                           *)
(***************************************************************************)
EXTENDS Weave, MemClock, FiniteSetTheorems, WellFoundedInduction, TLAPS

Delayed == UNION {[S -> Int] : S \in SUBSET Ids}
Events ==
  [k : Kinds \cup {"free"}, dom : Domains \cup {0}, core : Cores \cup {0}, min : Int, pre : Int,
   post : Int, zll : Int, cyc : Int, np : Nat, kids : Delayed, outs : Delayed,
   sd : Domains \cup {0}, called : BOOLEAN, done : Int, ps : Int, qs : Int, due : Int]

-----------------------------------------------------------------------------
(* Functions from events to delays.                                        *)
LEMMA IsDelayed ==
  ASSUME NEW f
  PROVE  f \in Delayed <=> /\ f = [x \in DOMAIN f |-> f[x]]
                           /\ DOMAIN f \subseteq Ids
                           /\ \A x \in DOMAIN f : f[x] \in Int
  BY DEF Delayed

LEMMA NobodyDelayed == Nobody \in Delayed /\ DOMAIN Nobody = {}
  BY DEF Nobody, Delayed

LEMMA OneDelayed ==
  ASSUME NEW x \in Ids, NEW d \in Int
  PROVE  [y \in {x} |-> d] \in Delayed /\ DOMAIN [y \in {x} |-> d] = {x}
<1>1. [y \in {x} |-> d] \in [{x} -> Int]
  OBVIOUS
<1> QED
  BY <1>1 DEF Delayed

IsWith(g, f, x, d) ==
  /\ g \in Delayed /\ DOMAIN g = DOMAIN f \cup {x} /\ g[x] = d
  /\ \A y \in DOMAIN f : y # x => g[y] = f[y]
IsWithout(g, f, x) ==
  /\ g \in Delayed /\ DOMAIN g = DOMAIN f \ {x}
  /\ \A y \in DOMAIN f \ {x} : g[y] = f[y]

LEMMA WithDelayed ==
  ASSUME NEW f \in Delayed, NEW x \in Ids, NEW d \in Int
  PROVE  IsWith(With(f, x, d), f, x, d)
<1>1. DOMAIN f \subseteq Ids /\ \A y \in DOMAIN f : f[y] \in Int
  BY IsDelayed
<1>2. DOMAIN With(f, x, d) = DOMAIN f \cup {x}
  BY DEF With
<1>3. \A y \in DOMAIN f \cup {x} : With(f, x, d)[y] \in Int
  BY <1>1 DEF With
<1>4. With(f, x, d) = [y \in DOMAIN With(f, x, d) |-> With(f, x, d)[y]]
  BY DEF With
<1> QED
  BY <1>1, <1>2, <1>3, <1>4, IsDelayed DEF With, IsWith

LEMMA WithoutDelayed ==
  ASSUME NEW f \in Delayed, NEW x
  PROVE  IsWithout(Without(f, x), f, x)
<1>1. DOMAIN f \subseteq Ids /\ \A y \in DOMAIN f : f[y] \in Int
  BY IsDelayed
<1> QED
  BY <1>1, IsDelayed DEF Without, IsWithout

-----------------------------------------------------------------------------
(* Events: what each operation leaves of one.                              *)
LEMMA EventType ==
  ASSUME NEW k \in Kinds \cup {"free"}, NEW d \in Domains \cup {0}, NEW c \in Cores \cup {0},
         NEW min \in Int, NEW pre \in Int, NEW post \in Int, NEW zll \in Int
  PROVE  Event(k, d, c, min, pre, post, zll) \in Events
  BY NobodyDelayed DEF Event, Events

LEMMA FreeType == Free \in Events /\ Free.k = "free" /\ DOMAIN Free.kids = {} /\ DOMAIN Free.outs = {}
<1>1. Event("free", 0, 0, 0, 0, 0, 0) \in Events
  BY EventType
<1> QED
  BY <1>1, NobodyDelayed DEF Free, Event

(* Two events that differ in their edges at most.                          *)
Alike(a, b) ==
  /\ a.k = b.k /\ a.dom = b.dom /\ a.core = b.core /\ a.min = b.min /\ a.pre = b.pre
  /\ a.post = b.post /\ a.zll = b.zll /\ a.cyc = b.cyc /\ a.sd = b.sd /\ (a.called <=> b.called)
  /\ a.done = b.done /\ a.ps = b.ps /\ a.qs = b.qs /\ a.due = b.due

LEMMA KidsType ==
  ASSUME NEW e \in Events, NEW f \in Delayed
  PROVE  /\ [e EXCEPT !.kids = f] \in Events
         /\ Alike([e EXCEPT !.kids = f], e)
         /\ [e EXCEPT !.kids = f].np = e.np /\ [e EXCEPT !.kids = f].outs = e.outs
         /\ [e EXCEPT !.kids = f].kids = f
  BY DEF Events, Alike

LEMMA CutType ==
  ASSUME NEW e \in Events, NEW f \in Delayed, NEW g \in Delayed
  PROVE  /\ [e EXCEPT !.kids = f, !.outs = g] \in Events
         /\ Alike([e EXCEPT !.kids = f, !.outs = g], e)
         /\ [e EXCEPT !.kids = f, !.outs = g].np = e.np
         /\ [e EXCEPT !.kids = f, !.outs = g].kids = f
         /\ [e EXCEPT !.kids = f, !.outs = g].outs = g
  BY DEF Events, Alike

LEMMA NpType ==
  ASSUME NEW e \in Events, NEW n \in Nat
  PROVE  /\ [e EXCEPT !.np = n] \in Events
         /\ Alike([e EXCEPT !.np = n], e)
         /\ [e EXCEPT !.np = n].np = n
         /\ [e EXCEPT !.np = n].kids = e.kids /\ [e EXCEPT !.np = n].outs = e.outs
  BY DEF Events, Alike

LEMMA MaxType == ASSUME NEW a \in Int, NEW b \in Int
                 PROVE  Max2(a, b) \in Int /\ Max2(a, b) >= a /\ Max2(a, b) >= b
  BY DEF Max2

(* An event that a parent told, and one that its source called.            *)
LEMMA ToldType ==
  ASSUME NEW e \in Events, NEW start \in Int, e.np # 0
  PROVE  LET f == ParentDone(e, start)
             c == IF e.k = "xing" THEN Max2(start, e.min) ELSE start
         IN /\ f \in Events
            /\ f.k = e.k /\ f.dom = e.dom /\ f.core = e.core /\ f.min = e.min /\ f.pre = e.pre
            /\ f.post = e.post /\ f.zll = e.zll /\ f.sd = e.sd /\ (f.called <=> e.called)
            /\ f.ps = e.ps /\ f.qs = e.qs /\ f.kids = e.kids /\ f.outs = e.outs
            /\ f.np = e.np - 1 /\ f.cyc = Max2(e.cyc, c) /\ f.due = Max2(e.due, c)
            /\ f.done = (IF e.called THEN Max2(e.done, c) ELSE e.done)
<1> DEFINE c == IF e.k = "xing" THEN Max2(start, e.min) ELSE start
           m == Max2(e.cyc, c)
           u == Max2(e.due, c)
           o == IF e.called THEN Max2(e.done, c) ELSE e.done
           n == e.np - 1
<1>1. ParentDone(e, start) = [e EXCEPT !.cyc = m, !.np = n, !.due = u, !.done = o]
  BY DEF ParentDone
<1>2. e.min \in Int /\ e.cyc \in Int /\ e.due \in Int /\ e.done \in Int /\ e.np \in Nat
  BY DEF Events
<1>3. c \in Int
  BY <1>2, MaxType
<1>4. m \in Int /\ u \in Int /\ o \in Int
  BY <1>2, <1>3, MaxType
<1>5. n \in Nat
  BY <1>2
<1> HIDE DEF m, u, o, n
<1>6. /\ [e EXCEPT !.cyc = m, !.np = n, !.due = u, !.done = o] \in Events
  BY <1>4, <1>5 DEF Events
<1> QED
  BY <1>1, <1>6 DEF m, u, o, n, Events

LEMMA CalledType ==
  ASSUME NEW e \in Events, NEW c \in Int
  PROVE  LET f == MarkSrcEventDone(e, c)
         IN /\ f \in Events
            /\ f.k = e.k /\ f.dom = e.dom /\ f.core = e.core /\ f.min = e.min /\ f.pre = e.pre
            /\ f.post = e.post /\ f.zll = e.zll /\ f.sd = e.sd /\ f.called
            /\ f.ps = e.ps /\ f.qs = e.qs /\ f.kids = e.kids /\ f.outs = e.outs
            /\ f.np = e.np /\ f.cyc = e.cyc /\ f.due = e.due /\ f.done = c
  BY DEF MarkSrcEventDone, Events
-----------------------------------------------------------------------------
(* The graph of events: edges lead to events that are there, each waits    *)
(* for its parents, a crossing that was not called has one source.         *)
HasSource(ev, i) ==
  IF ev[i].k = "xing" /\ ~ev[i].called THEN \E p \in Ids : Sources(ev, i) = {p} ELSE Sources(ev, i) = {}
Graph(ev) ==
  /\ ev \in [Ids -> Events]
  /\ \A p \in Ids : ev[p].k = "free" => ev[p] = Free
  /\ \A p \in Ids : DOMAIN ev[p].kids \subseteq Live(ev) /\ DOMAIN ev[p].outs \subseteq Live(ev)
  /\ \A i \in Live(ev) : ev[i].dom \in Domains /\ ev[i].core \in Cores /\ ev[i].sd \in Domains
  /\ \A i \in Live(ev) : ev[i].np = Cardinality(Parents(ev, i))
  /\ \A i \in Live(ev) : HasSource(ev, i)

LEMMA IdsFinite == ASSUME NEW S, S \subseteq Ids PROVE IsFiniteSet(S) /\ Cardinality(S) \in Nat
<1>1. MaxEvents \in Int
  BY WeaveAssumption
<1>2. IsFiniteSet(Ids)
  BY <1>1, FS_Interval DEF Ids
<1> QED
  BY <1>2, FS_Subset, FS_CardinalityType

LEMMA LiveIds == ASSUME NEW ev PROVE Live(ev) \subseteq Ids /\ FreeIds(ev) \subseteq Ids
  BY DEF Live, FreeIds

LEMMA NewIdFree ==
  ASSUME NEW ev, FreeIds(ev) # {}
  PROVE  NewId(ev) \in Ids /\ NewId(ev) \notin Live(ev)
  BY DEF NewId, FreeIds

(* Nobody that is free has children.                                       *)
LEMMA FreeHasNone ==
  ASSUME NEW ev, Graph(ev), NEW p \in Ids, p \notin Live(ev)
  PROVE  ev[p].kids = Nobody /\ ev[p].outs = Nobody /\ DOMAIN ev[p].kids = {} /\ DOMAIN ev[p].outs = {}
<1>1. ev[p] = Free
  BY DEF Graph, Live
<1> QED
  BY <1>1, NobodyDelayed DEF Free, Event

LEMMA ParentsOf ==
  ASSUME NEW ev, Graph(ev), NEW i
  PROVE  /\ Parents(ev, i) = {p \in Ids : i \in DOMAIN ev[p].kids}
         /\ Sources(ev, i) = {p \in Ids : i \in DOMAIN ev[p].outs}
  BY FreeHasNone, LiveIds DEF Parents, Sources

(* The event i linked to its parents.                                      *)
LEMMA LinkIs ==
  ASSUME NEW ev \in [Ids -> Events], NEW i \in Ids, NEW e \in Events, NEW P, P \subseteq Ids, i \notin P,
         NEW delay \in [P -> Int], NEW n, n = Link(ev, i, e, P, delay)
  PROVE     /\ n \in [Ids -> Events]
            /\ Alike(n[i], e) /\ n[i].np = Cardinality(P) /\ n[i].kids = e.kids /\ n[i].outs = e.outs
            /\ \A j \in Ids \ {i} :
                 /\ Alike(n[j], ev[j]) /\ n[j].np = ev[j].np /\ n[j].outs = ev[j].outs
                 /\ j \notin P => n[j] = ev[j]
                 /\ j \in P => /\ DOMAIN n[j].kids = DOMAIN ev[j].kids \cup {i}
                               /\ n[j].kids[i] = delay[j]
                               /\ \A y \in DOMAIN ev[j].kids : y # i => n[j].kids[y] = ev[j].kids[y]
<1>1. Cardinality(P) \in Nat
  BY IdsFinite
<1>2. n = [j \in Ids |-> n[j]]
  BY DEF Link
<1>3. n[i] = [e EXCEPT !.np = Cardinality(P)]
  BY DEF Link
<1>4. n[i] \in Events /\ Alike(n[i], e) /\ n[i].np = Cardinality(P) /\ n[i].kids = e.kids /\ n[i].outs = e.outs
  BY <1>1, <1>3, NpType
<1>5. ASSUME NEW j \in Ids \ {i}, j \notin P
      PROVE  n[j] = ev[j]
  BY <1>5 DEF Link
<1>6. ASSUME NEW j \in Ids \ {i}, j \in P
      PROVE  /\ n[j] \in Events
             /\ Alike(n[j], ev[j]) /\ n[j].np = ev[j].np /\ n[j].outs = ev[j].outs
             /\ DOMAIN n[j].kids = DOMAIN ev[j].kids \cup {i}
             /\ n[j].kids[i] = delay[j]
             /\ \A y \in DOMAIN ev[j].kids : y # i => n[j].kids[y] = ev[j].kids[y]
  <2>1. n[j] = [ev[j] EXCEPT !.kids = With(ev[j].kids, i, delay[j])]
    BY <1>6 DEF Link
  <2>2. ev[j] \in Events /\ ev[j].kids \in Delayed
    BY DEF Events
  <2>3. delay[j] \in Int
    BY <1>6
  <2> DEFINE f == With(ev[j].kids, i, delay[j])
             g == ev[j].kids
             d == delay[j]
  <2>4. /\ f \in Delayed /\ DOMAIN f = DOMAIN g \cup {i} /\ f[i] = delay[j]
        /\ \A y \in DOMAIN g : y # i => f[y] = g[y]
    <3>1. f = With(g, i, d) /\ g \in Delayed /\ d \in Int
      BY <2>2, <2>3
    <3> HIDE DEF f, g, d
    <3>2. IsWith(f, g, i, d)
      BY <3>1, WithDelayed
    <3> QED
      BY <3>2 DEF d, IsWith
  <2>5. n[j] = [ev[j] EXCEPT !.kids = f]
    BY <2>1
  <2> HIDE DEF f
  <2> QED
    BY <2>2, <2>4, <2>5, KidsType
<1>7. \A a \in Events : Alike(a, a)
  BY DEF Alike
<1>8. \A j \in Ids : n[j] \in Events
  BY <1>4, <1>5, <1>6
<1> QED
  BY <1>2, <1>4, <1>5, <1>6, <1>7, <1>8

(* A new event that is no crossing.                                        *)
Plain(e) == /\ e \in Events /\ e.k \in Kinds /\ e.k # "xing" /\ e.kids = Nobody /\ e.outs = Nobody
            /\ e.dom \in Domains /\ e.core \in Cores /\ e.sd \in Domains

LEMMA LinkGraph ==
  ASSUME NEW ev, Graph(ev), NEW i \in Ids, i \notin Live(ev), NEW e, Plain(e),
         NEW P, P \subseteq Live(ev), NEW delay \in [P -> Int]
  PROVE  LET n == Link(ev, i, e, P, delay)
         IN Graph(n) /\ Live(n) = Live(ev) \cup {i} /\ Parents(n, i) = P
            /\ \A j \in Live(ev) : Parents(n, j) = Parents(ev, j)
<1> DEFINE n == Link(ev, i, e, P, delay)
<1>1. ev \in [Ids -> Events] /\ P \subseteq Ids /\ i \notin P
  BY LiveIds DEF Graph
<1>0. /\ e \in Events /\ e.k \in Kinds /\ e.k # "xing" /\ e.kids = Nobody /\ e.outs = Nobody
      /\ e.dom \in Domains /\ e.core \in Cores /\ e.sd \in Domains
  BY DEF Plain
<1>2. /\ n \in [Ids -> Events]
      /\ Alike(n[i], e) /\ n[i].np = Cardinality(P) /\ n[i].kids = e.kids /\ n[i].outs = e.outs
      /\ \A j \in Ids \ {i} :
           /\ Alike(n[j], ev[j]) /\ n[j].np = ev[j].np /\ n[j].outs = ev[j].outs
           /\ j \notin P => n[j] = ev[j]
           /\ j \in P => /\ DOMAIN n[j].kids = DOMAIN ev[j].kids \cup {i}
                         /\ n[j].kids[i] = delay[j]
                         /\ \A y \in DOMAIN ev[j].kids : y # i => n[j].kids[y] = ev[j].kids[y]
  BY <1>0, <1>1, LinkIs
<1> HIDE DEF n
<1>3. n[i].k = e.k /\ n[i].dom = e.dom /\ n[i].core = e.core /\ n[i].sd = e.sd /\ DOMAIN n[i].kids = {} /\ DOMAIN n[i].outs = {}
  BY <1>0, <1>2, NobodyDelayed DEF Alike
<1>4. \A j \in Ids \ {i} : n[j].k = ev[j].k /\ n[j].dom = ev[j].dom /\ n[j].core = ev[j].core /\ n[j].sd = ev[j].sd
                           /\ (n[j].called <=> ev[j].called)
  BY <1>2 DEF Alike
<1>5. Live(n) = Live(ev) \cup {i}
  BY <1>0, <1>3, <1>4 DEF Live, Kinds
<1>6. \A j \in Ids : i \notin DOMAIN ev[j].kids /\ i \notin DOMAIN ev[j].outs
  BY DEF Graph
<1>7. \A j \in Ids \ {i} : DOMAIN n[j].kids = DOMAIN ev[j].kids \cup (IF j \in P THEN {i} ELSE {})
  BY <1>2
<1>8. \A j \in Ids \ {i} : DOMAIN n[j].outs = DOMAIN ev[j].outs
  BY <1>2
<1>9. DOMAIN ev[i].kids = {} /\ DOMAIN ev[i].outs = {}
  BY FreeHasNone
<1>10. Parents(n, i) = P
  BY <1>3, <1>5, <1>6, <1>7, LiveIds DEF Parents
<1>11. \A j \in Live(ev) : Parents(n, j) = Parents(ev, j)
  BY <1>3, <1>5, <1>7, LiveIds DEF Parents
<1>12. \A j \in Live(ev) : Sources(n, j) = Sources(ev, j)
  BY <1>3, <1>5, <1>8, LiveIds DEF Sources
<1>13. Sources(n, i) = {}
  BY <1>3, <1>5, <1>6, <1>8, LiveIds DEF Sources
<1>14. \A p \in Ids : n[p].k = "free" => n[p] = Free
  BY <1>0, <1>1, <1>2, <1>3, <1>4 DEF Graph, Live, Kinds
<1>15. \A p \in Ids : DOMAIN n[p].kids \subseteq Live(n) /\ DOMAIN n[p].outs \subseteq Live(n)
  BY <1>3, <1>5, <1>7, <1>8 DEF Graph
<1>16. \A j \in Live(n) : n[j].dom \in Domains /\ n[j].core \in Cores /\ n[j].sd \in Domains
  BY <1>0, <1>3, <1>4, <1>5, LiveIds DEF Graph
<1>17. \A j \in Live(n) : n[j].np = Cardinality(Parents(n, j))
  <2>1. \A j \in Live(ev) : j # i /\ n[j].np = ev[j].np
    BY <1>2, LiveIds
  <2> QED
    BY <1>2, <1>5, <1>10, <1>11, <2>1 DEF Graph
<1>18. \A j \in Live(n) : HasSource(n, j)
  <2>1. HasSource(n, i)
    BY <1>0, <1>3, <1>13 DEF HasSource
  <2>2. ASSUME NEW j \in Live(ev)
        PROVE  HasSource(n, j)
    <3>1. j \in Ids \ {i} /\ HasSource(ev, j)
      BY LiveIds DEF Graph
    <3> QED
      BY <1>4, <1>12, <3>1 DEF HasSource
  <2> QED
    BY <1>5, <2>1, <2>2
<1>19. Graph(n)
  BY <1>2, <1>14, <1>15, <1>16, <1>17, <1>18 DEF Graph
<1> QED
  BY <1>5, <1>10, <1>11, <1>19 DEF n

(* The edge from p to k cut by the crossing x: p is its source, it is a    *)
(* parent of k.                                                            *)
CutEv(ev, p, k, x) == [ev EXCEPT ![p].kids = Without(@, k), ![p].outs = With(@, x, ev[p].kids[k])]
OneKid(k) == [j \in {k} |-> 0]

CutBy(ev, n, x, p, k, e, P, delay) ==
  /\ Graph(n) /\ Live(n) = Live(ev) \cup {x} /\ Parents(n, x) = P /\ k \in Live(ev)
  /\ Alike(n[x], e) /\ n[x].np = Cardinality(P) /\ n[x].kids = e.kids /\ n[x].outs = e.outs
  /\ Parents(n, k) = (Parents(ev, k) \ {p}) \cup {x}
  /\ \A j \in Live(ev) \ {k} : Parents(n, j) = Parents(ev, j)
  /\ \A j \in Live(ev) : Sources(n, j) = Sources(ev, j)
  /\ Sources(n, x) = {p}
  /\ \A j \in Ids \ {x} : Alike(n[j], ev[j]) /\ n[j].np = ev[j].np
  /\ \A j \in Ids \ {x} :
       /\ DOMAIN n[j].kids = (DOMAIN ev[j].kids \ (IF j = p THEN {k} ELSE {})) \cup (IF j \in P THEN {x} ELSE {})
       /\ \A y \in DOMAIN n[j].kids : n[j].kids[y] = IF y = x THEN delay[j] ELSE ev[j].kids[y]
  /\ \A j \in Ids \ {x} :
       /\ DOMAIN n[j].outs = DOMAIN ev[j].outs \cup (IF j = p THEN {x} ELSE {})
       /\ \A y \in DOMAIN n[j].outs : n[j].outs[y] = IF y = x THEN ev[j].kids[k] ELSE ev[j].outs[y]

LEMMA CutGraph ==
  ASSUME NEW ev, Graph(ev), NEW x \in Ids, x \notin Live(ev),
         NEW p \in Live(ev), NEW k \in DOMAIN ev[p].kids,
         NEW e \in Events, e.k = "xing", ~e.called, e.kids = OneKid(k), e.outs = Nobody,
         e.dom \in Domains, e.core \in Cores, e.sd \in Domains,
         NEW P, P \subseteq Live(ev), NEW delay \in [P -> Int],
         NEW cut, cut = CutEv(ev, p, k, x),
         NEW n, n = Link(cut, x, e, P, delay)
  PROVE  CutBy(ev, n, x, p, k, e, P, delay)
<1> DEFINE f == Without(ev[p].kids, k)
           g == With(ev[p].outs, x, ev[p].kids[k])
<1>1. /\ ev \in [Ids -> Events] /\ P \subseteq Ids /\ x \notin P /\ p \in Ids /\ p # x
      /\ k \in Live(ev) /\ k \in Ids /\ k # x
  BY LiveIds DEF Graph
<1>2. ev[p].kids \in Delayed /\ ev[p].outs \in Delayed /\ ev[p].kids[k] \in Int
  <2>1. ev[p].kids \in Delayed /\ ev[p].outs \in Delayed
    BY <1>1 DEF Events
  <2> QED
    BY <2>1, IsDelayed
<1>3. /\ f \in Delayed /\ DOMAIN f = DOMAIN ev[p].kids \ {k}
      /\ \A y \in DOMAIN ev[p].kids \ {k} : f[y] = ev[p].kids[y]
  <2> DEFINE a == ev[p].kids
  <2>1. a \in Delayed /\ f = Without(a, k)
    BY <1>2
  <2> HIDE DEF a, f
  <2>2. IsWithout(f, a, k)
    BY <2>1, WithoutDelayed
  <2> QED
    BY <2>2 DEF a, IsWithout
<1>4. /\ g \in Delayed /\ DOMAIN g = DOMAIN ev[p].outs \cup {x} /\ g[x] = ev[p].kids[k]
      /\ \A y \in DOMAIN ev[p].outs : y # x => g[y] = ev[p].outs[y]
  <2> DEFINE a == ev[p].outs
             d == ev[p].kids[k]
  <2>1. a \in Delayed /\ x \in Ids /\ d \in Int /\ g = With(a, x, d)
    BY <1>2
  <2> HIDE DEF a, d, g
  <2>2. IsWith(g, a, x, d)
    BY <2>1, WithDelayed
  <2> QED
    BY <2>2 DEF a, d, IsWith
<1>5. cut = [ev EXCEPT ![p] = [ev[p] EXCEPT !.kids = f, !.outs = g]]
  BY <1>1 DEF CutEv
<1> HIDE DEF f, g
<1>6. /\ [ev[p] EXCEPT !.kids = f, !.outs = g] \in Events
      /\ Alike([ev[p] EXCEPT !.kids = f, !.outs = g], ev[p])
      /\ [ev[p] EXCEPT !.kids = f, !.outs = g].np = ev[p].np
      /\ [ev[p] EXCEPT !.kids = f, !.outs = g].kids = f
      /\ [ev[p] EXCEPT !.kids = f, !.outs = g].outs = g
  <2> DEFINE a == ev[p]
  <2>1. a \in Events /\ f \in Delayed /\ g \in Delayed
    BY <1>1, <1>3, <1>4
  <2> HIDE DEF a
  <2>2. /\ [a EXCEPT !.kids = f, !.outs = g] \in Events
        /\ Alike([a EXCEPT !.kids = f, !.outs = g], a)
        /\ [a EXCEPT !.kids = f, !.outs = g].np = a.np
        /\ [a EXCEPT !.kids = f, !.outs = g].kids = f
        /\ [a EXCEPT !.kids = f, !.outs = g].outs = g
    BY ONLY <2>1 DEF Events, Alike
  <2> QED
    BY <2>2 DEF a
<1>7. /\ cut \in [Ids -> Events]
      /\ Alike(cut[p], ev[p]) /\ cut[p].np = ev[p].np /\ cut[p].kids = f /\ cut[p].outs = g
      /\ \A j \in Ids \ {p} : cut[j] = ev[j]
  BY <1>1, <1>5, <1>6
<1>8. /\ n \in [Ids -> Events]
      /\ Alike(n[x], e) /\ n[x].np = Cardinality(P) /\ n[x].kids = e.kids /\ n[x].outs = e.outs
      /\ \A j \in Ids \ {x} :
           /\ Alike(n[j], cut[j]) /\ n[j].np = cut[j].np /\ n[j].outs = cut[j].outs
           /\ j \notin P => n[j] = cut[j]
           /\ j \in P => /\ DOMAIN n[j].kids = DOMAIN cut[j].kids \cup {x}
                         /\ n[j].kids[x] = delay[j]
                         /\ \A y \in DOMAIN cut[j].kids : y # x => n[j].kids[y] = cut[j].kids[y]
  <2>1. cut \in [Ids -> Events] /\ x \in Ids /\ P \subseteq Ids /\ x \notin P
    BY <1>1, <1>7
  <2> QED
    BY ONLY <2>1, e \in Events, delay \in [P -> Int], n = Link(cut, x, e, P, delay), LinkIs
<1>9. \A j \in Ids \ {x} : Alike(n[j], ev[j]) /\ n[j].np = ev[j].np
  <2>1. \A j \in Ids \ {x} : Alike(cut[j], ev[j]) /\ cut[j].np = ev[j].np
    BY <1>7 DEF Alike
  <2> TAKE j \in Ids \ {x}
  <2>2. Alike(cut[j], ev[j]) /\ Alike(n[j], cut[j]) /\ n[j].np = cut[j].np /\ cut[j].np = ev[j].np
    BY <1>8, <2>1
  <2> QED
    BY <2>2 DEF Alike
<1>10. \A j \in Ids : x \notin DOMAIN ev[j].kids /\ x \notin DOMAIN ev[j].outs
  BY DEF Graph
<1>11. \A j \in Ids \ {x} :
         /\ DOMAIN n[j].kids = (DOMAIN ev[j].kids \ (IF j = p THEN {k} ELSE {})) \cup (IF j \in P THEN {x} ELSE {})
         /\ \A y \in DOMAIN n[j].kids : n[j].kids[y] = IF y = x THEN delay[j] ELSE ev[j].kids[y]
  <2> TAKE j \in Ids \ {x}
  <2>1. /\ DOMAIN cut[j].kids = DOMAIN ev[j].kids \ (IF j = p THEN {k} ELSE {})
        /\ \A y \in DOMAIN cut[j].kids : cut[j].kids[y] = ev[j].kids[y]
    BY <1>3, <1>7
  <2>2. x \notin DOMAIN cut[j].kids
    BY <1>10, <2>1
  <2>3. CASE j \in P
    <3> DEFINE a == cut[j].kids
               b == n[j].kids
    <3>1. DOMAIN b = DOMAIN a \cup {x} /\ b[x] = delay[j] /\ \A y \in DOMAIN a : y # x => b[y] = a[y]
      BY <1>8, <2>3
    <3> HIDE DEF a, b
    <3>2. \A y \in DOMAIN b : b[y] = IF y = x THEN delay[j] ELSE a[y]
      BY <3>1
    <3> QED
      BY <2>1, <2>2, <2>3, <3>1, <3>2 DEF a, b
  <2>4. CASE j \notin P
    BY <1>8, <2>1, <2>2, <2>4
  <2> QED
    BY <2>3, <2>4
<1>12. \A j \in Ids \ {x} :
         /\ DOMAIN n[j].outs = DOMAIN ev[j].outs \cup (IF j = p THEN {x} ELSE {})
         /\ \A y \in DOMAIN n[j].outs : n[j].outs[y] = IF y = x THEN ev[j].kids[k] ELSE ev[j].outs[y]
  BY <1>4, <1>7, <1>8, <1>10
<1>13. n[x].k = "xing" /\ ~n[x].called /\ n[x].dom = e.dom /\ n[x].core = e.core /\ n[x].sd = e.sd
       /\ DOMAIN n[x].kids = {k} /\ DOMAIN n[x].outs = {}
  BY <1>8, NobodyDelayed DEF Alike, OneKid
<1>14. \A j \in Ids \ {x} : n[j].k = ev[j].k /\ n[j].dom = ev[j].dom /\ n[j].core = ev[j].core /\ n[j].sd = ev[j].sd
                            /\ (n[j].called <=> ev[j].called)
  BY <1>9 DEF Alike
<1>15. Live(n) = Live(ev) \cup {x}
  BY <1>13, <1>14 DEF Live
<1>16. DOMAIN ev[x].kids = {} /\ DOMAIN ev[x].outs = {}
  BY FreeHasNone
<1>17. Parents(n, x) = P
  BY <1>1, <1>10, <1>11, <1>13, <1>15, LiveIds DEF Parents
<1>18. Parents(n, k) = (Parents(ev, k) \ {p}) \cup {x}
  BY <1>1, <1>11, <1>13, <1>15, LiveIds DEF Parents
<1>19. \A j \in Live(ev) \ {k} : Parents(n, j) = Parents(ev, j)
  BY <1>1, <1>11, <1>13, <1>15, LiveIds DEF Parents
<1>20. \A j \in Live(ev) : Sources(n, j) = Sources(ev, j)
  BY <1>1, <1>12, <1>13, <1>15, LiveIds DEF Sources
<1>21. Sources(n, x) = {p}
  BY <1>1, <1>10, <1>12, <1>13, <1>15, LiveIds DEF Sources
<1>22. \A j \in Ids : n[j].k = "free" => n[j] = Free
  <2> TAKE j \in Ids
  <2> HAVE n[j].k = "free"
  <2>1. j # x /\ ev[j].k = "free"
    BY <1>13, <1>14
  <2>2. j \notin P /\ j # p /\ ev[j] = Free
    BY <1>1, <2>1 DEF Graph, Live
  <2> QED
    BY <1>7, <1>8, <2>1, <2>2
<1>23. \A j \in Ids : DOMAIN n[j].kids \subseteq Live(n) /\ DOMAIN n[j].outs \subseteq Live(n)
  BY <1>1, <1>11, <1>12, <1>13, <1>15 DEF Graph
<1>24. \A j \in Live(n) : n[j].dom \in Domains /\ n[j].core \in Cores /\ n[j].sd \in Domains
  BY <1>13, <1>14, <1>15, LiveIds DEF Graph
<1>25. \A j \in Live(n) : n[j].np = Cardinality(Parents(n, j))
  <2>1. \A j \in Live(ev) : j # x /\ n[j].np = ev[j].np /\ ev[j].np = Cardinality(Parents(ev, j))
    BY <1>9, LiveIds DEF Graph
  <2>2. Cardinality(Parents(n, k)) = Cardinality(Parents(ev, k))
    <3> DEFINE A == Parents(ev, k)
    <3>1. IsFiniteSet(A) /\ Cardinality(A) \in Nat /\ p \in A /\ x \notin A
      BY LiveIds, IdsFinite DEF Parents
    <3>2. IsFiniteSet(A \ {p}) /\ Cardinality(A \ {p}) = Cardinality(A) - 1
      BY <3>1, FS_RemoveElement
    <3>3. Cardinality((A \ {p}) \cup {x}) = Cardinality(A \ {p}) + 1
      BY <3>1, <3>2, FS_AddElement
    <3> QED
      BY <1>18, <3>1, <3>2, <3>3
  <2> QED
    BY <1>8, <1>15, <1>17, <1>19, <2>1, <2>2
<1>26. \A j \in Live(n) : HasSource(n, j)
  <2>1. HasSource(n, x)
    BY <1>1, <1>13, <1>21 DEF HasSource
  <2>2. ASSUME NEW j \in Live(ev)
        PROVE  HasSource(n, j)
    <3>1. j \in Ids \ {x} /\ HasSource(ev, j)
      BY LiveIds DEF Graph
    <3> QED
      BY <1>14, <1>20, <3>1 DEF HasSource
  <2> QED
    BY <1>15, <2>1, <2>2
<1>27. Graph(n)
  BY <1>8, <1>22, <1>23, <1>24, <1>25, <1>26 DEF Graph
<1> QED
  BY <1>1, <1>8, <1>9, <1>11, <1>12, <1>15, <1>17, <1>18, <1>19, <1>20, <1>21, <1>27 DEF CutBy

LEMMA NoParents ==
  ASSUME NEW ev, Graph(ev), NEW i \in Live(ev)
  PROVE  (ev[i].np = 0) <=> (Parents(ev, i) = {})
<1>1. IsFiniteSet(Parents(ev, i)) /\ ev[i].np = Cardinality(Parents(ev, i))
  BY LiveIds, IdsFinite DEF Parents, Graph
<1> QED
  BY <1>1, FS_EmptySet

(* The cycle a parent i that ends at end asks its child j for.             *)
Asked(ev, i, end, j) ==
  LET start == end + ev[i].kids[j] IN IF ev[j].k = "xing" THEN Max2(start, ev[j].min) ELSE start

(* What an event that waited for nobody, and was called if it is a         *)
(* crossing, leaves when it is done.                                       *)
Heard(ev, i, end, n) ==
  /\ n \in [Ids -> Events]
  /\ n[i] = Free
  /\ \A j \in Ids \ {i} :
       /\ n[j].k = ev[j].k /\ n[j].dom = ev[j].dom /\ n[j].core = ev[j].core /\ n[j].min = ev[j].min
       /\ n[j].pre = ev[j].pre /\ n[j].post = ev[j].post /\ n[j].zll = ev[j].zll /\ n[j].sd = ev[j].sd
       /\ n[j].ps = ev[j].ps /\ n[j].qs = ev[j].qs /\ n[j].kids = ev[j].kids /\ n[j].outs = ev[j].outs
       /\ n[j].called <=> (ev[j].called \/ j \in DOMAIN ev[i].outs)
       /\ j \notin DOMAIN ev[i].kids => n[j].np = ev[j].np /\ n[j].cyc = ev[j].cyc /\ n[j].due = ev[j].due
       /\ j \in DOMAIN ev[i].kids => /\ n[j].np = ev[j].np - 1 /\ Asked(ev, i, end, j) \in Int
                                    /\ n[j].cyc = Max2(ev[j].cyc, Asked(ev, i, end, j))
                                    /\ n[j].due = Max2(ev[j].due, Asked(ev, i, end, j))
       /\ j \in DOMAIN ev[i].outs => n[j].done = end + ev[i].outs[j]
       /\ j \notin DOMAIN ev[i].outs => n[j].done = IF j \in DOMAIN ev[i].kids /\ ev[j].called
                                                   THEN Max2(ev[j].done, Asked(ev, i, end, j)) ELSE ev[j].done

LEMMA HearIs ==
  ASSUME NEW ev, Graph(ev), NEW i \in Live(ev), NEW end \in Int, ev[i].np = 0
  PROVE  Heard(ev, i, end, Hear(ev, i, end, DOMAIN ev[i].kids, DOMAIN ev[i].outs))
<1> DEFINE n == Hear(ev, i, end, DOMAIN ev[i].kids, DOMAIN ev[i].outs)
<1>1. i \in Ids /\ ev \in [Ids -> Events]
  BY LiveIds DEF Graph
<1>2. ev[i].kids \in Delayed /\ ev[i].outs \in Delayed
  BY <1>1 DEF Events
<1>3. /\ \A j \in DOMAIN ev[i].kids : ev[i].kids[j] \in Int
      /\ \A j \in DOMAIN ev[i].outs : ev[i].outs[j] \in Int
  BY <1>2, IsDelayed
<1>4. n = [j \in Ids |-> n[j]] /\ n[i] = Free
  BY <1>1 DEF Hear
<1>5. ASSUME NEW j \in Ids \ {i}
      PROVE  /\ n[j] \in Events
             /\ n[j].k = ev[j].k /\ n[j].dom = ev[j].dom /\ n[j].core = ev[j].core /\ n[j].min = ev[j].min
             /\ n[j].pre = ev[j].pre /\ n[j].post = ev[j].post /\ n[j].zll = ev[j].zll /\ n[j].sd = ev[j].sd
             /\ n[j].ps = ev[j].ps /\ n[j].qs = ev[j].qs /\ n[j].kids = ev[j].kids /\ n[j].outs = ev[j].outs
             /\ n[j].called <=> (ev[j].called \/ j \in DOMAIN ev[i].outs)
             /\ j \notin DOMAIN ev[i].kids => n[j].np = ev[j].np /\ n[j].cyc = ev[j].cyc /\ n[j].due = ev[j].due
             /\ j \in DOMAIN ev[i].kids => /\ n[j].np = ev[j].np - 1 /\ Asked(ev, i, end, j) \in Int
                                          /\ n[j].cyc = Max2(ev[j].cyc, Asked(ev, i, end, j))
                                          /\ n[j].due = Max2(ev[j].due, Asked(ev, i, end, j))
             /\ j \in DOMAIN ev[i].outs => n[j].done = end + ev[i].outs[j]
             /\ j \notin DOMAIN ev[i].outs => n[j].done = IF j \in DOMAIN ev[i].kids /\ ev[j].called
                                                         THEN Max2(ev[j].done, Asked(ev, i, end, j)) ELSE ev[j].done
  <2> DEFINE e == ev[j]
             start == end + ev[i].kids[j]
             a == IF j \in DOMAIN ev[i].kids THEN ParentDone(e, start) ELSE e
             asked == Asked(ev, i, end, j)
             isKid == j \in DOMAIN ev[i].kids
             isOut == j \in DOMAIN ev[i].outs
             called == end + ev[i].outs[j]
  <2>1. e \in Events /\ (isKid => start \in Int) /\ (isOut => called \in Int)
    BY <1>1, <1>3
  <2>2. isKid => e.np # 0
    <3> SUFFICES ASSUME isKid PROVE e.np # 0
      OBVIOUS
    <3>1. j \in Live(ev) /\ i \in Parents(ev, j)
      BY <1>1 DEF Graph, Parents
    <3> QED
      BY <3>1, NoParents
  <2>3. n[j] = IF isOut THEN MarkSrcEventDone(a, called) ELSE a
    BY <1>5 DEF Hear
  <2>4. asked = IF e.k = "xing" THEN Max2(start, e.min) ELSE start
    BY DEF Asked
  <2>5. isKid => asked \in Int
    <3>1. e.min \in Int
      BY <2>1 DEF Events
    <3> HIDE DEF e, start, asked, isKid
    <3> QED
      BY <2>1, <2>4, <3>1, MaxType
  <2> HIDE DEF e, start, asked, isKid, isOut, called, n
  <2>6. /\ a \in Events
        /\ a.k = e.k /\ a.dom = e.dom /\ a.core = e.core /\ a.min = e.min
        /\ a.pre = e.pre /\ a.post = e.post /\ a.zll = e.zll /\ a.sd = e.sd
        /\ a.ps = e.ps /\ a.qs = e.qs /\ a.kids = e.kids /\ a.outs = e.outs /\ (a.called <=> e.called)
        /\ ~isKid => a.np = e.np /\ a.cyc = e.cyc /\ a.due = e.due
        /\ isKid => a.np = e.np - 1 /\ a.cyc = Max2(e.cyc, asked) /\ a.due = Max2(e.due, asked)
        /\ a.done = IF isKid /\ e.called THEN Max2(e.done, asked) ELSE e.done
    <3>0. a = IF isKid THEN ParentDone(e, start) ELSE e
      BY DEF isKid
    <3> HIDE DEF a
    <3>1. CASE isKid
      <4>1. a = ParentDone(e, start) /\ e \in Events /\ start \in Int /\ e.np # 0
        BY <2>1, <2>2, <3>0, <3>1
      <4>2. /\ a \in Events
            /\ a.k = e.k /\ a.dom = e.dom /\ a.core = e.core /\ a.min = e.min /\ a.pre = e.pre
            /\ a.post = e.post /\ a.zll = e.zll /\ a.sd = e.sd /\ (a.called <=> e.called)
            /\ a.ps = e.ps /\ a.qs = e.qs /\ a.kids = e.kids /\ a.outs = e.outs
            /\ a.np = e.np - 1 /\ a.cyc = Max2(e.cyc, asked) /\ a.due = Max2(e.due, asked)
            /\ a.done = (IF e.called THEN Max2(e.done, asked) ELSE e.done)
        BY ONLY <4>1, <2>4, ToldType
      <4> QED
        BY <3>1, <4>2
    <3>2. CASE ~isKid
      BY <2>1, <3>0, <3>2
    <3> QED
      BY <3>1, <3>2
  <2> HIDE DEF a
  <2>7. CASE isOut
    <3> DEFINE b == MarkSrcEventDone(a, called)
    <3>1. a \in Events /\ called \in Int
      BY <2>1, <2>6, <2>7
    <3>2. /\ b \in Events
          /\ b.k = a.k /\ b.dom = a.dom /\ b.core = a.core /\ b.min = a.min /\ b.pre = a.pre
          /\ b.post = a.post /\ b.zll = a.zll /\ b.sd = a.sd /\ b.called
          /\ b.ps = a.ps /\ b.qs = a.qs /\ b.kids = a.kids /\ b.outs = a.outs
          /\ b.np = a.np /\ b.cyc = a.cyc /\ b.due = a.due /\ b.done = called
      BY ONLY <3>1, CalledType
    <3>3. n[j] = b
      BY <2>3, <2>7
    <3> HIDE DEF b
    <3> QED
      BY <2>5, <2>6, <2>7, <3>2, <3>3 DEF e, asked, isKid, isOut, called
  <2>8. CASE ~isOut
    <3>1. n[j] = a
      BY <2>3, <2>8
    <3> QED
      BY <2>5, <2>6, <2>8, <3>1 DEF e, asked, isKid, isOut, called
  <2> QED
    BY <2>7, <2>8
<1> HIDE DEF n
<1>6. n \in [Ids -> Events]
  BY <1>4, <1>5, FreeType
<1>7. Heard(ev, i, end, n)
  BY <1>4, <1>5, <1>6 DEF Heard
<1> QED
  BY <1>7 DEF n

LEMMA HearGraph ==
  ASSUME NEW ev, Graph(ev), NEW i \in Live(ev), NEW end \in Int, ev[i].np = 0,
         ev[i].k = "xing" => ev[i].called, NEW n, Heard(ev, i, end, n)
  PROVE  /\ Graph(n) /\ Live(n) = Live(ev) \ {i}
         /\ \A j \in Live(n) : Parents(n, j) = Parents(ev, j) \ {i} /\ Sources(n, j) = Sources(ev, j) \ {i}
         /\ \A j \in Ids : i \notin DOMAIN ev[j].kids /\ i \notin DOMAIN ev[j].outs
         /\ DOMAIN ev[i].kids \subseteq Live(n) /\ DOMAIN ev[i].outs \subseteq Live(n)
         /\ \A j \in DOMAIN ev[i].outs : ev[j].k = "xing" /\ ~ev[j].called
<1>1. i \in Ids /\ ev \in [Ids -> Events]
  BY LiveIds DEF Graph
<1>2. /\ \A j \in Ids \ {i} : n[j].k = ev[j].k /\ n[j].dom = ev[j].dom /\ n[j].core = ev[j].core /\ n[j].sd = ev[j].sd
      /\ \A j \in Ids \ {i} : n[j].kids = ev[j].kids /\ n[j].outs = ev[j].outs
      /\ \A j \in Ids \ {i} : n[j].called <=> (ev[j].called \/ j \in DOMAIN ev[i].outs)
      /\ \A j \in Ids \ {i} : n[j].np = IF j \in DOMAIN ev[i].kids THEN ev[j].np - 1 ELSE ev[j].np
      /\ n \in [Ids -> Events] /\ n[i] = Free
  BY DEF Heard
<1>3. n[i].k = "free" /\ DOMAIN n[i].kids = {} /\ DOMAIN n[i].outs = {}
  BY <1>2, FreeType
<1>4. Live(n) = Live(ev) \ {i}
  BY <1>2, <1>3 DEF Live
<1>5. Parents(ev, i) = {} /\ Sources(ev, i) = {}
  BY NoParents DEF Graph, HasSource
<1>6. \A j \in Ids : i \notin DOMAIN ev[j].kids /\ i \notin DOMAIN ev[j].outs
  BY <1>5, ParentsOf
<1>7. ASSUME NEW j \in Live(n)
      PROVE  Parents(n, j) = Parents(ev, j) \ {i} /\ Sources(n, j) = Sources(ev, j) \ {i}
  BY <1>2, <1>3, <1>4, LiveIds DEF Parents, Sources
<1>8. \A j \in Ids : DOMAIN ev[j].kids \subseteq Live(n) /\ DOMAIN ev[j].outs \subseteq Live(n)
  BY <1>4, <1>6 DEF Graph
<1>9. \A j \in Ids : DOMAIN n[j].kids \subseteq Live(n) /\ DOMAIN n[j].outs \subseteq Live(n)
  BY <1>2, <1>3, <1>8
<1>10. \A j \in Ids : n[j].k = "free" => n[j] = Free
  <2> TAKE j \in Ids
  <2>1. ASSUME j # i, n[j].k = "free"
        PROVE  n[j] = Free
    <3>1. ev[j].k = "free" /\ j \notin Live(ev)
      BY <1>2, <2>1 DEF Live
    <3>2. j \notin DOMAIN ev[i].kids /\ j \notin DOMAIN ev[i].outs /\ ev[j] = Free
      BY <1>1, <3>1 DEF Graph
    <3>3. n[j].k = ev[j].k /\ n[j].dom = ev[j].dom /\ n[j].core = ev[j].core /\ n[j].min = ev[j].min
          /\ n[j].pre = ev[j].pre /\ n[j].post = ev[j].post /\ n[j].zll = ev[j].zll /\ n[j].sd = ev[j].sd
          /\ n[j].ps = ev[j].ps /\ n[j].qs = ev[j].qs /\ n[j].kids = ev[j].kids /\ n[j].outs = ev[j].outs
          /\ (n[j].called <=> ev[j].called) /\ n[j].np = ev[j].np /\ n[j].cyc = ev[j].cyc /\ n[j].due = ev[j].due
          /\ n[j].done = ev[j].done
      BY <2>1, <3>2 DEF Heard
    <3>4. n[j] \in Events /\ ev[j] \in Events
      BY <1>1, <1>2
    <3> QED
      BY <3>2, <3>3, <3>4 DEF Events
  <2> QED
    BY <1>2, <2>1
<1>11. \A j \in Live(n) : n[j].dom \in Domains /\ n[j].core \in Cores /\ n[j].sd \in Domains
  BY <1>2, <1>4, LiveIds DEF Graph
<1>12. ASSUME NEW j \in Live(n)
       PROVE  n[j].np = Cardinality(Parents(n, j))
  <2> DEFINE A == Parents(ev, j)
  <2>1. j \in Ids \ {i} /\ j \in Live(ev) /\ ev[j].np = Cardinality(A) /\ Parents(n, j) = A \ {i}
    BY <1>4, <1>7, LiveIds DEF Graph
  <2>2. IsFiniteSet(A) /\ (i \in A <=> j \in DOMAIN ev[i].kids)
    BY LiveIds, IdsFinite DEF Parents
  <2>3. i \in A => Cardinality(A \ {i}) = Cardinality(A) - 1
    BY <2>2, FS_RemoveElement
  <2>4. i \notin A => A \ {i} = A
    OBVIOUS
  <2> HIDE DEF A
  <2> QED
    BY <1>2, <2>1, <2>2, <2>3, <2>4
<1>13. ASSUME NEW j \in Live(n)
       PROVE  HasSource(n, j)
  <2>1. j \in Ids \ {i} /\ j \in Live(ev) /\ HasSource(ev, j) /\ Sources(n, j) = Sources(ev, j) \ {i}
    BY <1>4, <1>7, LiveIds DEF Graph
  <2>2. CASE j \in DOMAIN ev[i].outs
    <3>1. i \in Sources(ev, j)
      BY <2>2 DEF Sources
    <3>2. Sources(n, j) = {} /\ n[j].called
      BY <1>2, <2>1, <2>2, <3>1 DEF HasSource
    <3> QED
      BY <3>2 DEF HasSource
  <2>3. CASE j \notin DOMAIN ev[i].outs
    <3>1. i \notin Sources(ev, j)
      BY <2>3 DEF Sources
    <3>2. Sources(n, j) = Sources(ev, j) /\ (n[j].called <=> ev[j].called) /\ n[j].k = ev[j].k
      BY <1>2, <2>1, <2>3, <3>1
    <3> QED
      BY <2>1, <3>2 DEF HasSource
  <2> QED
    BY <2>2, <2>3
<1>14. Graph(n)
  BY <1>2, <1>9, <1>10, <1>11, <1>12, <1>13 DEF Graph
<1>15. \A j \in DOMAIN ev[i].outs : ev[j].k = "xing" /\ ~ev[j].called
  <2> TAKE j \in DOMAIN ev[i].outs
  <2>1. i \in Sources(ev, j) /\ j \in Live(ev)
    BY <1>1 DEF Sources, Graph
  <2> QED
    BY <2>1 DEF Graph, HasSource
<1> QED
  BY <1>1, <1>4, <1>6, <1>7, <1>8, <1>14, <1>15

-----------------------------------------------------------------------------
(* The queues: who waits for nobody is in the queue of its domain, once,   *)
(* or is one of the running crossings R.                                   *)
Queues == [Domains -> SUBSET (Int \X Ids)]
Waiting(ev, q, R) ==
  /\ q \in Queues
  /\ R \subseteq Live(ev) /\ \A i \in R : ev[i].np = 0
  /\ \A d \in Domains : \A x \in q[d] : /\ x[2] \in Live(ev) /\ x[2] \notin R
                                     /\ ev[x[2]].np = 0 /\ ev[x[2]].dom = d
  /\ \A d \in Domains : \A x, y \in q[d] : x[2] = y[2] => x = y
  /\ \A i \in Live(ev) : i \notin R /\ ev[i].np = 0 =>
       ev[i].dom \in Domains /\ \E x \in q[ev[i].dom] : x[2] = i

(* An entry is put in a queue, and taken out.                              *)
Put(q, d, x)  == [q EXCEPT ![d] = @ \cup {x}]
Drop(q, d, x) == [q EXCEPT ![d] = @ \ {x}]

LEMMA PutIs ==
  ASSUME NEW q \in Queues, NEW d \in Domains, NEW x \in Int \X Ids
  PROVE  /\ Put(q, d, x) \in Queues
         /\ \A e \in Domains : Put(q, d, x)[e] = IF e = d THEN q[e] \cup {x} ELSE q[e]
  BY DEF Put, Queues

LEMMA DropIs ==
  ASSUME NEW q \in Queues, NEW d \in Domains, NEW x
  PROVE  /\ Drop(q, d, x) \in Queues
         /\ \A e \in Domains : Drop(q, d, x)[e] = IF e = d THEN q[e] \ {x} ELSE q[e]
  BY DEF Drop, Queues

LEMMA Waits ==
  ASSUME NEW ev, NEW q, NEW R, Waiting(ev, q, R), NEW d \in Domains, NEW x \in q[d]
  PROVE  /\ x \in Int \X Ids /\ x[1] \in Int /\ x[2] \in Ids
         /\ x[2] \in Live(ev) /\ x[2] \notin R /\ ev[x[2]].np = 0 /\ ev[x[2]].dom = d
         /\ \A y \in q[d] : x[2] = y[2] => x = y
<1>1. x \in Int \X Ids
  BY DEF Waiting, Queues
<1> QED
  BY <1>1 DEF Waiting

(* A new event x that waits for somebody, and one that is queued.          *)
LEMMA WaitingGrows ==
  ASSUME NEW ev, NEW q, NEW R, Waiting(ev, q, R), NEW x \in Ids, x \notin Live(ev),
         NEW n, Live(n) = Live(ev) \cup {x},
         \A j \in Live(ev) : n[j].np = ev[j].np /\ n[j].dom = ev[j].dom
  PROVE  /\ n[x].np # 0 => Waiting(n, q, R)
         /\ \A c \in Int : n[x].np = 0 /\ n[x].dom \in Domains =>
              Waiting(n, Put(q, n[x].dom, <<c, x>>), R)
<1>1. ASSUME n[x].np # 0
      PROVE  Waiting(n, q, R)
  BY <1>1 DEF Waiting
<1>2. ASSUME NEW c \in Int, n[x].np = 0, n[x].dom \in Domains
      PROVE  Waiting(n, Put(q, n[x].dom, <<c, x>>), R)
  <2> DEFINE u == Put(q, n[x].dom, <<c, x>>)
             new == <<c, x>>
  <2>1. q \in Queues /\ new \in Int \X Ids /\ new[2] = x
    BY DEF Waiting
  <2>2. u \in Queues /\ \A d \in Domains : u[d] = IF d = n[x].dom THEN q[d] \cup {new} ELSE q[d]
    <3> DEFINE d == n[x].dom
    <3>1. q \in Queues /\ d \in Domains /\ new \in Int \X Ids /\ u = Put(q, d, new)
      BY <1>2, <2>1
    <3> HIDE DEF d, new, u
    <3>2. Put(q, d, new) \in Queues /\ \A e \in Domains : Put(q, d, new)[e] = IF e = d THEN q[e] \cup {new} ELSE q[e]
      BY ONLY <3>1 DEF Put, Queues
    <3> QED
      BY <3>1, <3>2 DEF d
  <2> HIDE DEF u, new
  <2>3. \A d \in Domains : \A y \in q[d] : y[2] # x
    BY DEF Waiting
  <2>4. R \subseteq Live(n) /\ x \notin R /\ \A i \in R : n[i].np = 0
    BY DEF Waiting
  <2>5. \A d \in Domains : \A y \in u[d] : y[2] \in Live(n) /\ y[2] \notin R /\ n[y[2]].np = 0 /\ n[y[2]].dom = d
    <3> TAKE d \in Domains
    <3> TAKE y \in u[d]
    <3>1. CASE y \in q[d]
      <4>1. y[2] \in Live(ev) /\ y[2] \notin R /\ ev[y[2]].np = 0 /\ ev[y[2]].dom = d
        BY <3>1, Waits
      <4> QED
        BY <4>1
    <3>2. CASE y = new /\ d = n[x].dom
      BY <1>2, <2>1, <2>4, <3>2
    <3> QED
      BY <2>2, <3>1, <3>2
  <2>6. \A d \in Domains : \A y, z \in u[d] : y[2] = z[2] => y = z
    <3> TAKE d \in Domains
    <3> TAKE y, z \in u[d]
    <3> HAVE y[2] = z[2]
    <3>1. CASE y \in q[d] /\ z \in q[d]
      BY <3>1, Waits
    <3>2. y \in q[d] \cup {new} /\ z \in q[d] \cup {new}
      BY <2>2
    <3>3. y = new => z \notin q[d]
      BY <2>1, <2>3
    <3>4. z = new => y \notin q[d]
      BY <2>1, <2>3
    <3> QED
      BY <3>1, <3>2, <3>3, <3>4
  <2>7. \A i \in Live(n) : i \notin R /\ n[i].np = 0 => n[i].dom \in Domains /\ \E y \in u[n[i].dom] : y[2] = i
    <3> SUFFICES ASSUME NEW i \in Live(n), i \notin R, n[i].np = 0
                 PROVE  n[i].dom \in Domains /\ \E y \in u[n[i].dom] : y[2] = i
      OBVIOUS
    <3>1. CASE i = x
      BY <1>2, <2>1, <2>2, <3>1
    <3>2. CASE i # x
      <4>1. i \in Live(ev) /\ ev[i].np = 0 /\ n[i].dom = ev[i].dom
        BY <3>2
      <4>3. ev[i].dom \in Domains /\ \E y \in q[ev[i].dom] : y[2] = i
        BY <4>1 DEF Waiting
      <4>2. PICK y \in q[ev[i].dom] : y[2] = i
        BY <4>3
      <4> QED
        BY <2>2, <4>1, <4>2, <4>3
    <3> QED
      BY <3>1, <3>2
  <2>8. Waiting(n, u, R)
    BY <2>2, <2>4, <2>5, <2>6, <2>7 DEF Waiting
  <2> QED
    BY <2>8 DEF u
<1> QED
  BY <1>1, <1>2

(* Event x is taken from its queue, to run.                                *)
LEMMA WaitingTake ==
  ASSUME NEW ev, NEW q, NEW R, Waiting(ev, q, R), NEW d \in Domains, NEW x \in q[d]
  PROVE  /\ Waiting(ev, Drop(q, d, x), R \cup {x[2]})
         /\ x[1] \in Int /\ x[2] \in Live(ev) /\ x[2] \notin R /\ ev[x[2]].np = 0 /\ ev[x[2]].dom = d
<1> DEFINE u == Drop(q, d, x)
<1>1. q \in Queues /\ x \in Int \X Ids
  BY DEF Waiting, Queues
<1>2. u \in Queues /\ \A e \in Domains : u[e] = IF e = d THEN q[e] \ {x} ELSE q[e]
  <2>1. q \in Queues
    BY <1>1
  <2> QED
    BY ONLY <2>1, d \in Domains, DropIs
<1> HIDE DEF u
<1>3. x[1] \in Int /\ x[2] \in Live(ev) /\ x[2] \notin R /\ ev[x[2]].np = 0 /\ ev[x[2]].dom = d
  BY <1>1 DEF Waiting
<1>4. \A e \in Domains : \A y \in u[e] : y[2] # x[2]
  <2> TAKE e \in Domains
  <2> TAKE y \in u[e]
  <2>1. y \in q[e]
    BY <1>2
  <2>2. ev[y[2]].dom = e /\ ev[x[2]].dom = d /\ \A z \in q[d] : x[2] = z[2] => x = z
    BY <2>1, Waits
  <2> QED
    BY <1>2, <2>1, <2>2
<1>5. \A e \in Domains : \A y \in u[e] : y[2] \in Live(ev) /\ y[2] \notin R \cup {x[2]} /\ ev[y[2]].np = 0 /\ ev[y[2]].dom = e
  <2> TAKE e \in Domains
  <2> TAKE y \in u[e]
  <2>1. y \in q[e]
    BY <1>2
  <2> QED
    BY <1>4, <2>1, Waits
<1>6. \A e \in Domains : \A y, z \in u[e] : y[2] = z[2] => y = z
  <2> TAKE e \in Domains
  <2> TAKE y, z \in u[e]
  <2>1. y \in q[e] /\ z \in q[e]
    BY <1>2
  <2> QED
    BY <2>1, Waits
<1>7. \A i \in Live(ev) : i \notin R \cup {x[2]} /\ ev[i].np = 0 => ev[i].dom \in Domains /\ \E y \in u[ev[i].dom] : y[2] = i
  <2> SUFFICES ASSUME NEW i \in Live(ev), i \notin R \cup {x[2]}, ev[i].np = 0
               PROVE  ev[i].dom \in Domains /\ \E y \in u[ev[i].dom] : y[2] = i
    OBVIOUS
  <2>0. ev[i].dom \in Domains /\ \E y \in q[ev[i].dom] : y[2] = i
    BY DEF Waiting
  <2>1. PICK y \in q[ev[i].dom] : y[2] = i
    BY <2>0
  <2>2. ev[i].dom \in Domains /\ y # x
    BY <2>0, <2>1
  <2> QED
    BY <1>2, <2>1, <2>2
<1>9. R \cup {x[2]} \subseteq Live(ev) /\ \A i \in R \cup {x[2]} : ev[i].np = 0
  BY <1>3 DEF Waiting
<1>8. Waiting(ev, u, R \cup {x[2]})
  BY <1>2, <1>9, <1>5, <1>6, <1>7 DEF Waiting
<1> QED
  BY <1>3, <1>8 DEF u

(* A crossing that ran goes back to the queue.                             *)
LEMMA WaitingAgain ==
  ASSUME NEW ev, NEW q, NEW R, Waiting(ev, q, R), NEW i \in R, ev[i].dom \in Domains, NEW c \in Int,
         NEW n, Live(n) = Live(ev), \A j \in Live(ev) : n[j].np = ev[j].np /\ n[j].dom = ev[j].dom
  PROVE  Waiting(n, Put(q, ev[i].dom, <<c, i>>), R \ {i})
<1> DEFINE u == Put(q, ev[i].dom, <<c, i>>)
           new == <<c, i>>
<1>1. q \in Queues /\ i \in Ids /\ i \in Live(ev) /\ ev[i].np = 0
  BY LiveIds DEF Waiting
<1>2. new \in Int \X Ids /\ new[2] = i
  BY <1>1
<1>3. u \in Queues /\ \A d \in Domains : u[d] = IF d = ev[i].dom THEN q[d] \cup {new} ELSE q[d]
  <2> DEFINE d == ev[i].dom
  <2>1. q \in Queues /\ d \in Domains /\ new \in Int \X Ids /\ u = Put(q, d, new)
    BY <1>1, <1>2
  <2> HIDE DEF d, new, u
  <2>2. Put(q, d, new) \in Queues /\ \A e \in Domains : Put(q, d, new)[e] = IF e = d THEN q[e] \cup {new} ELSE q[e]
    BY ONLY <2>1 DEF Put, Queues
  <2> QED
    BY <2>1, <2>2 DEF d
<1> HIDE DEF u, new
<1>4. \A d \in Domains : \A y \in q[d] : y[2] # i
  BY Waits
<1>5. R \ {i} \subseteq Live(n) /\ \A j \in R \ {i} : n[j].np = 0
  BY DEF Waiting
<1>6. \A d \in Domains : \A y \in u[d] : y[2] \in Live(n) /\ y[2] \notin R \ {i} /\ n[y[2]].np = 0 /\ n[y[2]].dom = d
  <2> TAKE d \in Domains
  <2> TAKE y \in u[d]
  <2>1. CASE y \in q[d]
    BY <2>1, Waits
  <2>2. CASE y = new /\ d = ev[i].dom
    BY <1>1, <1>2, <2>2
  <2> QED
    BY <1>3, <2>1, <2>2
<1>7. \A d \in Domains : \A y, z \in u[d] : y[2] = z[2] => y = z
  <2> TAKE d \in Domains
  <2> TAKE y, z \in u[d]
  <2> HAVE y[2] = z[2]
  <2>1. CASE y \in q[d] /\ z \in q[d]
    BY <2>1, Waits
  <2>2. y \in q[d] \cup {new} /\ z \in q[d] \cup {new}
    BY <1>3
  <2>3. y = new => z \notin q[d]
    BY <1>2, <1>4
  <2>4. z = new => y \notin q[d]
    BY <1>2, <1>4
  <2> QED
    BY <2>1, <2>2, <2>3, <2>4
<1>8. \A j \in Live(n) : j \notin R \ {i} /\ n[j].np = 0 => n[j].dom \in Domains /\ \E y \in u[n[j].dom] : y[2] = j
  <2> SUFFICES ASSUME NEW j \in Live(n), j \notin R \ {i}, n[j].np = 0
               PROVE  n[j].dom \in Domains /\ \E y \in u[n[j].dom] : y[2] = j
    OBVIOUS
  <2>1. CASE i = j
    BY <1>1, <1>2, <1>3, <2>1
  <2>2. CASE i # j
    <3>2. ev[j].dom \in Domains /\ \E y \in q[ev[j].dom] : y[2] = j
      BY <2>2 DEF Waiting
    <3>1. PICK y \in q[ev[j].dom] : y[2] = j
      BY <3>2
    <3> QED
      BY <1>3, <3>1, <3>2
  <2> QED
    BY <2>1, <2>2
<1>9. Waiting(n, u, R \ {i})
  BY <1>3, <1>5, <1>6, <1>7, <1>8 DEF Waiting
<1> QED
  BY <1>9 DEF u

(* The running event i is done: its children that wait for nobody now are  *)
(* queued.                                                                 *)
Readied(ev, i, n, d) == {<<n[j].cyc + n[j].pre, j>> : j \in {x \in {y \in DOMAIN ev[i].kids : n[y].np = 0} : n[x].dom = d}}
LEMMA WaitingHear ==
  ASSUME NEW ev, NEW q, NEW R, Graph(ev), Waiting(ev, q, R), NEW i \in R, NEW end \in Int,
         ev[i].k = "xing" => ev[i].called, NEW n, Heard(ev, i, end, n)
  PROVE  Waiting(n, [d \in Domains |-> q[d] \cup Readied(ev, i, n, d)], R \ {i})
<1> DEFINE u == [d \in Domains |-> q[d] \cup Readied(ev, i, n, d)]
           K == DOMAIN ev[i].kids
<1>1. q \in Queues /\ i \in Ids /\ i \in Live(ev) /\ ev[i].np = 0
  BY LiveIds DEF Waiting
<1>2. Graph(n) /\ Live(n) = Live(ev) \ {i} /\ K \subseteq Live(n)
  BY <1>1, HearGraph
<1> HIDE DEF K
<1>16. \A j \in Live(n) : n[j].cyc + n[j].pre \in Int /\ j \in Ids /\ ev[j].np \in Nat
  <2> TAKE j \in Live(n)
  <2>1. j \in Ids
    BY LiveIds
  <2>2. n[j] \in Events /\ ev[j] \in Events
    BY <2>1, <1>2 DEF Graph
  <2>3. n[j].cyc \in Int /\ n[j].pre \in Int /\ ev[j].np \in Nat
    BY <2>2 DEF Events
  <2> QED
    BY <2>1, <2>3
<1>3. \A j \in Live(n) : /\ n[j].dom = ev[j].dom /\ n[j].dom \in Domains
                        /\ (j \in K => n[j].np = ev[j].np - 1) /\ (j \notin K => n[j].np = ev[j].np)
  <2> TAKE j \in Live(n)
  <2>1. j \in Ids \ {i} /\ n[j].dom \in Domains
    BY <1>2, LiveIds DEF Graph
  <2> QED
    BY <2>1 DEF Heard, K
<1>4. \A j \in K : j \in Live(ev) /\ ev[j].np # 0
  <2> TAKE j \in K
  <2>1. j \in Live(ev) /\ i \in Parents(ev, j)
    BY <1>1, <1>2 DEF Parents, K
  <2> QED
    BY <2>1, NoParents
<1>5. \A d \in Domains : \A y : y \in Readied(ev, i, n, d) <=>
         \E j \in K : n[j].np = 0 /\ n[j].dom = d /\ y = <<n[j].cyc + n[j].pre, j>>
  BY DEF Readied, K
<1>6. \A d \in Domains : u[d] = q[d] \cup Readied(ev, i, n, d)
  OBVIOUS
<1>7. \A d \in Domains : Readied(ev, i, n, d) \subseteq Int \X Ids
  <2> TAKE d \in Domains
  <2> SUFFICES ASSUME NEW y \in Readied(ev, i, n, d) PROVE y \in Int \X Ids
    OBVIOUS
  <2>1. PICK j \in K : y = <<n[j].cyc + n[j].pre, j>>
    BY <1>5
  <2>2. j \in Ids /\ n[j].cyc + n[j].pre \in Int
    BY <1>2, <1>16
  <2> QED
    BY <2>1, <2>2
<1>8. u \in Queues
  BY <1>1, <1>7 DEF Queues
<1> HIDE DEF u, K
<1>9. R \ {i} \subseteq Live(n) /\ \A j \in R : j \notin K
  BY <1>2, <1>4 DEF Waiting
<1>10. \A d \in Domains : \A y \in q[d] : y[2] \notin K /\ y[2] # i /\ y[2] \in Live(n)
  <2> TAKE d \in Domains
  <2> TAKE y \in q[d]
  <2>1. y[2] \in Live(ev) /\ y[2] \notin R /\ ev[y[2]].np = 0
    BY Waits
  <2> QED
    BY <1>2, <1>4, <2>1
<1>11. \A j \in R \ {i} : n[j].np = 0
  <2> TAKE j \in R \ {i}
  <2>1. j \in Live(n) /\ j \notin K /\ ev[j].np = 0
    BY <1>9 DEF Waiting
  <2> QED
    BY <1>3, <2>1
<1>12. \A d \in Domains : \A y \in u[d] : y[2] \in Live(n) /\ y[2] \notin R \ {i} /\ n[y[2]].np = 0 /\ n[y[2]].dom = d
  <2> TAKE d \in Domains
  <2> TAKE y \in u[d]
  <2>1. CASE y \in q[d]
    <3>1. y[2] \notin R /\ ev[y[2]].np = 0 /\ ev[y[2]].dom = d /\ y[2] \in Live(n) /\ y[2] \notin K
      BY <1>10, <2>1, Waits
    <3> QED
      BY <1>3, <3>1
  <2>2. CASE y \in Readied(ev, i, n, d)
    <3>1. PICK j \in K : n[j].np = 0 /\ n[j].dom = d /\ y = <<n[j].cyc + n[j].pre, j>>
      BY <1>5, <2>2
    <3> QED
      BY <1>2, <1>9, <3>1
  <2> QED
    BY <1>6, <2>1, <2>2
<1>13. \A d \in Domains : \A y, z \in u[d] : y[2] = z[2] => y = z
  <2> TAKE d \in Domains
  <2> TAKE y, z \in u[d]
  <2> HAVE y[2] = z[2]
  <2>1. CASE y \in q[d] /\ z \in q[d]
    BY <2>1, Waits
  <2>2. \A a \in Readied(ev, i, n, d) : a[2] \in K /\ a = <<n[a[2]].cyc + n[a[2]].pre, a[2]>>
    BY <1>5
  <2>3. CASE y \in Readied(ev, i, n, d) /\ z \in Readied(ev, i, n, d)
    BY <2>2, <2>3
  <2> QED
    BY <1>6, <1>10, <2>1, <2>2, <2>3
<1>14. \A j \in Live(n) : j \notin R \ {i} /\ n[j].np = 0 => n[j].dom \in Domains /\ \E y \in u[n[j].dom] : y[2] = j
  <2> SUFFICES ASSUME NEW j \in Live(n), j \notin R \ {i}, n[j].np = 0
               PROVE  n[j].dom \in Domains /\ \E y \in u[n[j].dom] : y[2] = j
    OBVIOUS
  <2>1. CASE j \in K
    <3>1. <<n[j].cyc + n[j].pre, j>> \in Readied(ev, i, n, n[j].dom)
      BY <1>3, <1>5, <2>1
    <3>2. (<<n[j].cyc + n[j].pre, j>>)[2] = j
      OBVIOUS
    <3> QED
      BY <1>3, <1>6, <3>1, <3>2
  <2>2. CASE j \notin K
    <3>0. n[j].np = ev[j].np
      BY <1>3, <2>2
    <3>1. j \in Live(ev) /\ j # i /\ ev[j].np = 0 /\ n[j].dom = ev[j].dom /\ ev[j].dom \in Domains
      BY <1>2, <1>3, <3>0
    <3>2. PICK y \in q[ev[j].dom] : y[2] = j
      BY <3>1 DEF Waiting
    <3> QED
      BY <1>6, <3>1, <3>2
  <2> QED
    BY <2>1, <2>2
<1>15. Waiting(n, u, R \ {i})
  BY <1>8, <1>9, <1>11, <1>12, <1>13, <1>14 DEF Waiting
<1> QED
  BY <1>15 DEF u

-----------------------------------------------------------------------------
(* The event heap: what each operation leaves of it.                       *)
IsHeap(s) ==
  /\ s = [ev |-> s.ev, q |-> s.q, last |-> s.last, bad |-> s.bad, late |-> s.late, cut |-> s.cut]
  /\ s.bad \in BOOLEAN /\ s.late \in BOOLEAN /\ s.cut \in BOOLEAN

LEMMA CheckIs ==
  ASSUME NEW s, IsHeap(s), NEW c \in BOOLEAN
  PROVE  LET n == Check(s, c)
         IN /\ IsHeap(n) /\ n.ev = s.ev /\ n.q = s.q /\ n.last = s.last
            /\ n.late = s.late /\ n.cut = s.cut /\ (n.bad <=> (s.bad \/ ~c))
<1> DEFINE b == s.bad \/ ~c
           n == Check(s, c)
<1>1. n = [s EXCEPT !.bad = b] /\ b \in BOOLEAN
  BY DEF Check
<1> HIDE DEF b, n
<1>2. IsHeap(n) /\ n.ev = s.ev /\ n.q = s.q /\ n.last = s.last /\ n.late = s.late /\ n.cut = s.cut /\ (n.bad <=> b)
  BY <1>1 DEF IsHeap
<1> QED
  BY <1>2 DEF b, n

LEMMA AddEventIs ==
  ASSUME NEW s, IsHeap(s), NEW i, NEW e, NEW P, NEW delay
  PROVE  LET n == AddEvent(s, i, e, P, delay)
         IN /\ IsHeap(n) /\ n.ev = Link(s.ev, i, e, P, delay) /\ n.q = s.q /\ n.last = s.last
            /\ n.late = s.late /\ n.cut = s.cut /\ (n.bad <=> (s.bad \/ ~(P \subseteq Live(s.ev))))
<1> DEFINE ev == Link(s.ev, i, e, P, delay)
           b == s.bad \/ ~(P \subseteq Live(s.ev))
           n == AddEvent(s, i, e, P, delay)
<1>1. n = [s EXCEPT !.bad = b, !.ev = ev] /\ b \in BOOLEAN
  BY DEF IsHeap, AddEvent
<1> HIDE DEF ev, b, n
<1>2. /\ IsHeap(n) /\ n.ev = ev /\ n.q = s.q /\ n.last = s.last
      /\ n.late = s.late /\ n.cut = s.cut /\ (n.bad <=> b)
  BY <1>1 DEF IsHeap
<1> QED
  BY <1>2 DEF ev, b, n

LEMMA EnqueueSyncedIs ==
  ASSUME NEW s, IsHeap(s), NEW i, NEW cycle
  PROVE  LET n == EnqueueSynced(s, i, cycle)
         IN /\ IsHeap(n) /\ n.ev = s.ev /\ n.last = s.last /\ n.late = s.late /\ n.cut = s.cut
            /\ n.q = Put(s.q, s.ev[i].dom, <<cycle, i>>)
            /\ (n.bad <=> (s.bad \/ ~(cycle >= lastLimit /\ s.ev[i].np = 0)))
<1> DEFINE c == (cycle >= lastLimit /\ s.ev[i].np = 0)
           k == Check(s, c)
           q == Put(s.q, s.ev[i].dom, <<cycle, i>>)
           n == EnqueueSynced(s, i, cycle)
<1>1. c \in BOOLEAN
  OBVIOUS
<1>2. n = [k EXCEPT !.q[s.ev[i].dom] = @ \cup {<<cycle, i>>}]
  BY DEF EnqueueSynced
<1> HIDE DEF c
<1>3. /\ IsHeap(k) /\ k.ev = s.ev /\ k.q = s.q /\ k.last = s.last
      /\ k.late = s.late /\ k.cut = s.cut /\ (k.bad <=> (s.bad \/ ~c))
  BY <1>1, CheckIs
<1> HIDE DEF k, n
<1>4. n = [k EXCEPT !.q = q]
  BY <1>2, <1>3 DEF Put
<1> HIDE DEF q
<1>5. IsHeap(n) /\ n.ev = k.ev /\ n.q = q /\ n.last = k.last /\ n.late = k.late /\ n.cut = k.cut /\ n.bad = k.bad
  BY <1>3, <1>4 DEF IsHeap
<1> QED
  BY <1>3, <1>5 DEF c, q, n

LEMMA EnqueueIs ==
  ASSUME NEW s, IsHeap(s), NEW D, NEW i, NEW cycle
  PROVE  LET n == Enqueue(s, D, i, cycle)
         IN /\ IsHeap(n) /\ n.ev = s.ev /\ n.last = s.last /\ n.late = s.late /\ n.cut = s.cut
            /\ n.q = Put(s.q, s.ev[i].dom, <<cycle, i>>)
            /\ (n.bad <=> (s.bad \/ ~(s.ev[i].np = 0 /\ cycle >= lastLimit /\ cycle >= D[s.ev[i].dom].cur)))
<1> DEFINE c == (s.ev[i].np = 0 /\ cycle >= lastLimit /\ cycle >= D[s.ev[i].dom].cur)
           k == Check(s, c)
           q == Put(s.q, s.ev[i].dom, <<cycle, i>>)
           n == Enqueue(s, D, i, cycle)
<1>1. c \in BOOLEAN
  OBVIOUS
<1>2. n = [k EXCEPT !.q[s.ev[i].dom] = @ \cup {<<cycle, i>>}]
  BY DEF Enqueue
<1> HIDE DEF c
<1>3. /\ IsHeap(k) /\ k.ev = s.ev /\ k.q = s.q /\ k.last = s.last
      /\ k.late = s.late /\ k.cut = s.cut /\ (k.bad <=> (s.bad \/ ~c))
  BY <1>1, CheckIs
<1> HIDE DEF k, n
<1>4. n = [k EXCEPT !.q = q]
  BY <1>2, <1>3 DEF Put
<1> HIDE DEF q
<1>5. IsHeap(n) /\ n.ev = k.ev /\ n.q = q /\ n.last = k.last /\ n.late = k.late /\ n.cut = k.cut /\ n.bad = k.bad
  BY <1>3, <1>4 DEF IsHeap
<1> QED
  BY <1>3, <1>5 DEF c, q, n

(* What the assertions of done ask, with D for dom.                        *)
DoneWell(s, D, i, end, n) ==
  LET e == s.ev[i]
      K == DOMAIN e.kids
  IN /\ \A j \in K : j \in Live(s.ev) /\ s.ev[j].np > 0
     /\ \A j \in {x \in K : n[x].np = 0} :
          n[j].cyc + n[j].pre >= lastLimit /\ n[j].cyc + n[j].pre >= D[n[j].dom].cur
     /\ \A j \in DOMAIN e.outs : ~s.ev[j].called /\ end + e.outs[j] >= D[s.ev[j].sd].cur

LEMMA DoneIs ==
  ASSUME NEW s, IsHeap(s), Graph(s.ev), s.q \in Queues, NEW D, NEW i \in Live(s.ev), NEW cycle
  PROVE  LET n == Done(s, D, i, cycle)
             e == s.ev[i]
             m == Hear(s.ev, i, cycle + e.post, DOMAIN e.kids, DOMAIN e.outs)
         IN /\ IsHeap(n) /\ n.ev = m /\ n.last = s.last /\ n.late = s.late /\ n.cut = s.cut
            /\ n.q = [d \in Domains |-> s.q[d] \cup Readied(s.ev, i, m, d)]
            /\ (n.bad <=> (s.bad \/ ~DoneWell(s, D, i, cycle + e.post, m)))
<1> DEFINE e == s.ev[i]
           K == DOMAIN e.kids
           O == DOMAIN e.outs
           end == cycle + e.post
           m == Hear(s.ev, i, end, K, O)
           b == s.bad \/ ~DoneWell(s, D, i, end, m)
           u == [d \in Domains |-> s.q[d] \cup Readied(s.ev, i, m, d)]
           n == Done(s, D, i, cycle)
<1>1. Ids \cap K = K /\ Ids \cap O = O
  <2>1. i \in Ids
    BY LiveIds
  <2> QED
    BY <2>1, LiveIds DEF Graph
<1>2. n = [s EXCEPT !.bad = b, !.ev = m, !.q = u]
  <2>1. n = Tell(s, D, i, cycle, Ids)
    BY DEF Done
  <2> HIDE DEF n
  <2>2. Ids \cap DOMAIN s.ev[i].kids = K /\ Ids \cap DOMAIN s.ev[i].outs = O
    BY <1>1
  <2> QED
    BY <2>1, <2>2 DEF Tell, DoneWell, Readied, Queues
<1>3. b \in BOOLEAN
  BY DEF IsHeap
<1> HIDE DEF b, m, u, n
<1>4. IsHeap(n) /\ n.ev = m /\ n.q = u /\ n.last = s.last /\ n.late = s.late /\ n.cut = s.cut /\ (n.bad <=> b)
  BY <1>2, <1>3 DEF IsHeap
<1> QED
  BY <1>4 DEF b, m, u, n

-----------------------------------------------------------------------------
(* Operations of the bound phase.  Good holds of a heap between two of     *)
(* them.                                                                   *)
Recorders ==
  [st : {"HALTED", "RUNNING", "DRAINING"}, last : Ids \cup {NoEv}, gap : Int, cur : Int, simZll : Int,
   simStart : Int, slack : Int, unhalted : Int, fut : SUBSET [zll : Int, ev : Ids \cup {NoEv}]]
Lasts == [Cores \X Domains \X Domains -> [cyc : Int, ev : Ids \cup {NoEv}]]
Good(s, R) == IsHeap(s) /\ ~s.bad /\ s.last \in Lasts /\ Graph(s.ev) /\ Waiting(s.ev, s.q, R)

(* What n keeps of ev, and the event it adds.                              *)
Grows(ev, n, x) ==
  /\ x \in Ids /\ x \notin Live(ev) /\ Live(n) = Live(ev) \cup {x}
  /\ \A j \in Live(ev) : Alike(n[j], ev[j]) /\ n[j].np = ev[j].np

LEMMA GrowsRoom ==
  ASSUME NEW ev, NEW n, NEW x, Grows(ev, n, x)
  PROVE  FreeIds(n) = FreeIds(ev) \ {x} /\ Cardinality(FreeIds(n)) = Cardinality(FreeIds(ev)) - 1
<1>1. FreeIds(n) = FreeIds(ev) \ {x} /\ x \in FreeIds(ev)
  BY LiveIds DEF Grows, FreeIds
<1>2. IsFiniteSet(FreeIds(ev))
  BY LiveIds, IdsFinite
<1> QED
  BY <1>1, <1>2, FS_RemoveElement

LEMMA RoomFor ==
  ASSUME NEW ev, NEW k \in Nat, Cardinality(FreeIds(ev)) > k
  PROVE  FreeIds(ev) # {}
<1>1. Cardinality({}) = 0
  BY FS_EmptySet
<1> QED
  BY <1>1

LEMMA SomeParents ==
  ASSUME NEW P, P \subseteq Ids
  PROVE  Cardinality(P) = 0 <=> P = {}
  BY IdsFinite, FS_EmptySet

LEMMA LinkGrows ==
  ASSUME NEW ev, Graph(ev), NEW i \in Ids, i \notin Live(ev), NEW e, Plain(e),
         NEW P, P \subseteq Live(ev), NEW delay \in [P -> Int], NEW m, m = Link(ev, i, e, P, delay)
  PROVE  /\ Graph(m) /\ Grows(ev, m, i) /\ Live(m) = Live(ev) \cup {i}
         /\ m[i].np = Cardinality(P) /\ m[i].dom = e.dom
         /\ \A j \in Live(ev) : m[j].np = ev[j].np /\ m[j].dom = ev[j].dom
<1>1. P \subseteq Ids /\ i \notin P /\ ev \in [Ids -> Events]
  BY LiveIds DEF Graph
<1>4. Graph(m) /\ Live(m) = Live(ev) \cup {i}
  BY LinkGraph
<1>5. /\ m[i].np = Cardinality(P) /\ Alike(m[i], e)
      /\ \A j \in Ids \ {i} : Alike(m[j], ev[j]) /\ m[j].np = ev[j].np
  BY <1>1, LinkIs DEF Plain
<1>6. Grows(ev, m, i)
  BY <1>4, <1>5, LiveIds DEF Grows
<1> QED
  BY <1>4, <1>5, <1>6 DEF Grows, Alike

(* A new event with parents, and one without that is queued.               *)
LEMMA GoodAdd ==
  ASSUME NEW R, NEW s, Good(s, R), NEW i \in Ids, i \notin Live(s.ev), NEW e, Plain(e),
         NEW P, P # {}, NEW delay \in [P -> Int],
         NEW n, n = AddEvent(s, i, e, P, delay), ~n.bad
  PROVE  Good(n, R) /\ Grows(s.ev, n.ev, i) /\ P \subseteq Live(s.ev) /\ n.ev = Link(s.ev, i, e, P, delay)
<1>1. /\ IsHeap(n) /\ n.ev = Link(s.ev, i, e, P, delay) /\ n.q = s.q /\ n.last = s.last
      /\ (n.bad <=> (s.bad \/ ~(P \subseteq Live(s.ev))))
  BY AddEventIs DEF Good
<1>2. P \subseteq Live(s.ev) /\ Graph(s.ev) /\ Waiting(s.ev, s.q, R) /\ s.ev \in [Ids -> Events]
  BY <1>1 DEF Good, Graph
<1>3. P \subseteq Ids /\ i \notin P
  BY <1>2, LiveIds
<1> DEFINE m == Link(s.ev, i, e, P, delay)
<1>4. /\ Graph(m) /\ Grows(s.ev, m, i) /\ Live(m) = Live(s.ev) \cup {i}
      /\ m[i].np = Cardinality(P)
      /\ \A j \in Live(s.ev) : m[j].np = s.ev[j].np /\ m[j].dom = s.ev[j].dom
  <2> HIDE DEF m
  <2>1. m = Link(s.ev, i, e, P, delay)
    BY DEF m
  <2> QED
    BY <1>2, <2>1, LinkGrows
<1> HIDE DEF m
<1>7. m[i].np # 0
  BY <1>3, <1>4, SomeParents
<1>9. Waiting(m, s.q, R)
  BY <1>2, <1>4, <1>7, WaitingGrows
<1>10. n.ev = m
  BY <1>1 DEF m
<1> QED
  BY <1>1, <1>2, <1>4, <1>9, <1>10 DEF Good

LEMMA GoodSynced ==
  ASSUME NEW R, NEW s, Good(s, R), NEW i \in Ids, i \notin Live(s.ev), NEW e, Plain(e),
         NEW cycle \in Int,
         NEW a, a = AddEvent(s, i, e, {}, Nobody), NEW n, n = EnqueueSynced(a, i, cycle), ~n.bad
  PROVE  /\ Good(n, R) /\ Grows(s.ev, n.ev, i) /\ n.ev = Link(s.ev, i, e, {}, Nobody)
         /\ n.q = Put(s.q, e.dom, <<cycle, i>>) /\ n.last = s.last /\ cycle >= lastLimit
<1>1. /\ IsHeap(a) /\ a.ev = Link(s.ev, i, e, {}, Nobody) /\ a.q = s.q /\ a.last = s.last
  BY AddEventIs DEF Good
<1>2. Graph(s.ev) /\ Waiting(s.ev, s.q, R) /\ s.ev \in [Ids -> Events] /\ Nobody \in [{} -> Int]
  BY DEF Good, Graph, Nobody
<1> DEFINE P == {}
           delay == Nobody
           m == Link(s.ev, i, e, P, delay)
<1>3. P \subseteq Live(s.ev) /\ P \subseteq Ids /\ i \notin P /\ delay \in [P -> Int]
  BY <1>2
<1> HIDE DEF P, delay
<1>4. /\ Graph(m) /\ Grows(s.ev, m, i) /\ Live(m) = Live(s.ev) \cup {i}
      /\ m[i].np = Cardinality(P) /\ m[i].dom = e.dom
      /\ \A j \in Live(s.ev) : m[j].np = s.ev[j].np /\ m[j].dom = s.ev[j].dom
  <2> HIDE DEF m
  <2>1. m = Link(s.ev, i, e, P, delay)
    BY DEF m
  <2> QED
    BY <1>2, <1>3, <2>1, LinkGrows
<1> HIDE DEF m
<1>7. m[i].np = 0
  BY <1>3, <1>4, SomeParents DEF P
<1>9. Waiting(m, Put(s.q, m[i].dom, <<cycle, i>>), R)
  <2>1. m[i].dom \in Domains
    BY <1>4 DEF Plain
  <2>2. \A c \in Int : m[i].np = 0 /\ m[i].dom \in Domains => Waiting(m, Put(s.q, m[i].dom, <<c, i>>), R)
    BY <1>2, <1>4, WaitingGrows
  <2> QED
    BY <1>7, <2>1, <2>2
<1>10. a.ev = m
  BY <1>1 DEF m, P, delay
<1>11. /\ IsHeap(n) /\ n.ev = a.ev /\ n.last = a.last
       /\ n.q = Put(a.q, a.ev[i].dom, <<cycle, i>>) /\ cycle >= lastLimit
  BY <1>1, EnqueueSyncedIs
<1>12. n.q = Put(s.q, m[i].dom, <<cycle, i>>)
  BY <1>1, <1>10, <1>11
<1> QED
  BY <1>1, <1>4, <1>9, <1>10, <1>11, <1>12 DEF Good

-----------------------------------------------------------------------------
(* addIssueEvent.                                                          *)
LEMMA NatMin ==
  ASSUME NEW T, T \subseteq Nat, T # {}
  PROVE  \E m \in T : \A n \in T : m <= n
<1> DEFINE Less == {ss \in Nat \X Nat : ss[1] < ss[2]}
<1>1. IsWellFoundedOn(Less, Nat)
  BY NatLessThanWellFounded DEF OpToRel
<1>2. \A x, y \in Nat : y < x => <<y, x>> \in Less
  OBVIOUS
<1> HIDE DEF Less
<1>3. PICK m \in T : \A n \in T : ~(<<n, m>> \in Less)
  BY <1>1, WFMin
<1>4. \A n \in T : ~(n < m)
  BY <1>2, <1>3
<1> QED
  BY <1>4

Prior(r, z) == {f \in r.fut : f.zll < z}
Issued(r, i, z) == [r EXCEPT !.last = i, !.fut = @ \ Prior(r, z)]
Awaited(r, z) == {f \in Prior(r, z) : f.ev # NoEv}
LastAwaited(r, z) == CHOOSE y \in {f.zll : f \in Awaited(r, z)} : \A f \in Awaited(r, z) : f.zll <= y
MaxAwaited(r, z) == IF Awaited(r, z) = {} THEN 0 ELSE LastAwaited(r, z)
IssuePre(r, z) == IF MaxAwaited(r, z) > 0 THEN z - MaxAwaited(r, z) ELSE 0
IssueParents(r, z) == {r.last} \cup {f.ev : f \in Awaited(r, z)}
IssueDelays(ev, r, z) ==
  [p \in IssueParents(r, z) |-> IF p = r.last THEN IssueDelay(z, ev[r.last].zll, IssuePre(r, z)) ELSE 0]
IssueWell(ev, r, z) == z >= ev[r.last].zll /\ \A f \in Awaited(r, z) : f.zll >= ev[r.last].zll
Issue(r, c, cyc) == Event("issue", HomeOf[c], c, cyc, IssuePre(r, cyc - r.gap), 0, cyc - r.gap)

LEMMA IssuePreIs ==
  ASSUME NEW r \in Recorders, NEW z \in Int
  PROVE  /\ IssuePre(r, z) \in Nat
         /\ \/ IssuePre(r, z) = 0
            \/ \E f \in Awaited(r, z) : IssuePre(r, z) = z - f.zll
<1> DEFINE A == Awaited(r, z)
           T == {z - f.zll : f \in A}
<1>1. \A f \in A : f.zll \in Int /\ f.zll < z
  BY DEF Awaited, Prior, Recorders
<1>2. T \subseteq Nat
  BY <1>1
<1> HIDE DEF A
<1>3. ASSUME A # {}
      PROVE  \E f \in A : MaxAwaited(r, z) = f.zll
  <2>1. T # {}
    BY <1>3
  <2> HIDE DEF T
  <2>2. PICK m \in T : \A n \in T : m <= n
    BY <1>2, <2>1, NatMin
  <2>3. PICK f \in A : m = z - f.zll
    BY <2>2 DEF T
  <2>4. \A g \in A : z - f.zll <= z - g.zll
    BY <2>2, <2>3 DEF T
  <2>5. \A g \in A : g.zll <= f.zll
    BY <1>1, <2>3, <2>4
  <2>6. \E y \in {g.zll : g \in A} : \A g \in A : g.zll <= y
    BY <2>5
  <2>7. (CHOOSE y \in {g.zll : g \in A} : \A g \in A : g.zll <= y) \in {g.zll : g \in A}
    BY <2>6
  <2>8. LastAwaited(r, z) \in {g.zll : g \in A}
    BY <2>7 DEF LastAwaited, A
  <2> QED
    BY <1>3, <2>8 DEF MaxAwaited, A
<1>4. CASE A = {}
  BY <1>4 DEF IssuePre, MaxAwaited, A
<1>5. CASE A # {}
  <2>1. PICK f \in A : MaxAwaited(r, z) = f.zll
    BY <1>3, <1>5
  <2>2. f.zll \in Int /\ f.zll < z
    BY <1>1
  <2> QED
    BY <2>1, <2>2 DEF IssuePre, A
<1> QED
  BY <1>4, <1>5

LEMMA AddIssueIs ==
  ASSUME NEW s, IsHeap(s), NEW r, NEW c, NEW cyc, NEW z, z = cyc - r.gap,
         NEW a, a = AddIssue(s, r, c, cyc)
  PROVE     /\ a.r = Issued(r, NewId(s.ev), z)
            /\ a.s = AddEvent(Check(s, IssueWell(s.ev, r, z)), NewId(s.ev), Issue(r, c, cyc),
                             IssueParents(r, z), IssueDelays(s.ev, r, z))
  BY DEF AddIssue, IssueWell, Issue, IssueParents, IssueDelays, IssuePre, MaxAwaited, LastAwaited, Awaited, Prior, Issued

LEMMA GoodIssue ==
  ASSUME NEW R, NEW s, Good(s, R), FreeIds(s.ev) # {}, NEW c \in Cores, NEW cyc \in Int,
         NEW r \in Recorders,
         NEW a, a = AddIssue(s, r, c, cyc), ~a.s.bad
  PROVE  LET i == NewId(s.ev)
             z == cyc - r.gap
         IN /\ Good(a.s, R) /\ a.r \in Recorders /\ Grows(s.ev, a.s.ev, i)
            /\ a.r = Issued(r, i, z)
            /\ a.s.q = s.q /\ a.s.last = s.last /\ a.s.late = s.late /\ a.s.cut = s.cut
            /\ z \in Int /\ IssueWell(s.ev, r, z) /\ IssueParents(r, z) \subseteq Live(s.ev)
            /\ IssueDelays(s.ev, r, z) \in [IssueParents(r, z) -> Int]
            /\ a.s.ev = Link(s.ev, i, Issue(r, c, cyc), IssueParents(r, z), IssueDelays(s.ev, r, z))
<1> DEFINE i == NewId(s.ev)
           z == cyc - r.gap
           P == IssueParents(r, z)
           delay == IssueDelays(s.ev, r, z)
           e == Issue(r, c, cyc)
           k == Check(s, IssueWell(s.ev, r, z))
<1>0. IsHeap(s) /\ ~s.bad /\ s.last \in Lasts /\ Graph(s.ev) /\ Waiting(s.ev, s.q, R) /\ s.ev \in [Ids -> Events]
  BY DEF Good, Graph
<1>1. /\ r.gap \in Int /\ z \in Int
      /\ a.r = Issued(r, i, z)
      /\ a.s = AddEvent(k, i, e, P, delay)
  <2>1. r.gap \in Int /\ z \in Int
    BY DEF Recorders
  <2> HIDE DEF i, e, P, delay, k, z
  <2>2. /\ a.r = Issued(r, i, z)
        /\ a.s = AddEvent(k, i, e, P, delay)
    BY <1>0, AddIssueIs DEF i, e, P, delay, k, z
  <2> QED
    BY <2>1, <2>2
<1>2. i \in Ids /\ i \notin Live(s.ev)
  BY NewIdFree
<1>3. a.r \in Recorders
  BY <1>1, <1>2 DEF Recorders, Issued, Prior
<1>4. /\ IsHeap(k) /\ k.ev = s.ev /\ k.q = s.q /\ k.last = s.last /\ k.late = s.late /\ k.cut = s.cut
      /\ (k.bad <=> (s.bad \/ ~IssueWell(s.ev, r, z)))
  <2>1. IssueWell(s.ev, r, z) \in BOOLEAN
    BY DEF IssueWell
  <2> QED
    BY <1>0, <2>1, CheckIs
<1>5. IssuePre(r, z) \in Int /\ HomeOf[c] \in Domains
  BY <1>1, IssuePreIs, WeaveAssumption
<1>6. Plain(e)
  <2>1. e = Event("issue", HomeOf[c], c, cyc, IssuePre(r, z), 0, z)
    BY DEF Issue
  <2>2. "issue" \in Kinds \cup {"free"} /\ HomeOf[c] \in Domains \cup {0} /\ c \in Cores \cup {0} /\ 0 \in Int
    BY <1>5 DEF Kinds
  <2> HIDE DEF e, z
  <2>3. e \in Events
    BY <1>1, <1>5, <2>1, <2>2, EventType
  <2> QED
    BY <1>5, <2>1, <2>3 DEF Event, Plain, Kinds
<1> HIDE DEF i, z, P, delay, e, k
<1>7. /\ IsHeap(a.s) /\ a.s.ev = Link(s.ev, i, e, P, delay) /\ a.s.q = s.q /\ a.s.last = s.last
      /\ a.s.late = s.late /\ a.s.cut = s.cut
      /\ (a.s.bad <=> (k.bad \/ ~(P \subseteq Live(s.ev))))
  BY <1>1, <1>4, AddEventIs
<1>8. ~k.bad /\ P \subseteq Live(s.ev) /\ IssueWell(s.ev, r, z)
  BY <1>4, <1>7
<1>9. Good(k, R)
  BY <1>0, <1>4, <1>8 DEF Good
<1>10. delay \in [P -> Int] /\ P # {}
  <2>1. r.last \in P
    BY DEF P, IssueParents
  <2>2. r.last \in Ids
    BY <1>8, <2>1, LiveIds
  <2>3. s.ev[r.last].zll \in Int
    BY <1>0, <2>2 DEF Events
  <2>4. IssueDelay(z, s.ev[r.last].zll, IssuePre(r, z)) \in Int
    BY <1>1, <1>5, <2>3 DEF IssueDelay
  <2> QED
    BY <2>1, <2>4 DEF delay, P, IssueDelays
<1>11. Good(a.s, R) /\ Grows(k.ev, a.s.ev, i)
  <2>1. i \notin Live(k.ev)
    BY <1>2, <1>4
  <2> QED
    BY <1>1, <1>2, <1>6, <1>9, <1>10, <2>1, GoodAdd
<1> QED
  BY <1>1, <1>3, <1>4, <1>7, <1>8, <1>10, <1>11 DEF i, z, P, delay, e

-----------------------------------------------------------------------------
(* A crossing.                                                             *)
From(min, slack) == min + PreSlack(slack)
Xing(ev, p, k, min, slack) ==
  [Event("xing", ev[k].dom, ev[p].core, From(min, slack), 0, 0, From(min, slack) - rec[ev[p].core].gap)
     EXCEPT !.sd = ev[p].dom, !.ps = PreSlack(slack), !.qs = ev[k].pre,
            !.kids = OneKid(k), !.due = Max2(lastLimit, From(min, slack))]
KeyOf(xe) == <<xe.core, xe.sd, xe.dom>>
Chained(s, xe, cycle) == s.last[KeyOf(xe)].cyc > dom[xe.sd].cur /\ s.last[KeyOf(xe)].cyc <= cycle
NewLast(s, xe, cycle, x) == [s.last EXCEPT ![KeyOf(xe)] = [cyc |-> cycle, ev |-> x]]
ZeroOn(P) == [y \in P |-> 0]

(* The parents P of a crossing x, and what becomes of the queues.          *)
Crossed(s, n, back, x, xe, cycle, P) ==
  \/ back # NoEv /\ P = {back} /\ n.q = s.q /\ n.last = s.last
  \/ /\ back = NoEv /\ Chained(s, xe, cycle) /\ P = {s.last[KeyOf(xe)].ev}
     /\ n.q = s.q /\ n.last = NewLast(s, xe, cycle, x)
  \/ /\ back = NoEv /\ ~Chained(s, xe, cycle) /\ P = {}
     /\ n.q = Put(s.q, xe.dom, <<cycle, x>>) /\ n.last = NewLast(s, xe, cycle, x)
     /\ cycle >= dom[xe.sd].cur /\ cycle >= lastLimit

LEMMA CutIs ==
  ASSUME NEW s, IsHeap(s), NEW ev
  PROVE  LET n == [s EXCEPT !.ev = ev]
         IN /\ IsHeap(n) /\ n.ev = ev /\ n.q = s.q /\ n.last = s.last
            /\ n.late = s.late /\ n.cut = s.cut /\ n.bad = s.bad
  BY DEF IsHeap

LEMMA LastIs ==
  ASSUME NEW s, IsHeap(s), NEW l
  PROVE  LET n == [s EXCEPT !.last = l]
         IN /\ IsHeap(n) /\ n.ev = s.ev /\ n.q = s.q /\ n.last = l
            /\ n.late = s.late /\ n.cut = s.cut /\ n.bad = s.bad
  BY DEF IsHeap

LEMMA EnqueueCrossingIs ==
  ASSUME NEW s, IsHeap(s), NEW x \in Ids, NEW xe \in Events, NEW cycle, NEW back,
         NEW n, n = EnqueueCrossing(s, x, xe, cycle, back)
  PROVE  /\ IsHeap(n) /\ n.late = s.late /\ n.cut = s.cut /\ (s.bad => n.bad)
         /\ ~n.bad => \E P : /\ Crossed(s, n, back, x, xe, cycle, P) /\ P \subseteq Live(s.ev)
                             /\ n.ev = Link(s.ev, x, xe, P, ZeroOn(P))
<1> DEFINE prev == s.last[KeyOf(xe)]
           add(P) == AddEvent(s, x, xe, P, ZeroOn(P))
<1>1. \A P : /\ IsHeap(add(P)) /\ add(P).ev = Link(s.ev, x, xe, P, ZeroOn(P)) /\ add(P).q = s.q /\ add(P).last = s.last
             /\ add(P).late = s.late /\ add(P).cut = s.cut /\ (add(P).bad <=> (s.bad \/ ~(P \subseteq Live(s.ev))))
  <2> TAKE P
  <2> DEFINE z == ZeroOn(P)
  <2> HIDE DEF z
  <2>1. LET a == AddEvent(s, x, xe, P, z)
        IN /\ IsHeap(a) /\ a.ev = Link(s.ev, x, xe, P, z) /\ a.q = s.q /\ a.last = s.last
           /\ a.late = s.late /\ a.cut = s.cut /\ (a.bad <=> (s.bad \/ ~(P \subseteq Live(s.ev))))
    BY AddEventIs
  <2> QED
    BY <2>1 DEF z
<1>2. CASE back # NoEv
  <2>1. n = add({back})
    BY <1>2 DEF EnqueueCrossing, AddChild, ZeroOn
  <2> HIDE DEF add
  <2> QED
    BY <1>1, <1>2, <2>1 DEF Crossed
<1>3. CASE back = NoEv /\ Chained(s, xe, cycle)
  <2> DEFINE l == NewLast(s, xe, cycle, x)
             a == add({prev.ev})
  <2>1. n = [a EXCEPT !.last[KeyOf(xe)] = [cyc |-> cycle, ev |-> x]]
    BY <1>3 DEF EnqueueCrossing, AddChild, ZeroOn, Chained, KeyOf
  <2> HIDE DEF add
  <2>2. n = [a EXCEPT !.last = l]
    BY <1>1, <2>1 DEF NewLast
  <2>3. IsHeap(a) /\ a.ev = Link(s.ev, x, xe, {prev.ev}, ZeroOn({prev.ev})) /\ a.q = s.q
        /\ a.late = s.late /\ a.cut = s.cut /\ (a.bad <=> (s.bad \/ ~({prev.ev} \subseteq Live(s.ev))))
    BY <1>1
  <2> HIDE DEF a, l, prev
  <2>4. IsHeap(n) /\ n.ev = a.ev /\ n.q = a.q /\ n.last = l /\ n.late = a.late /\ n.cut = a.cut /\ n.bad = a.bad
    BY <2>2, <2>3, LastIs
  <2> QED
    BY <1>3, <2>3, <2>4 DEF Crossed, l, prev
<1>4. CASE back = NoEv /\ ~Chained(s, xe, cycle)
  <2> DEFINE l == NewLast(s, xe, cycle, x)
             a == add({})
             w == cycle >= dom[xe.sd].cur
             b == Check(a, w)
             e == EnqueueSynced(b, x, cycle)
  <2>1. n = [e EXCEPT !.last[KeyOf(xe)] = [cyc |-> cycle, ev |-> x]]
    BY <1>4 DEF EnqueueCrossing, ZeroOn, Nobody, Chained, KeyOf
  <2>2. IsHeap(a) /\ a.ev = Link(s.ev, x, xe, {}, ZeroOn({})) /\ a.q = s.q /\ a.last = s.last
        /\ a.late = s.late /\ a.cut = s.cut /\ (a.bad <=> s.bad)
    BY <1>1
  <2> HIDE DEF add, a
  <2>3. IsHeap(b) /\ b.ev = a.ev /\ b.q = a.q /\ b.last = a.last
        /\ b.late = a.late /\ b.cut = a.cut /\ (b.bad <=> (a.bad \/ ~w))
    <3>1. w \in BOOLEAN
      OBVIOUS
    <3> HIDE DEF w
    <3> QED
      BY <2>2, <3>1, CheckIs
  <2> HIDE DEF b
  <2>4. /\ IsHeap(e) /\ e.ev = b.ev /\ e.last = b.last /\ e.late = b.late /\ e.cut = b.cut
        /\ e.q = Put(b.q, b.ev[x].dom, <<cycle, x>>)
        /\ (e.bad <=> (b.bad \/ ~(cycle >= lastLimit /\ b.ev[x].np = 0)))
    BY <2>3, EnqueueSyncedIs
  <2> HIDE DEF e
  <2>5. n = [e EXCEPT !.last = l]
    BY <2>1, <2>2, <2>3, <2>4 DEF NewLast
  <2> HIDE DEF l
  <2>6. IsHeap(n) /\ n.ev = e.ev /\ n.q = e.q /\ n.last = l /\ n.late = e.late /\ n.cut = e.cut /\ n.bad = e.bad
    BY <2>4, <2>5, LastIs
  <2>7. a.ev[x].dom = xe.dom
    BY <2>2 DEF Link, Events
  <2> QED
    BY <1>4, <2>2, <2>3, <2>4, <2>6, <2>7 DEF Crossed, l
<1> QED
  BY <1>2, <1>3, <1>4

(* A crossing between two events of a good heap, in a state where the      *)
(* clocks are numbers.                                                     *)
ClocksTyped == /\ rec \in [Cores -> Recorders] /\ lastLimit \in Int
               /\ dom \in [Domains -> [cur : Int, prio : 0..2, qprio : Int]]

LEMMA XingIs ==
  ASSUME ClocksTyped, NEW ev, Graph(ev), NEW p \in Live(ev), NEW k \in DOMAIN ev[p].kids,
         NEW min \in Int, NEW slack \in Int
  PROVE  LET e == Xing(ev, p, k, min, slack)
         IN /\ e \in Events /\ e.k = "xing" /\ ~e.called /\ e.kids = OneKid(k) /\ e.outs = Nobody
            /\ e.dom = ev[k].dom /\ e.dom \in Domains /\ e.core = ev[p].core /\ e.core \in Cores
            /\ e.sd = ev[p].dom /\ e.sd \in Domains /\ e.min = From(min, slack) /\ e.pre = 0 /\ e.post = 0
            /\ e.zll = e.min - rec[e.core].gap /\ e.cyc = 0 /\ e.np = 0 /\ e.done = 0
            /\ e.ps = PreSlack(slack) /\ e.qs = ev[k].pre /\ e.due = Max2(lastLimit, e.min)
            /\ e.due \in Int /\ e.min \in Int
<1> DEFINE f == From(min, slack)
           ps == PreSlack(slack)
           kids == OneKid(k)
           due == Max2(lastLimit, f)
           zll == f - rec[ev[p].core].gap
           a == Event("xing", ev[k].dom, ev[p].core, f, 0, 0, zll)
           e == Xing(ev, p, k, min, slack)
<1>1. p \in Ids /\ k \in Live(ev) /\ k \in Ids /\ ev \in [Ids -> Events]
  BY LiveIds DEF Graph
<1>2. ev[k].dom \in Domains /\ ev[p].core \in Cores /\ ev[p].dom \in Domains /\ ev[k].pre \in Int
  BY <1>1 DEF Graph, Events
<1>3. ps \in Int /\ f \in Int /\ lastLimit \in Int /\ rec[ev[p].core].gap \in Int
  BY <1>2 DEF PreSlack, From, ClocksTyped, Recorders
<1>4. due \in Int /\ zll \in Int
  <2> DEFINE g == rec[ev[p].core].gap
  <2> HIDE DEF f, g
  <2>1. f \in Int /\ lastLimit \in Int /\ g \in Int
    BY <1>3 DEF g
  <2>2. due \in Int
    BY ONLY <2>1 DEF Max2
  <2>3. f - g \in Int
    BY ONLY <2>1
  <2> QED
    BY <2>2, <2>3 DEF g
<1>5. kids \in Delayed
  <2>1. kids \in [{k} -> Int] /\ {k} \in SUBSET Ids
    BY <1>1 DEF OneKid
  <2> QED
    BY ONLY <2>1 DEF Delayed
<1>6. e = [a EXCEPT !.sd = ev[p].dom, !.ps = ps, !.qs = ev[k].pre, !.kids = kids, !.due = due]
  BY DEF Xing
<1> HIDE DEF f, ps, kids, due, zll, e
<1>7. /\ a \in Events /\ a.k = "xing" /\ a.dom = ev[k].dom /\ a.core = ev[p].core /\ a.min = f
      /\ a.pre = 0 /\ a.post = 0 /\ a.zll = zll /\ a.cyc = 0 /\ a.np = 0 /\ a.outs = Nobody /\ ~a.called /\ a.done = 0
  <2>1. "xing" \in Kinds \cup {"free"} /\ ev[k].dom \in Domains \cup {0} /\ ev[p].core \in Cores \cup {0} /\ 0 \in Int
    BY <1>2 DEF Kinds
  <2>2. a \in Events
    BY <1>3, <1>4, <2>1, EventType
  <2> QED
    BY <2>2 DEF Event
<1> HIDE DEF a
<1>8. /\ e \in Events /\ e.sd = ev[p].dom /\ e.ps = ps /\ e.qs = ev[k].pre /\ e.kids = kids /\ e.due = due
      /\ e.k = a.k /\ e.dom = a.dom /\ e.core = a.core /\ e.min = a.min /\ e.pre = a.pre /\ e.post = a.post
      /\ e.zll = a.zll /\ e.cyc = a.cyc /\ e.np = a.np /\ e.outs = a.outs /\ e.called = a.called /\ e.done = a.done
  BY <1>2, <1>3, <1>4, <1>5, <1>6, <1>7 DEF Events
<1> QED
  BY <1>2, <1>3, <1>4, <1>7, <1>8 DEF f, ps, kids, due, zll, e

LEMMA GoodCross ==
  ASSUME ClocksTyped, NEW R, NEW s, Good(s, R), FreeIds(s.ev) # {},
         NEW p \in Live(s.ev), NEW k \in DOMAIN s.ev[p].kids, NEW min \in Int, NEW slack \in Int,
         NEW back, NEW n, n = Cross(s, p, k, min, slack, back), ~n.bad
  PROVE  LET x == NewId(s.ev)
             xe == Xing(s.ev, p, k, min, slack)
         IN /\ Good(n, R) /\ Grows(s.ev, n.ev, x) /\ n.late = s.late /\ n.cut = s.cut
            /\ \E P : /\ P \subseteq Live(s.ev) /\ Crossed(s, n, back, x, xe, xe.due, P)
                      /\ n.ev = Link(CutEv(s.ev, p, k, x), x, xe, P, ZeroOn(P))
            /\ \A j \in Live(s.ev) : \A y \in DOMAIN s.ev[j].kids : (j # p \/ y # k) => y \in DOMAIN n.ev[j].kids
<1> DEFINE x == NewId(s.ev)
           xe == Xing(s.ev, p, k, min, slack)
           cev == CutEv(s.ev, p, k, x)
           cut == [s EXCEPT !.ev = cev]
<1>1. IsHeap(s) /\ ~s.bad /\ s.last \in Lasts /\ Graph(s.ev) /\ Waiting(s.ev, s.q, R) /\ s.ev \in [Ids -> Events]
  BY DEF Good, Graph
<1>2. x \in Ids /\ x \notin Live(s.ev) /\ p \in Ids
  BY NewIdFree, LiveIds
<1>3. /\ xe \in Events /\ xe.k = "xing" /\ ~xe.called /\ xe.kids = OneKid(k) /\ xe.outs = Nobody
      /\ xe.dom \in Domains /\ xe.core \in Cores /\ xe.sd \in Domains /\ xe.due = Max2(lastLimit, From(min, slack))
      /\ xe.due \in Int
  <2> HIDE DEF xe
  <2>1. LET e == Xing(s.ev, p, k, min, slack)
         IN /\ e \in Events /\ e.k = "xing" /\ ~e.called /\ e.kids = OneKid(k) /\ e.outs = Nobody
            /\ e.dom = s.ev[k].dom /\ e.dom \in Domains /\ e.core = s.ev[p].core /\ e.core \in Cores
            /\ e.sd = s.ev[p].dom /\ e.sd \in Domains /\ e.min = From(min, slack) /\ e.pre = 0 /\ e.post = 0
            /\ e.zll = e.min - rec[e.core].gap /\ e.cyc = 0 /\ e.np = 0 /\ e.done = 0
            /\ e.ps = PreSlack(slack) /\ e.qs = s.ev[k].pre /\ e.due = Max2(lastLimit, e.min)
            /\ e.due \in Int /\ e.min \in Int
    BY <1>1, XingIs
  <2> QED
    BY <2>1 DEF xe
<1>4. n = EnqueueCrossing(cut, x, xe, xe.due, back)
  <2>1. n = EnqueueCrossing([s EXCEPT !.ev[p].kids = Without(@, k), !.ev[p].outs = With(@, x, s.ev[p].kids[k])],
                            x, xe, Max2(lastLimit, From(min, slack)), back)
    BY DEF Cross, Xing, From, OneKid
  <2>2. [s EXCEPT !.ev[p].kids = Without(@, k), !.ev[p].outs = With(@, x, s.ev[p].kids[k])] = cut
    BY <1>1, <1>2 DEF CutEv, IsHeap
  <2> QED
    BY <1>3, <2>1, <2>2
<1> HIDE DEF x, xe, cev
<1>5. IsHeap(cut) /\ cut.ev = cev /\ cut.q = s.q /\ cut.last = s.last /\ cut.late = s.late /\ cut.cut = s.cut /\ cut.bad = s.bad
  BY <1>1, CutIs
<1> HIDE DEF cut
<1>6. /\ IsHeap(n) /\ n.late = s.late /\ n.cut = s.cut
      /\ \E P : /\ Crossed(cut, n, back, x, xe, xe.due, P) /\ P \subseteq Live(cut.ev)
                /\ n.ev = Link(cut.ev, x, xe, P, ZeroOn(P))
  BY <1>2, <1>3, <1>4, <1>5, EnqueueCrossingIs
<1>7. PICK P : /\ Crossed(cut, n, back, x, xe, xe.due, P) /\ P \subseteq Live(cut.ev)
               /\ n.ev = Link(cut.ev, x, xe, P, ZeroOn(P))
  BY <1>6
<1>8. Crossed(s, n, back, x, xe, xe.due, P)
  BY <1>5, <1>7 DEF Crossed, Chained, NewLast
<1>9. Live(cev) = Live(s.ev)
  <2>1. \A j \in Ids : cev[j].k = s.ev[j].k
    <3>1. s.ev[p] \in Events
      BY <1>1, <1>2
    <3> DEFINE f == Without(s.ev[p].kids, k)
               g == With(s.ev[p].outs, x, s.ev[p].kids[k])
    <3>2. cev = [s.ev EXCEPT ![p] = [s.ev[p] EXCEPT !.kids = f, !.outs = g]]
      BY <1>1, <1>2 DEF cev, CutEv
    <3> HIDE DEF f, g
    <3>3. [s.ev[p] EXCEPT !.kids = f, !.outs = g].k = s.ev[p].k
      BY <3>1 DEF Events
    <3> QED
      BY <1>1, <1>2, <3>2, <3>3
  <2> QED
    BY <2>1 DEF Live
<1>10. P \subseteq Live(s.ev) /\ ZeroOn(P) \in [P -> Int] /\ n.ev = Link(cev, x, xe, P, ZeroOn(P))
  BY <1>5, <1>7, <1>9 DEF ZeroOn
<1> DEFINE m == n.ev
           delay == ZeroOn(P)
<1>11. /\ Graph(m) /\ Live(m) = Live(s.ev) \cup {x}
       /\ Alike(m[x], xe) /\ m[x].np = Cardinality(P)
       /\ \A j \in Ids \ {x} : Alike(m[j], s.ev[j]) /\ m[j].np = s.ev[j].np
       /\ \A j \in Ids \ {x} :
            DOMAIN m[j].kids = (DOMAIN s.ev[j].kids \ (IF j = p THEN {k} ELSE {})) \cup (IF j \in P THEN {x} ELSE {})
  <2> DEFINE ev == s.ev
  <2>1. /\ Graph(ev) /\ x \in Ids /\ x \notin Live(ev) /\ p \in Live(ev) /\ k \in DOMAIN ev[p].kids
        /\ xe \in Events /\ xe.k = "xing" /\ ~xe.called /\ xe.kids = OneKid(k) /\ xe.outs = Nobody
        /\ xe.dom \in Domains /\ xe.core \in Cores /\ xe.sd \in Domains
        /\ P \subseteq Live(ev) /\ delay \in [P -> Int]
        /\ cev = CutEv(ev, p, k, x) /\ m = Link(cev, x, xe, P, delay)
    BY <1>1, <1>2, <1>3, <1>10 DEF cev
  <2> HIDE DEF m, delay, ev
  <2>2. CutBy(ev, m, x, p, k, xe, P, delay)
    BY ONLY <2>1, CutGraph
  <2> QED
    BY <2>2 DEF ev, CutBy
<1> HIDE DEF m, delay
<1>12. Grows(s.ev, m, x)
  BY <1>2, <1>11, LiveIds DEF Grows
<1>13. \A j \in Live(s.ev) : m[j].np = s.ev[j].np /\ m[j].dom = s.ev[j].dom
  BY <1>12 DEF Grows, Alike
<1>14. m[x].dom = xe.dom /\ P \subseteq Ids
  BY <1>10, <1>11, LiveIds DEF Alike
<1>15. KeyOf(xe) \in Cores \X Domains \X Domains
  BY <1>3 DEF KeyOf
<1>16. NewLast(s, xe, xe.due, x) \in Lasts
  BY <1>1, <1>2, <1>3, <1>15 DEF NewLast, Lasts
<1>17. /\ m[x].np # 0 => Waiting(m, s.q, R)
       /\ m[x].np = 0 => Waiting(m, Put(s.q, m[x].dom, <<xe.due, x>>), R)
  <2>1. \A c \in Int : m[x].np = 0 /\ m[x].dom \in Domains => Waiting(m, Put(s.q, m[x].dom, <<c, x>>), R)
    BY <1>1, <1>2, <1>11, <1>13, WaitingGrows
  <2>2. m[x].np # 0 => Waiting(m, s.q, R)
    BY <1>1, <1>2, <1>11, <1>13, WaitingGrows
  <2> QED
    BY <1>3, <1>14, <2>1, <2>2
<1>18. (m[x].np = 0) <=> (P = {})
  BY <1>11, <1>14, SomeParents
<1>19. n.last \in Lasts /\ Waiting(m, n.q, R)
  BY <1>1, <1>8, <1>14, <1>16, <1>17, <1>18 DEF Crossed
<1>20. Good(n, R)
  BY <1>6, <1>11, <1>19 DEF Good, m
<1>21. \A j \in Live(s.ev) : \A y \in DOMAIN s.ev[j].kids : (j # p \/ y # k) => y \in DOMAIN m[j].kids
  BY <1>2, <1>11, LiveIds
<1> QED
  BY <1>6, <1>8, <1>10, <1>12, <1>20, <1>21 DEF m, x, xe, cev

-----------------------------------------------------------------------------
(* Operations of the weave phase.                                          *)

(* Event x of domain d starts.                                             *)
Took(s, c, d, x) == [Check(s, c) EXCEPT !.q[d] = @ \ {x}]

LEMMA GoodTake ==
  ASSUME NEW R, NEW s, Good(s, R), NEW d \in Domains, NEW x \in s.q[d], NEW c \in BOOLEAN,
         NEW n, n = Took(s, c, d, x), ~n.bad
  PROVE  /\ Good(n, R \cup {x[2]}) /\ c /\ n.ev = s.ev /\ n.q = Drop(s.q, d, x) /\ n.last = s.last
         /\ n.late = s.late /\ n.cut = s.cut
         /\ x[1] \in Int /\ x[2] \in Live(s.ev) /\ x[2] \notin R /\ s.ev[x[2]].np = 0 /\ s.ev[x[2]].dom = d
<1> DEFINE k == Check(s, c)
           u == Drop(s.q, d, x)
<1>1. IsHeap(s) /\ ~s.bad /\ s.last \in Lasts /\ Graph(s.ev) /\ Waiting(s.ev, s.q, R)
  BY DEF Good
<1>2. /\ IsHeap(k) /\ k.ev = s.ev /\ k.q = s.q /\ k.last = s.last
      /\ k.late = s.late /\ k.cut = s.cut /\ (k.bad <=> (s.bad \/ ~c))
  BY <1>1, CheckIs
<1> HIDE DEF k
<1>3. n = [k EXCEPT !.q = u]
  BY <1>2 DEF k, Drop, Took
<1> HIDE DEF u
<1>4. IsHeap(n) /\ n.ev = k.ev /\ n.q = u /\ n.last = k.last /\ n.late = k.late /\ n.cut = k.cut /\ n.bad = k.bad
  BY <1>2, <1>3 DEF IsHeap
<1>5. /\ Waiting(s.ev, u, R \cup {x[2]})
      /\ x[1] \in Int /\ x[2] \in Live(s.ev) /\ x[2] \notin R /\ s.ev[x[2]].np = 0 /\ s.ev[x[2]].dom = d
  BY <1>1, WaitingTake DEF u
<1> QED
  BY <1>1, <1>2, <1>4, <1>5 DEF Good, u

LEMMA GoodLate ==
  ASSUME NEW R, NEW s, Good(s, R), NEW b \in BOOLEAN, NEW n, n = [s EXCEPT !.late = b]
  PROVE  /\ Good(n, R) /\ n.ev = s.ev /\ n.q = s.q /\ n.last = s.last
         /\ n.late = b /\ n.cut = s.cut /\ n.bad = s.bad
<1>1. IsHeap(s)
  BY DEF Good
<1>2. IsHeap(n) /\ n.ev = s.ev /\ n.q = s.q /\ n.last = s.last /\ n.late = b /\ n.cut = s.cut /\ n.bad = s.bad
  BY <1>1 DEF IsHeap
<1> QED
  BY <1>2 DEF Good

(* The running event i is done.                                            *)
DoneBy(R, s, D, i, cycle, n) ==
  LET end == cycle + s.ev[i].post
  IN /\ Good(n, R \ {i}) /\ Heard(s.ev, i, end, n.ev) /\ Live(n.ev) = Live(s.ev) \ {i}
     /\ n.q = [d \in Domains |-> s.q[d] \cup Readied(s.ev, i, n.ev, d)]
     /\ n.last = s.last /\ n.late = s.late /\ n.cut = s.cut /\ end \in Int
     /\ DoneWell(s, D, i, end, n.ev)

LEMMA GoodDone ==
  ASSUME NEW R, NEW s, Good(s, R), NEW i \in R, s.ev[i].k = "xing" => s.ev[i].called, NEW cycle \in Int,
         NEW D, NEW n, n = Done(s, D, i, cycle), ~n.bad
  PROVE  DoneBy(R, s, D, i, cycle, n)
<1> DEFINE e == s.ev[i]
           end == cycle + e.post
           m == Hear(s.ev, i, end, DOMAIN e.kids, DOMAIN e.outs)
<1>1. /\ IsHeap(s) /\ ~s.bad /\ s.last \in Lasts /\ Graph(s.ev) /\ Waiting(s.ev, s.q, R)
      /\ s.ev \in [Ids -> Events]
  BY DEF Good, Graph
<1>2. i \in Live(s.ev) /\ s.ev[i].np = 0 /\ s.q \in Queues /\ i \in Ids
  BY <1>1, LiveIds DEF Waiting
<1>3. end \in Int
  BY <1>1, <1>2 DEF Events
<1>4. /\ IsHeap(n) /\ n.ev = m /\ n.last = s.last /\ n.late = s.late /\ n.cut = s.cut
      /\ n.q = [d \in Domains |-> s.q[d] \cup Readied(s.ev, i, m, d)]
      /\ (n.bad <=> (s.bad \/ ~DoneWell(s, D, i, end, m)))
  BY <1>1, <1>2, DoneIs
<1>5. Heard(s.ev, i, end, m)
  <2> HIDE DEF end
  <2> QED
    BY <1>1, <1>2, <1>3, HearIs
<1> HIDE DEF m, end
<1>6. Graph(m) /\ Live(m) = Live(s.ev) \ {i}
  BY <1>1, <1>2, <1>3, <1>5, HearGraph
<1>7. Waiting(m, n.q, R \ {i})
  BY <1>1, <1>3, <1>4, <1>5, WaitingHear
<1> QED
  BY <1>1, <1>3, <1>4, <1>5, <1>6, <1>7 DEF Good, end, DoneBy

(* A graph whose events differ in their times only is as good.             *)
LEMMA SameGraph ==
  ASSUME NEW ev, Graph(ev), NEW n, n \in [Ids -> Events], NEW i \in Live(ev),
         \A j \in Ids \ {i} : n[j] = ev[j],
         n[i].k = ev[i].k, n[i].dom = ev[i].dom, n[i].core = ev[i].core, n[i].sd = ev[i].sd, n[i].np = ev[i].np,
         n[i].kids = ev[i].kids, n[i].outs = ev[i].outs, n[i].called <=> ev[i].called
  PROVE  Graph(n) /\ Live(n) = Live(ev) /\ \A j \in Ids : Parents(n, j) = Parents(ev, j) /\ Sources(n, j) = Sources(ev, j)
<1>1. \A j \in Ids : /\ n[j].k = ev[j].k /\ n[j].dom = ev[j].dom /\ n[j].core = ev[j].core /\ n[j].sd = ev[j].sd /\ n[j].np = ev[j].np
                    /\ n[j].kids = ev[j].kids /\ n[j].outs = ev[j].outs /\ (n[j].called <=> ev[j].called)
  OBVIOUS
<1>2. Live(n) = Live(ev)
  BY <1>1 DEF Live
<1>3. \A j \in Ids : Parents(n, j) = Parents(ev, j) /\ Sources(n, j) = Sources(ev, j)
  BY <1>1, <1>2, LiveIds DEF Parents, Sources
<1>4. \A j \in Ids : n[j].k = "free" => n[j] = Free
  BY <1>1 DEF Graph, Live
<1>5. \A j \in Ids : DOMAIN n[j].kids \subseteq Live(n) /\ DOMAIN n[j].outs \subseteq Live(n)
  BY <1>1, <1>2 DEF Graph
<1>6. \A j \in Live(n) : n[j].dom \in Domains /\ n[j].core \in Cores /\ n[j].sd \in Domains
  BY <1>1, <1>2, LiveIds DEF Graph
<1>7. \A j \in Live(n) : n[j].np = Cardinality(Parents(n, j))
  BY <1>1, <1>2, <1>3, LiveIds DEF Graph
<1>8. \A j \in Live(n) : HasSource(n, j)
  <2> TAKE j \in Live(n)
  <2>1. j \in Ids /\ HasSource(ev, j)
    BY <1>2, LiveIds DEF Graph
  <2> QED
    BY <1>1, <1>3, <2>1 DEF HasSource
<1> QED
  BY <1>2, <1>3, <1>4, <1>5, <1>6, <1>7, <1>8 DEF Graph

(* The running crossing i goes back to the queue.                          *)
Redue(ev, i, rel) == [ev EXCEPT ![i].np = 0, ![i].due = Max2(@, rel)]

LEMMA RedueIs ==
  ASSUME NEW ev \in [Ids -> Events], NEW i \in Ids, NEW rel \in Int
  PROVE  LET n == Redue(ev, i, rel)
         IN /\ n \in [Ids -> Events] /\ \A j \in Ids \ {i} : n[j] = ev[j]
            /\ n[i].k = ev[i].k /\ n[i].dom = ev[i].dom /\ n[i].core = ev[i].core /\ n[i].min = ev[i].min
            /\ n[i].pre = ev[i].pre /\ n[i].post = ev[i].post /\ n[i].zll = ev[i].zll /\ n[i].sd = ev[i].sd
            /\ n[i].ps = ev[i].ps /\ n[i].qs = ev[i].qs /\ n[i].kids = ev[i].kids /\ n[i].outs = ev[i].outs
            /\ n[i].called = ev[i].called /\ n[i].cyc = ev[i].cyc /\ n[i].done = ev[i].done
            /\ n[i].np = 0 /\ n[i].due = Max2(ev[i].due, rel)
<1> DEFINE e == ev[i]
           due == Max2(e.due, rel)
           f == [e EXCEPT !.np = 0, !.due = due]
           n == Redue(ev, i, rel)
<1>1. e \in Events /\ e.due \in Int
  BY DEF Events
<1>2. due \in Int
  BY <1>1, MaxType
<1>3. n = [ev EXCEPT ![i] = f]
  BY DEF Redue
<1> HIDE DEF due, e
<1>4. /\ f \in Events /\ f.k = e.k /\ f.dom = e.dom /\ f.core = e.core /\ f.min = e.min
      /\ f.pre = e.pre /\ f.post = e.post /\ f.zll = e.zll /\ f.sd = e.sd
      /\ f.ps = e.ps /\ f.qs = e.qs /\ f.kids = e.kids /\ f.outs = e.outs
      /\ f.called = e.called /\ f.cyc = e.cyc /\ f.done = e.done
      /\ f.np = 0 /\ f.due = due
  BY <1>1, <1>2 DEF Events
<1> HIDE DEF f, n
<1>5. n \in [Ids -> Events] /\ n[i] = f /\ \A j \in Ids \ {i} : n[j] = ev[j]
  BY <1>3, <1>4
<1> QED
  BY <1>4, <1>5 DEF e, due, n

AgainBy(R, s, D, i, rel, cycle, n) ==
  /\ Good(n, R \ {i}) /\ n.ev = Redue(s.ev, i, rel) /\ Live(n.ev) = Live(s.ev)
  /\ n.q = Put(s.q, s.ev[i].dom, <<cycle, i>>)
  /\ n.last = s.last /\ n.late = s.late /\ n.cut = s.cut
  /\ cycle >= lastLimit /\ cycle >= D[s.ev[i].dom].cur

LEMMA GoodAgain ==
  ASSUME NEW R, NEW s, Good(s, R), NEW i \in R, NEW rel \in Int, NEW cycle \in Int, NEW D,
         NEW n, n = Enqueue([s EXCEPT !.ev[i].np = 0, !.ev[i].due = Max2(@, rel)], D, i, cycle), ~n.bad
  PROVE  AgainBy(R, s, D, i, rel, cycle, n)
<1> DEFINE m == Redue(s.ev, i, rel)
           a == [s EXCEPT !.ev = m]
<1>1. /\ IsHeap(s) /\ ~s.bad /\ s.last \in Lasts /\ Graph(s.ev) /\ Waiting(s.ev, s.q, R)
      /\ s.ev \in [Ids -> Events]
  BY DEF Good, Graph
<1>2. i \in Live(s.ev) /\ s.ev[i].np = 0 /\ i \in Ids /\ s.ev[i].dom \in Domains
  BY <1>1, LiveIds DEF Waiting, Graph
<1>3. n = Enqueue(a, D, i, cycle)
  BY <1>1, <1>2 DEF Redue, IsHeap
<1>4. /\ m \in [Ids -> Events] /\ \A j \in Ids \ {i} : m[j] = s.ev[j]
      /\ m[i].k = s.ev[i].k /\ m[i].dom = s.ev[i].dom /\ m[i].core = s.ev[i].core /\ m[i].sd = s.ev[i].sd /\ m[i].sd = s.ev[i].sd /\ m[i].np = s.ev[i].np
      /\ m[i].kids = s.ev[i].kids /\ m[i].outs = s.ev[i].outs /\ m[i].called = s.ev[i].called
  <2> DEFINE ev == s.ev
  <2>1. ev \in [Ids -> Events]
    BY <1>1
  <2> HIDE DEF ev
  <2>2. LET o == Redue(ev, i, rel)
        IN /\ o \in [Ids -> Events] /\ \A j \in Ids \ {i} : o[j] = ev[j]
           /\ o[i].k = ev[i].k /\ o[i].dom = ev[i].dom /\ o[i].core = ev[i].core /\ o[i].sd = ev[i].sd /\ o[i].np = 0
           /\ o[i].kids = ev[i].kids /\ o[i].outs = ev[i].outs /\ o[i].called = ev[i].called
    BY <1>2, <2>1, RedueIs
  <2> QED
    BY <1>2, <2>2 DEF ev
<1> HIDE DEF m
<1>5. IsHeap(a) /\ a.ev = m /\ a.q = s.q /\ a.last = s.last /\ a.late = s.late /\ a.cut = s.cut /\ a.bad = s.bad
  BY <1>1, CutIs
<1> HIDE DEF a
<1>6. /\ IsHeap(n) /\ n.ev = a.ev /\ n.last = a.last /\ n.late = a.late /\ n.cut = a.cut
      /\ n.q = Put(a.q, a.ev[i].dom, <<cycle, i>>)
      /\ (n.bad <=> (a.bad \/ ~(a.ev[i].np = 0 /\ cycle >= lastLimit /\ cycle >= D[a.ev[i].dom].cur)))
  BY <1>3, <1>5, EnqueueIs
<1>7. Graph(m) /\ Live(m) = Live(s.ev)
  BY <1>1, <1>2, <1>4, SameGraph
<1>8. Waiting(m, Put(s.q, s.ev[i].dom, <<cycle, i>>), R \ {i})
  <2>1. \A j \in Live(s.ev) : m[j].np = s.ev[j].np /\ m[j].dom = s.ev[j].dom
    BY <1>4, LiveIds
  <2> QED
    BY <1>1, <1>2, <1>7, <2>1, WaitingAgain
<1> QED
  BY <1>1, <1>4, <1>5, <1>6, <1>7, <1>8 DEF Good, m, AgainBy

-----------------------------------------------------------------------------
(* A heap that was bad stays bad, whatever else is done to it.             *)
Spoils(s, n) == IsHeap(n) /\ (s.bad => n.bad)

LEMMA AddSpoils ==
  ASSUME NEW s, IsHeap(s), NEW i, NEW e, NEW P, NEW delay, NEW n, n = AddEvent(s, i, e, P, delay)
  PROVE  Spoils(s, n)
  BY AddEventIs DEF Spoils

LEMMA ChildSpoils ==
  ASSUME NEW s, IsHeap(s), NEW p, NEW i, NEW e, NEW d, NEW n, n = AddChild(s, p, i, e, d)
  PROVE  Spoils(s, n)
<1> DEFINE P == {p}
           delay == [x \in P |-> d]
<1>1. n = AddEvent(s, i, e, P, delay)
  BY DEF AddChild
<1> HIDE DEF P, delay
<1> QED
  BY <1>1, AddSpoils

LEMMA IssueSpoils ==
  ASSUME NEW s, IsHeap(s), NEW r, NEW c, NEW cyc, NEW a, a = AddIssue(s, r, c, cyc)
  PROVE  Spoils(s, a.s)
<1> DEFINE z == cyc - r.gap
           k == Check(s, IssueWell(s.ev, r, z))
           P == IssueParents(r, z)
           delay == IssueDelays(s.ev, r, z)
           e == Issue(r, c, cyc)
           i == NewId(s.ev)
<1>1. a.s = AddEvent(k, i, e, P, delay)
  BY AddIssueIs
<1>2. IssueWell(s.ev, r, z) \in BOOLEAN
  BY DEF IssueWell
<1>3. IsHeap(k) /\ (s.bad => k.bad)
  BY <1>2, CheckIs
<1> HIDE DEF k, P, delay, e, i
<1>4. Spoils(k, a.s)
  BY <1>1, <1>3, AddSpoils
<1> QED
  BY <1>3, <1>4 DEF Spoils

LEMMA SyncedSpoils ==
  ASSUME NEW s, IsHeap(s), NEW i, NEW cycle, NEW n, n = EnqueueSynced(s, i, cycle)
  PROVE  Spoils(s, n)
  BY EnqueueSyncedIs DEF Spoils

LEMMA EnqueueCrossingSpoils ==
  ASSUME NEW s, IsHeap(s), NEW x, NEW xe, NEW cycle, NEW back,
         NEW n, n = EnqueueCrossing(s, x, xe, cycle, back)
  PROVE  Spoils(s, n)
<1> DEFINE key == <<xe.core, xe.sd, xe.dom>>
           chained == s.last[key].cyc > dom[xe.sd].cur /\ s.last[key].cyc <= cycle
           add == AddEvent(s, x, xe, {}, Nobody)
           w == cycle >= dom[xe.sd].cur
           chk == Check(add, w)
           queued == EnqueueSynced(chk, x, cycle)
           child == AddChild(s, s.last[key].ev, x, xe, 0)
           k == IF chained THEN child ELSE queued
<1>1. CASE back # NoEv
  <2>1. n = AddChild(s, back, x, xe, 0)
    BY <1>1 DEF EnqueueCrossing
  <2> QED
    BY <2>1, ChildSpoils
<1>2. CASE back = NoEv
  <2>1. n = [k EXCEPT !.last[key] = [cyc |-> cycle, ev |-> x]]
    BY <1>2 DEF EnqueueCrossing
  <2>2. Spoils(s, child)
    BY ChildSpoils
  <2>3. Spoils(s, add)
    BY AddSpoils
  <2>4. w \in BOOLEAN
    OBVIOUS
  <2> HIDE DEF w, add
  <2>5. IsHeap(chk) /\ (add.bad => chk.bad)
    BY <2>3, <2>4, CheckIs DEF Spoils
  <2> HIDE DEF chk
  <2>6. Spoils(chk, queued)
    BY <2>5, SyncedSpoils
  <2> HIDE DEF queued, child
  <2>7. Spoils(s, k)
    BY <2>2, <2>3, <2>5, <2>6 DEF Spoils
  <2> HIDE DEF k
  <2> DEFINE l == [k.last EXCEPT ![key] = [cyc |-> cycle, ev |-> x]]
  <2>8. n = [k EXCEPT !.last = l]
    BY <2>1
  <2> HIDE DEF l
  <2>9. IsHeap(n) /\ n.bad = k.bad
    BY <2>7, <2>8, LastIs DEF Spoils
  <2> QED
    BY <2>7, <2>9 DEF Spoils
<1> QED
  BY <1>1, <1>2

LEMMA CrossSpoils ==
  ASSUME NEW s, IsHeap(s), NEW p, NEW k, NEW min, NEW slack, NEW back,
         NEW n, n = Cross(s, p, k, min, slack, back)
  PROVE  Spoils(s, n)
<1> DEFINE x == NewId(s.ev)
           f == s.ev[p].kids
           cev == [s.ev EXCEPT ![p].kids = Without(@, k), ![p].outs = With(@, x, f[k])]
           cut == [s EXCEPT !.ev[p].kids = Without(@, k), !.ev[p].outs = With(@, x, s.ev[p].kids[k])]
<1>1. \E xe, cycle : n = EnqueueCrossing(cut, x, xe, cycle, back)
  BY DEF Cross
<1>2. cut = [s EXCEPT !.ev = cev]
  BY DEF IsHeap
<1> HIDE DEF cut, cev, x
<1>3. IsHeap(cut) /\ cut.bad = s.bad
  BY <1>2, CutIs
<1>4. Spoils(cut, n)
  BY <1>1, <1>3, EnqueueCrossingSpoils
<1> QED
  BY <1>3, <1>4 DEF Spoils

NewKid(R, s, n, i, e, p, d) ==
  /\ Good(n, R) /\ Grows(s.ev, n.ev, i) /\ p \in Live(s.ev) /\ i \in Live(n.ev)
  /\ n.ev = Link(s.ev, i, e, {p}, [x \in {p} |-> d])
  /\ n.q = s.q /\ n.last = s.last
  /\ i \in DOMAIN n.ev[p].kids
  /\ \A j \in Live(s.ev) : DOMAIN s.ev[j].kids \subseteq DOMAIN n.ev[j].kids

LEMMA GoodChild ==
  ASSUME NEW R, NEW s, Good(s, R), FreeIds(s.ev) # {}, NEW i, i = NewId(s.ev), NEW e, Plain(e),
         NEW p, NEW d \in Int, NEW n, n = AddChild(s, p, i, e, d), ~n.bad
  PROVE  NewKid(R, s, n, i, e, p, d)
<1> DEFINE P == {p}
           delay == [x \in P |-> d]
           ev == s.ev
           m == n.ev
<1>1. n = AddEvent(s, i, e, P, delay)
  BY DEF AddChild
<1>2. P # {} /\ delay \in [P -> Int] /\ i \in Ids /\ i \notin Live(s.ev)
  BY NewIdFree
<1> HIDE DEF delay
<1>3. Good(n, R) /\ Grows(s.ev, n.ev, i) /\ P \subseteq Live(s.ev) /\ n.ev = Link(s.ev, i, e, P, delay)
  <2> HIDE DEF P
  <2> QED
    BY <1>1, <1>2, GoodAdd
<1>4. n.q = s.q /\ n.last = s.last
  BY <1>1, AddEventIs DEF Good
<1>5. ev \in [Ids -> Events] /\ P \subseteq Ids /\ i \notin P /\ m = Link(ev, i, e, P, delay) /\ e \in Events
  BY <1>2, <1>3, LiveIds DEF Good, Graph, Plain
<1> HIDE DEF P, ev, m
<1>6. \A j \in Ids \ {i} : /\ j \notin P => m[j] = ev[j]
                           /\ j \in P => DOMAIN m[j].kids = DOMAIN ev[j].kids \cup {i}
  BY <1>2, <1>5, LinkIs
<1>7. i \in Live(n.ev)
  BY <1>3 DEF Grows
<1>8. p \in P /\ p \in Ids \ {i} /\ p \in Live(s.ev)
  BY <1>3, <1>5 DEF P
<1>9. i \in DOMAIN m[p].kids /\ \A j \in Live(s.ev) : DOMAIN ev[j].kids \subseteq DOMAIN m[j].kids
  BY <1>2, <1>6, <1>8, LiveIds
<1> QED
  BY <1>3, <1>4, <1>7, <1>8, <1>9 DEF P, delay, ev, m, NewKid

(* What recordAccess of core c adds to the heap s, one event after the     *)
(* other.                                                                  *)
Disp(c, cyc, zll) == Event("disp", HomeOf[c], c, cyc, 0, 0, zll)
Acc(c, m, cyc)    == Event("acc", m, c, cyc, 0, Latency, 0)
Resp(c, cyc)      == Event("resp", HomeOf[c], c, cyc + Latency, 0, 0, 0)
Accessed(s, c, m, cyc, a, d, s1, e, s2, p, s3, s4, n) ==
  /\ a = AddIssue(s, rec[c], c, cyc)
  /\ d = NewId(a.s.ev) /\ s1 = AddChild(a.s, a.r.last, d, Disp(c, cyc, cyc - a.r.gap), 0)
  /\ e = NewId(s1.ev)  /\ s2 = AddChild(s1, d, e, Acc(c, m, cyc), 0)
  /\ p = NewId(s2.ev)  /\ s3 = AddChild(s2, e, p, Resp(c, cyc), 0)
  /\ IF m = HomeOf[c] THEN n = s3
     ELSE s4 = Cross(s3, d, e, cyc, 0, NoEv) /\ n = Cross(s4, e, p, cyc, Latency, d)

LEMMA AccessPlain ==
  ASSUME NEW c \in Cores, NEW m \in Domains, NEW cyc \in Int, NEW zll \in Int
  PROVE  Plain(Disp(c, cyc, zll)) /\ Plain(Acc(c, m, cyc)) /\ Plain(Resp(c, cyc)) /\ Latency \in Nat
<1>1. /\ HomeOf[c] \in Domains /\ Latency \in Nat /\ cyc + Latency \in Int /\ 0 \in Int
      /\ c \in Cores \cup {0} /\ HomeOf[c] \in Domains \cup {0} /\ m \in Domains \cup {0}
  BY WeaveAssumption
<1>2. {"disp", "acc", "resp"} \subseteq Kinds \cup {"free"}
  BY DEF Kinds
<1>3. Disp(c, cyc, zll) \in Events
  BY <1>1, <1>2, EventType DEF Disp
<1>4. Acc(c, m, cyc) \in Events
  BY <1>1, <1>2, EventType DEF Acc
<1>5. Resp(c, cyc) \in Events
  <2> DEFINE t == cyc + Latency
  <2>1. t \in Int
    BY <1>1
  <2> HIDE DEF t
  <2>2. Event("resp", HomeOf[c], c, t, 0, 0, 0) \in Events
    BY <1>1, <1>2, <2>1, EventType
  <2> QED
    BY <2>2 DEF Resp, t
<1> QED
  BY <1>1, <1>3, <1>4, <1>5 DEF Plain, Disp, Acc, Resp, Event, Kinds

LEMMA GoodAccess ==
  ASSUME ClocksTyped, NEW R, NEW s, Good(s, R), Cardinality(FreeIds(s.ev)) >= 6,
         NEW c \in Cores, NEW m \in Domains, NEW cyc \in Int,
         NEW a, NEW d, NEW s1, NEW e, NEW s2, NEW p, NEW s3, NEW s4, NEW n,
         Accessed(s, c, m, cyc, a, d, s1, e, s2, p, s3, s4, n), ~n.bad
  PROVE  /\ ~a.s.bad /\ ~s1.bad /\ ~s2.bad /\ ~s3.bad /\ (m # HomeOf[c] => ~s4.bad)
         /\ Good(a.s, R) /\ Good(s1, R) /\ Good(s2, R) /\ Good(s3, R) /\ (m # HomeOf[c] => Good(s4, R)) /\ Good(n, R)
         /\ FreeIds(a.s.ev) # {} /\ FreeIds(s1.ev) # {} /\ FreeIds(s2.ev) # {} /\ FreeIds(s3.ev) # {}
         /\ (m # HomeOf[c] => FreeIds(s4.ev) # {})
         /\ a.r \in Recorders
         /\ d \in Live(s3.ev) /\ e \in DOMAIN s3.ev[d].kids /\ p \in Ids /\ p \in Live(n.ev)
         /\ m # HomeOf[c] => e \in Live(s4.ev) /\ p \in DOMAIN s4.ev[e].kids
<1> DEFINE r == rec[c]
           de == Disp(c, cyc, cyc - a.r.gap)
           ae == Acc(c, m, cyc)
           pe == Resp(c, cyc)
           room(t) == Cardinality(FreeIds(t.ev))
<1>a. a = AddIssue(s, r, c, cyc)
  BY DEF Accessed
<1>b. d = NewId(a.s.ev) /\ s1 = AddChild(a.s, a.r.last, d, de, 0)
  BY DEF Accessed
<1>c. e = NewId(s1.ev)  /\ s2 = AddChild(s1, d, e, ae, 0)
  BY DEF Accessed
<1>d. p = NewId(s2.ev)  /\ s3 = AddChild(s2, e, p, pe, 0)
  BY DEF Accessed
<1>e. m # HomeOf[c] => s4 = Cross(s3, d, e, cyc, 0, NoEv)
  BY DEF Accessed
<1>f. m # HomeOf[c] => n = Cross(s4, e, p, cyc, Latency, d)
  BY DEF Accessed
<1>g. m = HomeOf[c] => n = s3
  BY DEF Accessed
<1>1. IsHeap(s) /\ r \in Recorders
  BY DEF Good, ClocksTyped
<1> HIDE DEF r, de, ae, pe
<1>2. Spoils(s, a.s)
  BY <1>a, <1>1, IssueSpoils
<1>3. Spoils(a.s, s1)
  BY <1>b, <1>2, ChildSpoils DEF Spoils
<1>4. Spoils(s1, s2)
  BY <1>c, <1>3, ChildSpoils DEF Spoils
<1>5. Spoils(s2, s3)
  BY <1>d, <1>4, ChildSpoils DEF Spoils
<1>6. m # HomeOf[c] => Spoils(s3, s4)
  BY <1>e, <1>5, CrossSpoils DEF Spoils
<1>7. m # HomeOf[c] => Spoils(s4, n)
  BY <1>f, <1>6, CrossSpoils DEF Spoils
<1>8. ~s3.bad /\ (m # HomeOf[c] => ~s4.bad)
  BY <1>g, <1>6, <1>7 DEF Spoils
<1>9. ~a.s.bad /\ ~s1.bad /\ ~s2.bad
  BY <1>3, <1>4, <1>5, <1>8 DEF Spoils
<1>10. \A t : FreeIds(t.ev) \subseteq Ids /\ room(t) \in Nat
  BY LiveIds, IdsFinite
<1>11. \A t : room(t) > 0 => FreeIds(t.ev) # {}
  BY FS_EmptySet
<1>12. FreeIds(s.ev) # {}
  BY <1>10, <1>11
<1>13. Good(a.s, R) /\ a.r \in Recorders /\ room(a.s) = room(s) - 1 /\ a.r.gap = r.gap
  <2>1. /\ Good(a.s, R) /\ a.r \in Recorders /\ Grows(s.ev, a.s.ev, NewId(s.ev)) /\ a.r = Issued(r, NewId(s.ev), cyc - r.gap)
    BY <1>a, <1>1, <1>9, <1>12, GoodIssue
  <2> QED
    BY <1>1, <2>1, GrowsRoom DEF Issued, Recorders
<1>14. Plain(de) /\ Plain(ae) /\ Plain(pe) /\ Latency \in Nat
  <2>1. cyc - a.r.gap \in Int
    BY <1>13 DEF Recorders
  <2> QED
    BY <2>1, AccessPlain DEF de, ae, pe
<1>15. FreeIds(a.s.ev) # {}
  BY <1>10, <1>11, <1>13
<1>16. /\ Good(s1, R) /\ Grows(a.s.ev, s1.ev, d) /\ d \in Live(s1.ev)
  <2> DEFINE q == a.s
             l == a.r.last
  <2>1. Good(q, R) /\ FreeIds(q.ev) # {} /\ d = NewId(q.ev) /\ Plain(de) /\ 0 \in Int /\ s1 = AddChild(q, l, d, de, 0) /\ ~s1.bad
    BY <1>b, <1>9, <1>13, <1>14, <1>15
  <2> HIDE DEF q, l
  <2>2. NewKid(R, q, s1, d, de, l, 0)
    BY ONLY <2>1, GoodChild
  <2> QED
    BY <2>2 DEF NewKid, q
<1>17. room(s1) = room(s) - 2
  BY <1>10, <1>13, <1>16, GrowsRoom
<1>18. FreeIds(s1.ev) # {}
  BY <1>10, <1>11, <1>17
<1>19. /\ Good(s2, R) /\ Grows(s1.ev, s2.ev, e) /\ e \in Live(s2.ev) /\ e \in DOMAIN s2.ev[d].kids
  <2>1. Good(s1, R) /\ FreeIds(s1.ev) # {} /\ e = NewId(s1.ev) /\ Plain(ae) /\ 0 \in Int /\ s2 = AddChild(s1, d, e, ae, 0) /\ ~s2.bad
    BY <1>c, <1>9, <1>14, <1>16, <1>18
  <2>2. NewKid(R, s1, s2, e, ae, d, 0)
    BY ONLY <2>1, GoodChild
  <2> QED
    BY <2>2 DEF NewKid
<1>20. room(s2) = room(s) - 3
  BY <1>10, <1>17, <1>19, GrowsRoom
<1>21. FreeIds(s2.ev) # {}
  BY <1>10, <1>11, <1>20
<1>22. /\ Good(s3, R) /\ Grows(s2.ev, s3.ev, p) /\ p \in Live(s3.ev) /\ p \in DOMAIN s3.ev[e].kids
       /\ \A j \in Live(s2.ev) : DOMAIN s2.ev[j].kids \subseteq DOMAIN s3.ev[j].kids
  <2>1. Good(s2, R) /\ FreeIds(s2.ev) # {} /\ p = NewId(s2.ev) /\ Plain(pe) /\ 0 \in Int /\ s3 = AddChild(s2, e, p, pe, 0) /\ ~s3.bad
    BY <1>d, <1>8, <1>14, <1>19, <1>21
  <2>2. NewKid(R, s2, s3, p, pe, e, 0)
    BY ONLY <2>1, GoodChild
  <2> QED
    BY <2>2 DEF NewKid
<1>23. room(s3) = room(s) - 4
  BY <1>10, <1>20, <1>22, GrowsRoom
<1>24. FreeIds(s3.ev) # {}
  BY <1>10, <1>11, <1>23
<1>25. /\ d \in Live(s2.ev) /\ d \in Live(s3.ev) /\ e \in Live(s3.ev) /\ e # d
       /\ e \in DOMAIN s3.ev[d].kids /\ p \in Ids
  BY <1>16, <1>19, <1>22 DEF Grows
<1>26. ASSUME m # HomeOf[c]
       PROVE  /\ Good(s4, R) /\ Good(n, R) /\ FreeIds(s4.ev) # {} /\ p \in Live(n.ev)
              /\ e \in Live(s4.ev) /\ p \in DOMAIN s4.ev[e].kids
  <2>1. /\ Good(s4, R) /\ Grows(s3.ev, s4.ev, NewId(s3.ev))
        /\ \A j \in Live(s3.ev) : \A y \in DOMAIN s3.ev[j].kids : (j # d \/ y # e) => y \in DOMAIN s4.ev[j].kids
    <3>1. cyc \in Int /\ 0 \in Int /\ s4 = Cross(s3, d, e, cyc, 0, NoEv) /\ ~s4.bad
      BY <1>e, <1>8, <1>26
    <3> QED
      BY <1>22, <1>24, <1>25, <3>1, GoodCross
  <2>2. e \in Live(s4.ev) /\ p \in DOMAIN s4.ev[e].kids
    BY <1>22, <1>25, <2>1 DEF Grows
  <2>3. FreeIds(s4.ev) # {}
    BY <1>10, <1>11, <1>23, <2>1, GrowsRoom
  <2>4. /\ Good(n, R) /\ Grows(s4.ev, n.ev, NewId(s4.ev))
    <3>1. Latency \in Int /\ n = Cross(s4, e, p, cyc, Latency, d)
      BY <1>f, <1>14, <1>26
    <3> QED
      BY <2>1, <2>2, <2>3, <3>1, GoodCross
  <2>5. p \in Live(n.ev)
    BY <1>22, <2>1, <2>4 DEF Grows
  <2> QED
    BY <2>1, <2>2, <2>3, <2>4, <2>5
<1>27. m = HomeOf[c] => Good(n, R) /\ p \in Live(n.ev)
  BY <1>g, <1>22
<1> QED
  BY <1>8, <1>9, <1>13, <1>15, <1>16, <1>18, <1>19, <1>21, <1>22, <1>24, <1>25, <1>26, <1>27

-----------------------------------------------------------------------------
(* The inductive invariant of the graph and the queues.                    *)
ThreadRecs ==
  [at : {"asleep", "run", "xing", "recheck", "publish"}, d : Domains \cup {0}, ev : Ids \cup {NoEv},
   sim : Int, src : Int, rel : Int, stalled : BOOLEAN, pq : SUBSET Domains, sq : Seq(Domains), nsq : Seq(Domains)]
Typed ==
  /\ ClocksTyped /\ limit \in Int /\ phases \in Nat
  /\ threadOf \in [Domains -> Threads]
  /\ mode \in {"bound", "start", "weave", "end"}
  /\ th \in [Threads -> ThreadRecs]

(* A thread has its own domains in its queues; one that stopped has none.  *)
OwnDomains(r, D) ==
  /\ r.pq \subseteq D /\ r.sq \in Seq(D) /\ r.nsq \in Seq(D)
  /\ r.at \in {"xing", "recheck", "publish"} => r.d \in D
  /\ r.at = "asleep" => r.pq = {} /\ r.sq = <<>> /\ r.nsq = <<>>
  /\ r.at = "run" /\ r.pq = {} /\ r.sq = <<>> => r.nsq = <<>>
  /\ D = {} => r.at = "asleep"
Runs(ev, r) ==
  r.at \in {"xing", "recheck"} => r.ev \in Live(ev) /\ ev[r.ev].k = "xing" /\ ev[r.ev].dom = r.d

Crossers == {t \in Threads : th[t].at \in {"xing", "recheck"}}
Crossing == {th[t].ev : t \in Crossers}
Asleep == {t \in SimThreads : th[t].at = "asleep"}
ThreadsWell == \A t \in Threads : OwnDomains(th[t], DomainsOf(t)) /\ Runs(h.ev, th[t])
Counted ==
  /\ threadsDone = IF mode = "weave" THEN Cardinality(Asleep) ELSE 0
  /\ mode # "weave" => \A t \in Threads : th[t].at = "asleep"
Structure == Typed /\ Good(h, Crossing) /\ ThreadsWell /\ Counted
Sound == h.bad \/ Structure

LEMMA SleepersCrossNothing ==
  ASSUME \A t \in Threads : th[t].at = "asleep"
  PROVE  Crossing = {} /\ \A ev : \A t \in Threads : Runs(ev, th[t])
  BY DEF Crossing, Crossers, Runs

(* The steps of the bound phase leave the threads asleep.                  *)
LEMMA BoundStep ==
  ASSUME Structure, mode # "weave", mode' \in {"bound", "start", "end"},
         th' = th, threadOf' = threadOf, threadsDone' = threadsDone,
         ClocksTyped', limit' \in Int, phases' \in Nat, Good(h', {})
  PROVE  Structure'
<1>1. \A t \in Threads : th[t].at = "asleep"
  BY DEF Structure, Counted
<1>2. Crossing' = {} /\ \A ev : \A t \in Threads : Runs(ev, th[t])
  BY <1>1, SleepersCrossNothing DEF Crossing, Crossers
<1>3. Typed'
  BY DEF Structure, Typed
<1>4. ThreadsWell'
  <2>1. \A t \in Threads : OwnDomains(th[t], DomainsOf(t))
    BY DEF Structure, ThreadsWell
  <2>2. \A t \in Threads : th'[t] = th[t] /\ DomainsOf(t)' = DomainsOf(t)
    BY DEF DomainsOf
  <2>3. \A t \in Threads : Runs(h.ev, th[t])' 
    BY <1>1 DEF Runs
  <2>4. \A t \in Threads : OwnDomains(th[t], DomainsOf(t))'
    BY <2>1, <2>2
  <2> QED
    BY <2>3, <2>4 DEF ThreadsWell
<1>5. Counted'
  BY <1>1 DEF Structure, Counted
<1> QED
  BY <1>2, <1>3, <1>4, <1>5 DEF Structure

LEMMA BoundPhase ==
  ASSUME Structure, mode # "weave"
  PROVE  Good(h, {})
  BY SleepersCrossNothing DEF Structure, Counted

LEMMA NumbersTyped ==
  ASSUME Typed
  PROVE  Glob \in Nat /\ NextPhase \in Nat /\ PhaseLength \in Nat \ {0} /\ NumCores \in Nat \ {0}
         /\ \A c \in Cores : rec[c] \in Recorders /\ rec[c].cur \in Int /\ HomeOf[c] \in Domains
         /\ IsFiniteSet(Threads) /\ Delays \subseteq Nat /\ Contention \subseteq Nat
<1>1. PhaseLength \in Nat \ {0} /\ phases \in Nat /\ NumCores \in Nat \ {0} /\ IsFiniteSet(Threads)
      /\ Delays \subseteq Nat /\ Contention \subseteq Nat /\ HomeOf \in [Cores -> Domains]
  BY WeaveAssumption DEF Typed
<1>2. Glob \in Nat
  BY <1>1 DEF Glob
<1>3. \A c \in Cores : rec[c] \in Recorders /\ rec[c].cur \in Int /\ HomeOf[c] \in Domains
  BY <1>1 DEF Typed, ClocksTyped, Recorders
<1> QED
  BY <1>1, <1>2, <1>3 DEF NextPhase

(* A recorder with other numbers is one.                                   *)
LEMMA RecordersOf ==
  ASSUME NEW r \in Recorders
  PROVE  /\ \A n \in Int : [r EXCEPT !.cur = n] \in Recorders
         /\ \A n \in Int : [r EXCEPT !.gap = n] \in Recorders
         /\ \A n \in Int : [r EXCEPT !.slack = n] \in Recorders
         /\ \A l \in Ids : [r EXCEPT !.last = l] \in Recorders
         /\ \A s \in {"HALTED", "RUNNING", "DRAINING"} : [r EXCEPT !.st = s] \in Recorders
         /\ \A n \in Int : [r EXCEPT !.fut = {}, !.cur = n] \in Recorders
         /\ \A n \in Int, f \in [zll : Int, ev : Ids \cup {NoEv}] :
              [r EXCEPT !.cur = n, !.fut = r.fut \cup {f}] \in Recorders
  BY DEF Recorders

LEMMA JoinedRecorder ==
  ASSUME NEW r \in Recorders, NEW i \in Ids, NEW n \in Int
  PROVE  [r EXCEPT !.last = i, !.gap = 0, !.slack = 0, !.cur = n, !.st = "RUNNING"] \in Recorders
<1> DEFINE a == [r EXCEPT !.last = i]
           b == [a EXCEPT !.gap = 0]
           d == [b EXCEPT !.slack = 0]
           e == [d EXCEPT !.cur = n]
           f == [e EXCEPT !.st = "RUNNING"]
<1>1. f = [r EXCEPT !.last = i, !.gap = 0, !.slack = 0, !.cur = n, !.st = "RUNNING"]
  BY DEF Recorders
<1>0. 0 \in Int
  OBVIOUS
<1>2. a \in Recorders
  BY RecordersOf
<1> HIDE DEF a
<1>3. b \in Recorders
  BY <1>0, <1>2, RecordersOf
<1> HIDE DEF b
<1>4. d \in Recorders
  BY <1>0, <1>3, RecordersOf
<1> HIDE DEF d
<1>5. e \in Recorders
  BY <1>4, RecordersOf
<1> HIDE DEF e
<1> QED
  BY <1>1, <1>5, RecordersOf

LEMMA AdvanceSound ==
  ASSUME Structure, NEW c \in Cores, Advance(c) PROVE Structure'
<1>1. NextPhase + 1 \in Int /\ rec[c] \in Recorders
  BY NumbersTyped DEF Structure
<1>2. [rec[c] EXCEPT !.cur = NextPhase + 1] \in Recorders
  <2> DEFINE n == NextPhase + 1
  <2>1. n \in Int
    BY <1>1
  <2> HIDE DEF n
  <2> QED
    BY <1>1, <2>1, RecordersOf DEF n
<1>3. ClocksTyped'
  BY <1>2 DEF Advance, weave, Structure, Typed, ClocksTyped
<1> QED
  BY <1>3, BoundStep, BoundPhase DEF Advance, weave, Structure, Typed

LEMMA EndBoundSound ==
  ASSUME Structure, NEW c \in Cores, EndBound(c) PROVE Structure'
<1>1. ClocksTyped'
  BY DEF EndBound, Structure, Typed, ClocksTyped
<1> QED
  BY <1>1, BoundStep, BoundPhase DEF EndBound, Structure, Typed

LEMMA LeaveSound ==
  ASSUME Structure, NEW c \in Cores, Leave(c), ~h'.bad PROVE Structure'
<1> DEFINE a == AddIssue(h, rec[c], c, rec[c].cur)
<1>1. rec[c] \in Recorders /\ rec[c].cur \in Int /\ Good(h, {})
  BY NumbersTyped, BoundPhase DEF Structure, Leave
<1>2. h' = a.s /\ rec' = [rec EXCEPT ![c] = [a.r EXCEPT !.st = "DRAINING"]] /\ FreeIds(h.ev) # {}
  BY DEF Leave
<1>3. Good(a.s, {}) /\ a.r \in Recorders
  <2> DEFINE r == rec[c]
             cyc == rec[c].cur
  <2>1. a = AddIssue(h, r, c, cyc) /\ r \in Recorders /\ cyc \in Int /\ ~a.s.bad
    BY <1>1, <1>2
  <2> HIDE DEF a, r, cyc
  <2> QED
    BY <1>1, <1>2, <2>1, GoodIssue
<1> HIDE DEF a
<1>4. [a.r EXCEPT !.st = "DRAINING"] \in Recorders
  BY <1>3, RecordersOf
<1>5. ClocksTyped'
  BY <1>2, <1>4 DEF Leave, weave, Structure, Typed, ClocksTyped
<1> QED
  BY <1>2, <1>3, <1>5, BoundStep DEF Leave, weave, Structure, Typed

LEMMA JoinSound ==
  ASSUME Structure, NEW c \in Cores, Join(c), ~h'.bad PROVE Structure'
<1> DEFINE r == rec[c]
           i == NewId(h.ev)
<1>1. /\ r \in Recorders /\ r.cur \in Int /\ Good(h, {}) /\ FreeIds(h.ev) # {} /\ Glob \in Nat /\ HomeOf[c] \in Domains
      /\ IsHeap(h)
  BY NumbersTyped, BoundPhase DEF Structure, Join, Good
<1>2. i \in Ids /\ i \notin Live(h.ev)
  BY <1>1, NewIdFree
<1>3. CASE r.st = "HALTED"
  <2> DEFINE k == Check(h, r.last = NoEv /\ r.unhalted <= Glob)
             e == Event("issue", HomeOf[c], c, Glob, 0, 0, Glob)
             a == AddEvent(k, i, e, {}, Nobody)
  <2>1. /\ h' = EnqueueSynced(a, i, Glob)
        /\ rec' = [rec EXCEPT ![c] = [r EXCEPT !.last = i, !.gap = 0, !.slack = 0,
                                               !.cur = Max2(r.cur, Glob), !.st = "RUNNING"]]
    BY <1>3 DEF Join
  <2>2. IsHeap(k) /\ k.ev = h.ev /\ k.q = h.q /\ k.last = h.last /\ (~k.bad => ~h.bad)
    <3>1. (r.last = NoEv /\ r.unhalted <= Glob) \in BOOLEAN
      OBVIOUS
    <3> QED
      BY <1>1, <3>1, CheckIs
  <2> HIDE DEF k
  <2>3. Plain(e)
    <3>1. "issue" \in Kinds \cup {"free"} /\ HomeOf[c] \in Domains \cup {0} /\ c \in Cores \cup {0} /\ 0 \in Int /\ Glob \in Int
      BY <1>1 DEF Kinds
    <3>2. e \in Events
      BY <3>1, EventType
    <3> QED
      BY <1>1, <3>2 DEF Event, Plain, Kinds
  <2> HIDE DEF e
  <2>4. Spoils(k, a)
    BY <2>2, AddSpoils
  <2>5. Spoils(a, h')
    BY <2>1, <2>4, SyncedSpoils DEF Spoils
  <2>6. Good(k, {})
    BY <1>1, <2>2, <2>4, <2>5 DEF Good, Spoils
  <2>7. Good(h', {})
    <3> DEFINE g == Glob
    <3>1. g \in Int /\ h' = EnqueueSynced(a, i, g) /\ a = AddEvent(k, i, e, {}, Nobody) /\ i \notin Live(k.ev)
      BY <1>1, <1>2, <2>1, <2>2
    <3> HIDE DEF g, a, i
    <3> QED
      BY <1>2, <2>3, <2>6, <3>1, GoodSynced
  <2>8. [r EXCEPT !.last = i, !.gap = 0, !.slack = 0, !.cur = Max2(r.cur, Glob), !.st = "RUNNING"] \in Recorders
    <3> DEFINE g == Max2(r.cur, Glob)
    <3>1. g \in Int
      <4>1. r.cur \in Int /\ Glob \in Int
        BY <1>1
      <4> QED
        BY ONLY <4>1 DEF Max2
    <3> HIDE DEF g, r, i
    <3>2. [r EXCEPT !.last = i, !.gap = 0, !.slack = 0, !.cur = g, !.st = "RUNNING"] \in Recorders
      BY <1>1, <1>2, <3>1, JoinedRecorder
    <3> QED
      BY <3>2 DEF g
  <2>9. ClocksTyped'
    BY <2>1, <2>8 DEF Join, weave, Structure, Typed, ClocksTyped
  <2> QED
    BY <2>7, <2>9, BoundStep DEF Join, weave, Structure, Typed
<1>4. CASE r.st # "HALTED"
  <2> DEFINE a == AddIssue(h, r, c, r.cur)
             k == Check(a.s, r.cur >= Glob)
  <2>1. /\ h' = k /\ rec' = [rec EXCEPT ![c] = [a.r EXCEPT !.st = "RUNNING"]]
    BY <1>4 DEF Join
  <2>2. Spoils(h, a.s)
    <3> HIDE DEF r
    <3> QED
      BY <1>1, IssueSpoils
  <2>3. IsHeap(k) /\ k.ev = a.s.ev /\ k.q = a.s.q /\ k.last = a.s.last /\ (~k.bad => ~a.s.bad)
    <3> DEFINE w == r.cur >= Glob
               q == a.s
    <3>1. w \in BOOLEAN /\ IsHeap(q) /\ k = Check(q, w)
      BY <2>2 DEF Spoils
    <3> HIDE DEF w, q, k
    <3>2. IsHeap(k) /\ k.ev = q.ev /\ k.q = q.q /\ k.last = q.last /\ (~k.bad => ~q.bad)
      BY ONLY <3>1, CheckIs
    <3> QED
      BY <3>2 DEF q
  <2>4. Good(a.s, {}) /\ a.r \in Recorders
    <3> DEFINE cyc == r.cur
    <3>1. a = AddIssue(h, r, c, cyc) /\ r \in Recorders /\ cyc \in Int /\ ~a.s.bad
      BY <1>1, <2>1, <2>3
    <3> HIDE DEF a, r, cyc
    <3> QED
      BY <1>1, <3>1, GoodIssue
  <2> HIDE DEF a, k
  <2>5. Good(h', {})
    BY <2>1, <2>3, <2>4 DEF Good
  <2>6. [a.r EXCEPT !.st = "RUNNING"] \in Recorders
    BY <2>4, RecordersOf
  <2>7. ClocksTyped'
    BY <2>1, <2>6 DEF Join, weave, Structure, Typed, ClocksTyped
  <2> QED
    BY <2>5, <2>7, BoundStep DEF Join, weave, Structure, Typed
<1> QED
  BY <1>3, <1>4

LEMMA StartCoreSound ==
  ASSUME Structure, NEW c \in Cores, StartCore(c), ~h'.bad PROVE Structure'
<1> DEFINE r == rec[c]
           t == AddIssue(h, r, c, NextPhase)
<1>1. /\ r \in Recorders /\ r.cur \in Int /\ Good(h, {}) /\ FreeIds(h.ev) # {} /\ NextPhase \in Int /\ IsHeap(h)
      /\ r.st \in {"HALTED", "RUNNING", "DRAINING"} /\ mode = "start" /\ mode' = mode
  BY NumbersTyped, BoundPhase DEF Structure, StartCore, Good, Recorders
<1>2. CASE r.st = "HALTED"
  <2>1. h' = h /\ rec' = rec
    BY <1>2 DEF StartCore
  <2>2. ClocksTyped'
    BY <2>1 DEF StartCore, Structure, Typed, ClocksTyped
  <2> QED
    BY <1>1, <2>1, <2>2, BoundStep DEF StartCore, Structure, Typed
<1>3. CASE r.st = "DRAINING"
  <2>1. h' = h /\ rec' = [rec EXCEPT ![c] = [r EXCEPT !.fut = {}, !.cur = Max2(r.cur, NextPhase)]]
    BY <1>3 DEF StartCore
  <2>2. [r EXCEPT !.fut = {}, !.cur = Max2(r.cur, NextPhase)] \in Recorders
    <3> DEFINE g == Max2(r.cur, NextPhase)
    <3>1. g \in Int
      BY <1>1, MaxType
    <3> HIDE DEF g, r
    <3>2. [r EXCEPT !.fut = {}, !.cur = g] \in Recorders
      BY <1>1, <3>1, RecordersOf
    <3> QED
      BY <3>2 DEF g
  <2>3. ClocksTyped'
    BY <2>1, <2>2 DEF StartCore, Structure, Typed, ClocksTyped
  <2> QED
    BY <1>1, <2>1, <2>3, BoundStep DEF StartCore, Structure, Typed
<1>4. CASE r.st = "RUNNING"
  <2> DEFINE taper == h.ev[r.last].zll < NextPhase - r.gap
             g == IF taper THEN t.s ELSE h
             w == r.cur > NextPhase /\ h.ev[r.last].zll <= r.cur - r.gap
  <2>1. h' = Check(g, w) /\ rec' = IF taper THEN [rec EXCEPT ![c] = t.r] ELSE rec
    BY <1>4 DEF StartCore
  <2>2. Spoils(h, t.s)
    <3> HIDE DEF r
    <3> QED
      BY <1>1, IssueSpoils
  <2>3. w \in BOOLEAN /\ IsHeap(g)
    <3> HIDE DEF t
    <3> QED
      BY <1>1, <2>2 DEF Spoils
  <2>4. IsHeap(h') /\ h'.ev = g.ev /\ h'.q = g.q /\ h'.last = g.last /\ ~g.bad
    <3> HIDE DEF g, w
    <3> QED
      BY <2>1, <2>3, CheckIs
  <2>5. taper => Good(t.s, {}) /\ t.r \in Recorders
    <3> DEFINE cyc == NextPhase
    <3>1. t = AddIssue(h, r, c, cyc) /\ r \in Recorders /\ cyc \in Int /\ (taper => ~t.s.bad)
      BY <1>1, <2>4
    <3> HIDE DEF t, r, cyc, taper
    <3> QED
      BY <1>1, <3>1, GoodIssue
  <2> HIDE DEF t, taper
  <2>6. Good(g, {})
    BY <1>1, <2>5
  <2> HIDE DEF g
  <2>7. Good(h', {})
    BY <2>4, <2>6 DEF Good
  <2>8. ClocksTyped'
    BY <2>1, <2>5 DEF StartCore, Structure, Typed, ClocksTyped
  <2> QED
    BY <1>1, <2>7, <2>8, BoundStep DEF StartCore, Structure, Typed
<1> QED
  BY <1>1, <1>2, <1>3, <1>4

AccessBy(c, m, a, d, s1, e, s2, p, s3, s4, dl) ==
  /\ Accessed(h, c, m, rec[c].cur, a, d, s1, e, s2, p, s3, s4, h')
  /\ dl \in Delays
  /\ rec' = [rec EXCEPT ![c] = [a.r EXCEPT !.cur = a.r.cur + dl,
               !.fut = a.r.fut \cup {[zll |-> rec[c].cur + Latency - a.r.gap, ev |-> p]}]]

LEMMA AccessIs ==
  ASSUME NEW c, NEW m, RecordAccess(c, m)
  PROVE  \E a, d, s1, e, s2, p, s3, s4, dl : AccessBy(c, m, a, d, s1, e, s2, p, s3, s4, dl)
<1> DEFINE cyc == rec[c].cur
           a == AddIssue(h, rec[c], c, cyc)
           d == NewId(a.s.ev)
           s1 == AddChild(a.s, a.r.last, d, Disp(c, cyc, cyc - a.r.gap), 0)
           e == NewId(s1.ev)
           s2 == AddChild(s1, d, e, Acc(c, m, cyc), 0)
           p == NewId(s2.ev)
           s3 == AddChild(s2, e, p, Resp(c, cyc), 0)
           s4 == Cross(s3, d, e, cyc, 0, NoEv)
           s5 == Cross(s4, e, p, cyc, Latency, d)
<1>1. h' = IF m = HomeOf[c] THEN s3 ELSE s5
  BY DEF RecordAccess, Disp, Acc, Resp
<1>2. \E dl \in Delays :
        rec' = [rec EXCEPT ![c] = [a.r EXCEPT !.cur = a.r.cur + dl,
                        !.fut = a.r.fut \cup {[zll |-> rec[c].cur + Latency - a.r.gap, ev |-> p]}]]
  BY DEF RecordAccess, Disp, Acc
<1>3. PICK dl \in Delays :
        rec' = [rec EXCEPT ![c] = [a.r EXCEPT !.cur = a.r.cur + dl,
                        !.fut = a.r.fut \cup {[zll |-> rec[c].cur + Latency - a.r.gap, ev |-> p]}]]
  BY <1>2
<1> DEFINE x4 == s4
<1>4. Accessed(h, c, m, cyc, a, d, s1, e, s2, p, s3, x4, h')
  <2> HIDE DEF cyc
  <2>1. a = AddIssue(h, rec[c], c, cyc)
    OBVIOUS
  <2> HIDE DEF a
  <2>2. d = NewId(a.s.ev) /\ s1 = AddChild(a.s, a.r.last, d, Disp(c, cyc, cyc - a.r.gap), 0)
    OBVIOUS
  <2> HIDE DEF d, s1
  <2>3. e = NewId(s1.ev) /\ s2 = AddChild(s1, d, e, Acc(c, m, cyc), 0)
    OBVIOUS
  <2> HIDE DEF e, s2
  <2>4. p = NewId(s2.ev) /\ s3 = AddChild(s2, e, p, Resp(c, cyc), 0)
    OBVIOUS
  <2> HIDE DEF p, s3
  <2>5. x4 = Cross(s3, d, e, cyc, 0, NoEv) /\ s5 = Cross(x4, e, p, cyc, Latency, d)
    OBVIOUS
  <2> HIDE DEF x4, s5
  <2>6. h' = IF m = HomeOf[c] THEN s3 ELSE s5
    BY <1>1 DEF s5, s3, x4, p, s2, e, s1, d, a
  <2> QED
    BY <2>1, <2>2, <2>3, <2>4, <2>5, <2>6 DEF Accessed
<1>5. AccessBy(c, m, a, d, s1, e, s2, p, s3, x4, dl)
  BY <1>3, <1>4 DEF AccessBy
<1> HIDE DEF a, d, s1, e, s2, p, s3, x4
<1> QED
  BY <1>5

LEMMA RecordAccessSound ==
  ASSUME Structure, NEW c \in Cores, NEW m \in Domains, RecordAccess(c, m), ~h'.bad PROVE Structure'
<1>1. PICK a, d, s1, e, s2, p, s3, s4, dl :
           /\ Accessed(h, c, m, rec[c].cur, a, d, s1, e, s2, p, s3, s4, h')
           /\ dl \in Delays
           /\ rec' = [rec EXCEPT ![c] = [a.r EXCEPT !.cur = a.r.cur + dl,
                        !.fut = a.r.fut \cup {[zll |-> rec[c].cur + Latency - a.r.gap, ev |-> p]}]]
  <2>1. PICK a, d, s1, e, s2, p, s3, s4, dl : AccessBy(c, m, a, d, s1, e, s2, p, s3, s4, dl)
    BY AccessIs
  <2> QED
    BY <2>1 DEF AccessBy
<1>2. /\ ClocksTyped /\ Good(h, {}) /\ Cardinality(FreeIds(h.ev)) >= 6 /\ rec[c].cur \in Int /\ Delays \subseteq Nat
      /\ mode # "weave" /\ mode' = mode /\ mode = "bound"
  BY NumbersTyped, BoundPhase DEF Structure, Typed, RecordAccess, weave
<1>3. Good(h', {}) /\ a.r \in Recorders /\ p \in Ids
  BY <1>1, <1>2, GoodAccess
<1>4. [a.r EXCEPT !.cur = a.r.cur + dl, !.fut = a.r.fut \cup {[zll |-> rec[c].cur + Latency - a.r.gap, ev |-> p]}] \in Recorders
  <2> DEFINE n == a.r.cur + dl
             z == rec[c].cur + Latency - a.r.gap
             f == [zll |-> z, ev |-> p]
  <2>1. n \in Int /\ z \in Int
    <3>1. a.r.cur \in Int /\ a.r.gap \in Int /\ dl \in Int /\ Latency \in Int
      BY <1>1, <1>2, <1>3, WeaveAssumption DEF Recorders
    <3> QED
      BY <1>2, <3>1
  <2> HIDE DEF n, z
  <2>2. f \in [zll : Int, ev : Ids \cup {NoEv}]
    BY <1>3, <2>1
  <2> HIDE DEF f
  <2>3. [a.r EXCEPT !.cur = n, !.fut = a.r.fut \cup {f}] \in Recorders
    BY <1>3, <2>1, <2>2, RecordersOf
  <2> QED
    BY <2>3 DEF n, f, z
<1>5. ClocksTyped'
  BY <1>1, <1>4 DEF RecordAccess, weave, Structure, Typed, ClocksTyped
<1> QED
  BY <1>2, <1>3, <1>5, BoundStep DEF RecordAccess, weave, Structure, Typed

LEMMA CSimStartSound ==
  ASSUME Structure, CSimStart PROVE Structure'
<1>1. /\ mode = "start" /\ mode' = "weave" /\ limit' = NextPhase /\ NextPhase \in Int /\ Good(h, {})
      /\ h' = h /\ rec' = rec /\ dom' = dom /\ threadOf' = threadOf /\ lastLimit' = lastLimit
      /\ threadsDone' = threadsDone /\ phases' = phases
  <2>1. mode = "start" /\ mode' = "weave" /\ limit' = NextPhase
        /\ h' = h /\ rec' = rec /\ dom' = dom /\ threadOf' = threadOf /\ lastLimit' = lastLimit
        /\ threadsDone' = threadsDone /\ phases' = phases
    BY DEF CSimStart
  <2>2. NextPhase \in Nat
    BY NumbersTyped DEF Structure
  <2>3. Good(h, {})
    BY <2>1, BoundPhase
  <2> QED
    BY <2>1, <2>2, <2>3
<1>2. \A t \in Threads : th[t].at = "asleep" /\ th[t] \in ThreadRecs /\ th[t].sq = <<>> /\ th[t].nsq = <<>>
  BY <1>1 DEF Structure, Counted, ThreadsWell, OwnDomains, Typed
<1>3. \A t \in Threads : DomainsOf(t)' = DomainsOf(t) /\ DomainsOf(t) \in SUBSET Domains
  BY <1>1 DEF DomainsOf
<1>4. th' = [t \in Threads |-> [th[t] EXCEPT !.at = IF t \in SimThreads THEN "run" ELSE "asleep", !.pq = DomainsOf(t)]]
  BY DEF CSimStart
<1>5. ASSUME NEW t \in Threads
      PROVE  /\ th'[t] \in ThreadRecs /\ th'[t].at = (IF DomainsOf(t) # {} THEN "run" ELSE "asleep")
             /\ th'[t].pq = DomainsOf(t) /\ th'[t].sq = <<>> /\ th'[t].nsq = <<>>
  <2> DEFINE at == IF t \in SimThreads THEN "run" ELSE "asleep"
             r == th[t]
  <2>1. at \in {"run", "asleep"} /\ (at = "run" <=> DomainsOf(t) # {})
    BY DEF SimThreads
  <2>2. th'[t] = [r EXCEPT !.at = at, !.pq = DomainsOf(t)] /\ r \in ThreadRecs /\ r.sq = <<>> /\ r.nsq = <<>>
    BY <1>2, <1>4
  <2> HIDE DEF at, r
  <2>3. th'[t] \in ThreadRecs /\ th'[t].at = at /\ th'[t].pq = DomainsOf(t) /\ th'[t].sq = r.sq /\ th'[t].nsq = r.nsq
    BY <1>3, <2>1, <2>2 DEF ThreadRecs
  <2> QED
    BY <2>1, <2>2, <2>3
<1>6. Typed'
  <2>1. ClocksTyped'
    BY <1>1 DEF Structure, Typed, ClocksTyped
  <2>2. th' \in [Threads -> ThreadRecs]
    BY <1>4, <1>5
  <2> QED
    BY <1>1, <2>1, <2>2 DEF Structure, Typed
<1>7. Crossing' = {}
  BY <1>5 DEF Crossing, Crossers
<1>8. ThreadsWell'
  <2>1. ASSUME NEW t \in Threads
        PROVE  OwnDomains(th'[t], DomainsOf(t)) /\ Runs(h', th'[t])
    <3> DEFINE r == th'[t]
               D == DomainsOf(t)
    <3>1. r.at = (IF D # {} THEN "run" ELSE "asleep") /\ r.pq = D /\ r.sq = <<>> /\ r.nsq = <<>>
      BY <1>5
    <3> HIDE DEF r, D
    <3>2. <<>> \in Seq(D)
      OBVIOUS
    <3>3. OwnDomains(r, D)
      BY <3>1, <3>2 DEF OwnDomains
    <3>4. Runs(h', r)
      BY <3>1 DEF Runs
    <3> QED
      BY <3>3, <3>4 DEF r, D
  <2>2. \A t \in Threads : Runs(h', th'[t]) => Runs(h.ev, th[t])'
    BY <1>5 DEF Runs
  <2>3. \A t \in Threads : OwnDomains(th[t], DomainsOf(t))'
    BY <1>3, <2>1
  <2> QED
    BY <2>1, <2>2, <2>3 DEF ThreadsWell
<1>9. Counted'
  <2>1. Asleep' = {}
    BY <1>3, <1>5 DEF Asleep, SimThreads
  <2>2. threadsDone = 0
    BY <1>1 DEF Structure, Counted
  <2> QED
    BY <1>1, <2>1, <2>2, FS_EmptySet DEF Counted
<1> QED
  BY <1>1, <1>6, <1>7, <1>8, <1>9 DEF Structure

LEMMA EndCoreTyped ==
  ASSUME NEW r \in Recorders PROVE EndCore(r) \in Recorders
<1> DEFINE sk == Skew(r)
           cur == r.cur + sk
           gap == r.gap + sk
           fut == {[f EXCEPT !.ev = IF f.ev \in Live(h.ev) THEN f.ev ELSE NoEv] : f \in r.fut}
           un == IF r.last = NoEv THEN r.simStart ELSE r.unhalted
           st == IF r.last = NoEv THEN "HALTED" ELSE r.st
<1>1. cur \in Int /\ gap \in Int /\ un \in Int /\ st \in {"HALTED", "RUNNING", "DRAINING"}
  BY DEF Skew, Recorders
<1>2. fut \in SUBSET [zll : Int, ev : Ids \cup {NoEv}]
  BY DEF Recorders
<1>3. EndCore(r) = IF r.st = "HALTED" THEN r
                   ELSE [r EXCEPT !.cur = cur, !.gap = gap, !.fut = fut, !.unhalted = un, !.st = st]
  BY DEF EndCore
<1> HIDE DEF cur, gap, fut, un, st
<1>4. [r EXCEPT !.cur = cur, !.gap = gap, !.fut = fut, !.unhalted = un, !.st = st] \in Recorders
  BY <1>1, <1>2 DEF Recorders
<1> QED
  BY <1>3, <1>4

LEMMA CSimEndSound ==
  ASSUME Structure, CSimEnd, ~h'.bad PROVE Structure'
<1> DEFINE busy == {c \in Cores : rec[c].st # "HALTED"}
           b == h.bad \/ \E c \in busy : ~EndsWell(rec[c])
           u == h.cut \/ \E c \in busy : rec[c].last = NoEv /\ rec[c].st = "RUNNING"
<1>1. mode = "end" /\ mode' = "bound" /\ Good(h, {}) /\ phases \in Nat /\ limit \in Int
  BY BoundPhase DEF CSimEnd, Structure, Typed
<1>2. b \in BOOLEAN /\ u \in BOOLEAN
  BY <1>1 DEF Good, IsHeap
<1>3. h' = [h EXCEPT !.bad = b, !.cut = u]
  BY DEF CSimEnd
<1> HIDE DEF b, u
<1>4. IsHeap(h') /\ h'.ev = h.ev /\ h'.q = h.q /\ h'.last = h.last
  BY <1>1, <1>2, <1>3 DEF Good, IsHeap
<1>5. Good(h', {})
  BY <1>1, <1>4 DEF Good
<1>6. \A c \in Cores : rec'[c] \in Recorders
  BY EndCoreTyped DEF CSimEnd, Structure, Typed, ClocksTyped
<1>7. ClocksTyped'
  BY <1>1, <1>6 DEF CSimEnd, Structure, Typed, ClocksTyped
<1> QED
  BY <1>1, <1>5, <1>7, BoundStep DEF CSimEnd, Structure, Typed

-----------------------------------------------------------------------------
(* The weave phase: thread t takes a step.                                 *)
Others(t) == {th[u].ev : u \in Crossers \ {t}}

(* The events of n that were there before, and were the same ones.         *)
Keeps(ev, n) == \A i \in Live(n) : i \in Live(ev) /\ n[i].k = ev[i].k /\ n[i].dom = ev[i].dom

LEMMA CrossingSplits ==
  ASSUME NEW t \in Threads
  PROVE  Crossing = Others(t) \cup (IF th[t].at \in {"xing", "recheck"} THEN {th[t].ev} ELSE {})
  BY DEF Crossing, Others, Crossers

(* No two threads run the same crossing: it is of one domain.              *)
LEMMA CrossersApart ==
  ASSUME ThreadsWell, NEW t \in Threads, th[t].at \in {"xing", "recheck"}
  PROVE  th[t].ev \notin Others(t) /\ Others(t) = Crossing \ {th[t].ev}
<1>1. ASSUME NEW u \in Crossers \ {t}, th[u].ev = th[t].ev
      PROVE  FALSE
  <2>1. h.ev[th[t].ev].dom = th[t].d /\ th[t].d \in DomainsOf(t)
    BY DEF ThreadsWell, OwnDomains, Runs
  <2>2. h.ev[th[u].ev].dom = th[u].d /\ th[u].d \in DomainsOf(u)
    BY DEF ThreadsWell, OwnDomains, Runs, Crossers
  <2> QED
    BY <1>1, <2>1, <2>2 DEF DomainsOf
<1>2. th[t].ev \notin Others(t)
  BY <1>1 DEF Others
<1> QED
  BY <1>2, CrossingSplits

LEMMA WeaveStep ==
  ASSUME Structure, mode = "weave", NEW t \in Threads, th[t].at # "asleep",
         NEW r \in ThreadRecs, r.at # "asleep", th' = [th EXCEPT ![t] = r],
         OwnDomains(r, DomainsOf(t)), Runs(h'.ev, r),
         mode' = mode, threadOf' = threadOf, limit' = limit, threadsDone' = threadsDone, phases' = phases,
         ClocksTyped', Keeps(h.ev, h'.ev),
         Good(h', Others(t) \cup (IF r.at \in {"xing", "recheck"} THEN {r.ev} ELSE {}))
  PROVE  Structure'
<1>1. th \in [Threads -> ThreadRecs]
  BY DEF Structure, Typed
<1>2. th'[t] = r /\ \A u \in Threads \ {t} : th'[u] = th[u]
  BY <1>1
<1>3. th' \in [Threads -> ThreadRecs]
  BY <1>1
<1>4. Typed'
  BY <1>3 DEF Structure, Typed
<1>5. Crossing' = Others(t) \cup (IF r.at \in {"xing", "recheck"} THEN {r.ev} ELSE {})
  BY <1>2 DEF Crossing, Crossers, Others
<1>6. Others(t) \subseteq Live(h'.ev)
  BY DEF Good, Waiting
<1>7. ASSUME NEW u \in Threads \ {t}
      PROVE  Runs(h'.ev, th[u])
  <2>1. SUFFICES ASSUME th[u].at \in {"xing", "recheck"}
                 PROVE  th[u].ev \in Live(h'.ev) /\ h'.ev[th[u].ev].k = "xing" /\ h'.ev[th[u].ev].dom = th[u].d
    BY DEF Runs
  <2>2. th[u].ev \in Live(h'.ev)
    BY <1>6, <2>1 DEF Others, Crossers
  <2>3. h.ev[th[u].ev].k = "xing" /\ h.ev[th[u].ev].dom = th[u].d
    BY <2>1 DEF Structure, ThreadsWell, Runs
  <2> QED
    BY <2>2, <2>3 DEF Keeps
<1>8. \A u \in Threads : DomainsOf(u)' = DomainsOf(u)
  BY DEF DomainsOf
<1>9. ASSUME NEW u \in Threads
      PROVE  OwnDomains(th'[u], DomainsOf(u)') /\ Runs(h'.ev, th'[u])
  <2>1. CASE u = t
    BY <1>2, <1>8, <2>1
  <2>2. CASE u # t
    <3>1. OwnDomains(th[u], DomainsOf(u))
      BY DEF Structure, ThreadsWell
    <3>2. th'[u] = th[u] /\ DomainsOf(u)' = DomainsOf(u) /\ Runs(h'.ev, th[u])
      BY <1>2, <1>7, <1>8, <2>2
    <3> QED
      BY <3>1, <3>2
  <2> QED
    BY <2>1, <2>2
<1>10. ThreadsWell'
  BY <1>9 DEF ThreadsWell
<1>11. Asleep' = Asleep
  BY <1>2, <1>8 DEF Asleep, SimThreads
<1>12. Counted'
  BY <1>11 DEF Structure, Counted
<1> QED
  BY <1>4, <1>5, <1>10, <1>12 DEF Structure

LEMMA SameKeeps == ASSUME NEW ev PROVE Keeps(ev, ev)
  BY DEF Keeps

(* The queues of domains of a thread.                                      *)
LEMMA SeqEnd ==
  ASSUME NEW D, NEW s \in Seq(D), s # <<>>
  PROVE  Last(s) \in D /\ Front(s) \in Seq(D)
  BY DEF Last, Front

LEMMA OneDomainSeq ==
  ASSUME NEW D, NEW s \in Seq(D), NEW d \in D
  PROVE  Append(s, d) \in Seq(D) /\ Append(s, d) # <<>>
<1>1. Append(s, d) \in Seq(D) /\ Len(Append(s, d)) = Len(s) + 1
  OBVIOUS
<1>2. Len(s) \in Nat /\ Len(<<>>) = 0
  OBVIOUS
<1> QED
  BY <1>1, <1>2

(* What TakeDomain and Swap leave of a thread.                             *)
SameRest(q, r) ==
  /\ q.at = r.at /\ q.d = r.d /\ q.ev = r.ev /\ q.sim = r.sim /\ q.src = r.src /\ q.rel = r.rel

LEMMA TakeIs ==
  ASSUME NEW D, D \subseteq Domains, NEW r \in ThreadRecs, r.pq \subseteq D, r.sq \in Seq(D), r.nsq \in Seq(D),
         r.pq # {} \/ r.sq # <<>>, NEW q, q = TakeDomain(r)
  PROVE  /\ q \in ThreadRecs /\ SameRest(q, r) /\ q.pq \subseteq D /\ q.sq \in Seq(D) /\ q.nsq \in Seq(D)
         /\ r.pq # {} => q.pq = r.pq \ {r.d} /\ q.sq = r.sq /\ q.nsq = r.nsq /\ ~q.stalled
         /\ r.pq = {} => q.pq = {} /\ q.sq = Front(r.sq) /\ q.nsq = r.nsq /\ q.stalled
<1>0. Seq(D) \subseteq Seq(Domains)
  OBVIOUS
<1>1. CASE r.pq # {}
  <2> DEFINE p == r.pq \ {r.d}
  <2>1. q = [r EXCEPT !.pq = p, !.stalled = FALSE] /\ p \in SUBSET Domains /\ p \subseteq D
    BY <1>1 DEF TakeDomain
  <2> HIDE DEF p
  <2>2. q \in ThreadRecs /\ SameRest(q, r) /\ q.pq = p /\ q.sq = r.sq /\ q.nsq = r.nsq /\ ~q.stalled
    BY <2>1 DEF ThreadRecs, SameRest
  <2> QED
    BY <1>1, <2>1, <2>2 DEF p
<1>2. CASE r.pq = {}
  <2> DEFINE s == Front(r.sq)
  <2>1. q = [r EXCEPT !.sq = s, !.stalled = TRUE]
    BY <1>2 DEF TakeDomain
  <2>2. s \in Seq(D) /\ s \in Seq(Domains)
    BY <1>0, <1>2, SeqEnd
  <2> HIDE DEF s
  <2>3. q \in ThreadRecs /\ SameRest(q, r) /\ q.pq = r.pq /\ q.sq = s /\ q.nsq = r.nsq /\ q.stalled
    BY <2>1, <2>2 DEF ThreadRecs, SameRest
  <2> QED
    BY <1>2, <2>2, <2>3 DEF s
<1> QED
  BY <1>1, <1>2

LEMMA SwapIs ==
  ASSUME NEW D, D \subseteq Domains, NEW r \in ThreadRecs, r.pq \subseteq D, r.sq \in Seq(D), r.nsq \in Seq(D),
         NEW q, q = Swap(r)
  PROVE  /\ q \in ThreadRecs /\ SameRest(q, r) /\ q.pq = r.pq /\ q.sq \in Seq(D) /\ q.nsq \in Seq(D)
         /\ q.pq = {} /\ q.sq = <<>> => q.nsq = <<>>
         /\ (q.sq = r.sq /\ q.nsq = r.nsq) \/ (r.sq = <<>> /\ q.sq = r.nsq /\ q.nsq = <<>>)
<1>1. CASE r.sq = <<>> /\ (r.pq = {} \/ r.stalled)
  <2> DEFINE s == r.nsq
  <2>1. q = [r EXCEPT !.sq = s, !.nsq = <<>>] /\ s \in Seq(Domains) /\ <<>> \in Seq(Domains) /\ <<>> \in Seq(D)
    BY <1>1 DEF Swap, ThreadRecs
  <2> HIDE DEF s
  <2>2. q \in ThreadRecs /\ SameRest(q, r) /\ q.pq = r.pq /\ q.sq = s /\ q.nsq = <<>>
    BY <2>1 DEF ThreadRecs, SameRest
  <2> QED
    BY <1>1, <2>1, <2>2 DEF s
<1>2. CASE ~(r.sq = <<>> /\ (r.pq = {} \/ r.stalled))
  <2>1. q = r
    BY <1>2 DEF Swap
  <2> QED
    BY <1>2, <2>1 DEF SameRest
<1> QED
  BY <1>1, <1>2

(* Thread t has taken domain d.                                            *)
Taken(t, d) == TakeDomain([th[t] EXCEPT !.d = d])

LEMMA TakenIs ==
  ASSUME Structure, NEW t \in Threads, th[t].at = "run", NEW d \in Domains, NextDomain(t, d),
         NEW q, q = Taken(t, d)
  PROVE  /\ q \in ThreadRecs /\ q.at = "run" /\ q.d = d /\ d \in DomainsOf(t) /\ q.ev = th[t].ev
         /\ q.sim = th[t].sim /\ q.src = th[t].src /\ q.rel = th[t].rel
         /\ q.pq \subseteq DomainsOf(t) /\ q.sq \in Seq(DomainsOf(t)) /\ q.nsq \in Seq(DomainsOf(t))
         /\ th[t].pq # {} => q.pq = th[t].pq \ {d} /\ q.sq = th[t].sq /\ q.nsq = th[t].nsq /\ ~q.stalled
         /\ th[t].pq = {} => /\ q.pq = {} /\ q.sq = Front(th[t].sq) /\ q.nsq = th[t].nsq /\ q.stalled
                             /\ th[t].sq # <<>> /\ d = Last(th[t].sq)
<1> DEFINE D == DomainsOf(t)
           r == th[t]
           o == [r EXCEPT !.d = d]
<1>1. /\ D \subseteq Domains /\ r \in ThreadRecs /\ r.pq \subseteq D /\ r.sq \in Seq(D) /\ r.nsq \in Seq(D)
      /\ r.at = "run"
      /\ r.pq # {} => d \in r.pq
      /\ r.pq = {} => r.sq # <<>> /\ d = Last(r.sq)
  BY DEF Structure, Typed, ThreadsWell, OwnDomains, NextDomain, DomainsOf
<1>2. q = TakeDomain(o)
  BY DEF Taken
<1> HIDE DEF D, r
<1>3. o \in ThreadRecs /\ o.pq = r.pq /\ o.sq = r.sq /\ o.nsq = r.nsq /\ o.at = r.at /\ o.d = d /\ o.ev = r.ev
      /\ o.sim = r.sim /\ o.src = r.src /\ o.rel = r.rel
  BY <1>1 DEF ThreadRecs
<1>4. d \in D
  BY <1>1, SeqEnd
<1> HIDE DEF o
<1>5. /\ q \in ThreadRecs /\ SameRest(q, o) /\ q.pq \subseteq D /\ q.sq \in Seq(D) /\ q.nsq \in Seq(D)
      /\ o.pq # {} => q.pq = o.pq \ {o.d} /\ q.sq = o.sq /\ q.nsq = o.nsq /\ ~q.stalled
      /\ o.pq = {} => q.pq = {} /\ q.sq = Front(o.sq) /\ q.nsq = o.nsq /\ q.stalled
  BY <1>1, <1>2, <1>3, TakeIs
<1> QED
  BY <1>1, <1>3, <1>4, <1>5 DEF SameRest, D, r

LEMMA FinishDomainSound ==
  ASSUME Structure, NEW t \in Threads, NEW d \in Domains, FinishDomain(t, d) PROVE Structure'
<1> DEFINE q == Taken(t, d)
           r == Swap(q)
           D == DomainsOf(t)
<1>1. /\ mode = "weave" /\ th[t].at = "run" /\ NextDomain(t, d) /\ th' = [th EXCEPT ![t] = r]
      /\ dom' = [dom EXCEPT ![d].cur = limit]
      /\ h' = h /\ rec' = rec /\ threadOf' = threadOf /\ mode' = mode /\ limit' = limit
      /\ lastLimit' = lastLimit /\ threadsDone' = threadsDone /\ phases' = phases
  BY DEF FinishDomain, Taken, Structure, Typed
<1>2. q \in ThreadRecs /\ q.at = "run" /\ q.pq \subseteq D /\ q.sq \in Seq(D) /\ q.nsq \in Seq(D) /\ d \in D
  BY <1>1, TakenIs
<1>3. D \subseteq Domains
  BY DEF DomainsOf
<1> HIDE DEF q, D
<1>4. /\ r \in ThreadRecs /\ SameRest(r, q) /\ r.pq = q.pq /\ r.sq \in Seq(D) /\ r.nsq \in Seq(D)
      /\ r.pq = {} /\ r.sq = <<>> => r.nsq = <<>>
  BY <1>2, <1>3, SwapIs
<1> HIDE DEF r
<1>5. OwnDomains(r, D) /\ Runs(h'.ev, r) /\ r.at = "run"
  BY <1>2, <1>4 DEF OwnDomains, Runs, SameRest
<1>6. ClocksTyped'
  <2>1. limit \in Int /\ dom[d] \in [cur : Int, prio : 0..2, qprio : Int] /\ dom' = [dom EXCEPT ![d] = [dom[d] EXCEPT !.cur = limit]]
    BY <1>1 DEF Structure, Typed, ClocksTyped
  <2>2. [dom[d] EXCEPT !.cur = limit] \in [cur : Int, prio : 0..2, qprio : Int]
    BY <2>1
  <2> QED
    BY <1>1, <2>1, <2>2 DEF Structure, Typed, ClocksTyped
<1>7. Good(h', Others(t))
  BY <1>1, CrossingSplits DEF Structure
<1> QED
  BY <1>1, <1>4, <1>5, <1>6, <1>7, WeaveStep, SameKeeps DEF D

LEMMA ReadSourceSound ==
  ASSUME Structure, NEW t \in Threads, ReadSource(t) PROVE Structure'
<1> DEFINE o == th[t]
           e == h.ev[o.ev]
           src == Max2(dom[e.sd].cur + e.ps + e.qs, e.zll + rec[e.core].slack + e.qs)
           rel == e.zll + rec[e.core].slack + e.qs
           r == [o EXCEPT !.at = "recheck", !.src = src, !.rel = rel]
<1>1. /\ o.at = "xing" /\ th' = [th EXCEPT ![t] = r]
      /\ h' = h /\ rec' = rec /\ dom' = dom /\ threadOf' = threadOf /\ mode' = mode /\ limit' = limit
      /\ lastLimit' = lastLimit /\ threadsDone' = threadsDone /\ phases' = phases
  BY DEF ReadSource, Structure, Typed
<1>2. /\ mode = "weave" /\ o \in ThreadRecs /\ o.ev \in Live(h.ev) /\ h.ev[o.ev].k = "xing" /\ h.ev[o.ev].dom = o.d
      /\ OwnDomains(o, DomainsOf(t))
  BY <1>1 DEF Structure, Typed, ThreadsWell, Counted, Runs
<1>3. e \in Events /\ e.sd \in Domains /\ e.core \in Cores
  BY <1>2, LiveIds DEF Structure, Good, Graph
<1>4. e.ps \in Int /\ e.qs \in Int /\ e.zll \in Int /\ rec[e.core].slack \in Int /\ dom[e.sd].cur \in Int
  BY <1>3 DEF Structure, Typed, ClocksTyped, Events, Recorders
<1>5. src \in Int /\ rel \in Int
  <2> DEFINE a == dom[e.sd].cur
             b == rec[e.core].slack
  <2>1. e.ps \in Int /\ e.qs \in Int /\ e.zll \in Int /\ a \in Int /\ b \in Int
    BY <1>4
  <2> HIDE DEF a, b, e
  <2> QED
    BY ONLY <2>1 DEF Max2, a, b
<1> HIDE DEF src, rel, e, o
<1>6. r \in ThreadRecs
  BY <1>2, <1>5 DEF ThreadRecs
<1>7. /\ r.at = "recheck" /\ r.d = o.d /\ r.ev = o.ev /\ r.pq = o.pq /\ r.sq = o.sq /\ r.nsq = o.nsq
  BY <1>2 DEF ThreadRecs
<1> HIDE DEF r
<1>8. OwnDomains(r, DomainsOf(t)) /\ Runs(h'.ev, r)
  BY <1>1, <1>2, <1>7 DEF OwnDomains, Runs
<1>9. ClocksTyped'
  BY <1>1 DEF Structure, Typed, ClocksTyped
<1>10. Good(h', Others(t) \cup {r.ev})
  BY <1>1, <1>7, CrossingSplits DEF Structure, o
<1>11. th[t].at # "asleep" /\ r.at # "asleep"
  BY <1>1, <1>7 DEF o
<1> QED
  BY <1>1, <1>2, <1>6, <1>7, <1>8, <1>9, <1>10, <1>11, WeaveStep, SameKeeps

LEMMA ThreadDoneSound ==
  ASSUME Structure, NEW t \in Threads, ThreadDone(t) PROVE Structure'
<1> DEFINE n == threadsDone + 1
           N == Cardinality(SimThreads)
           o == th[t]
           r == [o EXCEPT !.at = "asleep", !.d = 0, !.stalled = FALSE]
<1>1. /\ mode = "weave" /\ o.at = "run" /\ o.pq = {} /\ o.sq = <<>> /\ th' = [th EXCEPT ![t] = r]
      /\ threadsDone' = (IF n = N THEN 0 ELSE n) /\ mode' = (IF n = N THEN "end" ELSE "weave")
      /\ h' = h /\ rec' = rec /\ dom' = dom /\ threadOf' = threadOf /\ limit' = limit
      /\ lastLimit' = lastLimit /\ phases' = phases
  BY DEF ThreadDone
<1>2. o \in ThreadRecs /\ th \in [Threads -> ThreadRecs] /\ OwnDomains(o, DomainsOf(t)) /\ o.nsq = <<>>
  BY <1>1 DEF Structure, Typed, ThreadsWell, OwnDomains
<1> HIDE DEF o
<1>3. r \in ThreadRecs /\ r.at = "asleep" /\ r.pq = o.pq /\ r.sq = o.sq /\ r.nsq = o.nsq
  BY <1>2 DEF ThreadRecs
<1> HIDE DEF r
<1>4. th'[t] = r /\ (\A u \in Threads \ {t} : th'[u] = th[u]) /\ th' \in [Threads -> ThreadRecs]
  BY <1>1, <1>2, <1>3
<1>5. Crossing' = Crossing
  BY <1>1, <1>3, <1>4 DEF Crossing, Crossers, o
<1>6. \A u \in Threads : DomainsOf(u)' = DomainsOf(u)
  BY <1>1 DEF DomainsOf
<1>7. t \in SimThreads
  BY <1>1, <1>2 DEF SimThreads, OwnDomains
<1>8. SimThreads' = SimThreads /\ Asleep' = Asleep \cup {t} /\ t \notin Asleep
  BY <1>1, <1>3, <1>4, <1>6, <1>7 DEF Asleep, SimThreads, o
<1>9. IsFiniteSet(SimThreads) /\ IsFiniteSet(Asleep) /\ Asleep' \subseteq SimThreads
  <2>1. IsFiniteSet(Threads)
    BY WeaveAssumption
  <2>2. SimThreads \subseteq Threads /\ Asleep \subseteq SimThreads
    BY DEF SimThreads, Asleep
  <2>3. IsFiniteSet(SimThreads)
    BY <2>1, <2>2, FS_Subset
  <2> QED
    BY <1>7, <1>8, <2>2, <2>3, FS_Subset
<1>10. threadsDone = Cardinality(Asleep) /\ Cardinality(Asleep') = n /\ n \in Nat
  BY <1>1, <1>8, <1>9, FS_AddElement, FS_CardinalityType DEF Structure, Counted
<1>11. n = N => Asleep' = SimThreads
  BY <1>9, <1>10, FS_Subset
<1>12. ASSUME NEW u \in Threads
       PROVE  OwnDomains(th'[u], DomainsOf(u)) /\ Runs(h'.ev, th'[u])
  <2>1. CASE u = t
    <3>1. <<>> \in Seq(DomainsOf(t))
      OBVIOUS
    <3>2. OwnDomains(r, DomainsOf(t)) /\ Runs(h'.ev, r)
      BY <1>1, <1>2, <1>3, <3>1 DEF OwnDomains, Runs
    <3> QED
      BY <1>4, <2>1, <3>2
  <2>2. CASE u # t
    <3>1. OwnDomains(th[u], DomainsOf(u)) /\ Runs(h.ev, th[u])
      BY DEF Structure, ThreadsWell
    <3> QED
      BY <1>1, <1>4, <2>2, <3>1
  <2> QED
    BY <2>1, <2>2
<1>13. ThreadsWell'
  BY <1>6, <1>12 DEF ThreadsWell
<1>14. Typed'
  BY <1>1, <1>4 DEF Structure, Typed, ClocksTyped
<1>15. ASSUME n = N
       PROVE  \A u \in Threads : th'[u].at = "asleep"
  <2> TAKE u \in Threads
  <2>1. CASE u \in SimThreads
    BY <1>8, <1>11, <1>15, <2>1 DEF Asleep
  <2>2. CASE u \notin SimThreads
    BY <1>12, <2>2 DEF SimThreads, OwnDomains
  <2> QED
    BY <2>1, <2>2
<1>16. Counted'
  BY <1>1, <1>10, <1>15 DEF Counted
<1>17. Good(h', Crossing')
  BY <1>1, <1>5 DEF Structure
<1> QED
  BY <1>13, <1>14, <1>16, <1>17 DEF Structure

LEMMA PublishSound ==
  ASSUME Structure, NEW t \in Threads, Publish(t), ~h'.bad PROVE Structure'
<1> DEFINE o == th[t]
           D == DomainsOf(t)
           back == IF HasOne(t) \/ dom[o.d].prio = 0
                   THEN [o EXCEPT !.pq = @ \cup {o.d}]
                   ELSE IF o.stalled THEN [o EXCEPT !.nsq = Append(@, o.d)]
                   ELSE [o EXCEPT !.sq = Append(@, o.d)]
           q == [back EXCEPT !.at = "run", !.ev = NoEv, !.sim = 0]
           r == Swap(q)
<1>1. /\ o.at = "publish" /\ th' = [th EXCEPT ![t] = r]
      /\ rec' = rec /\ threadOf' = threadOf /\ mode' = mode /\ limit' = limit
      /\ lastLimit' = lastLimit /\ threadsDone' = threadsDone /\ phases' = phases
  BY DEF Publish
<1>2. PICK c \in IF Queue(o.d) = {} THEN {limit} ELSE {x[1] : x \in Queue(o.d)} :
        /\ h' = Check(h, HasOne(t) => c >= dom[o.d].cur)
        /\ dom' = [dom EXCEPT ![o.d] = [dom[o.d] EXCEPT !.cur = c, !.qprio = IF HasOne(t) THEN dom[o.d].qprio ELSE c]]
  BY DEF Publish
<1>3. /\ o \in ThreadRecs /\ o.pq \subseteq D /\ o.sq \in Seq(D) /\ o.nsq \in Seq(D) /\ o.d \in D /\ D \subseteq Domains
      /\ Good(h, Crossing) /\ mode = "weave" /\ limit \in Int /\ o.d \in Domains
  BY <1>1 DEF Structure, Typed, ThreadsWell, Counted, OwnDomains, DomainsOf
<1>4. c \in Int
  <2>1. \A x \in h.q[o.d] : x[1] \in Int
    BY <1>3, Waits DEF Good
  <2> QED
    BY <1>2, <1>3, <2>1 DEF Queue
<1>5. ClocksTyped'
  <2> DEFINE g == IF HasOne(t) THEN dom[o.d].qprio ELSE c
             n == [dom[o.d] EXCEPT !.cur = c, !.qprio = g]
  <2>1. dom \in [Domains -> [cur : Int, prio : 0..2, qprio : Int]]
    BY DEF Structure, Typed, ClocksTyped
  <2>2. g \in Int
    BY <1>3, <1>4, <2>1
  <2>3. dom' = [dom EXCEPT ![o.d] = n]
    <3> HIDE DEF o
    <3> QED
      BY <1>2, Zenon
  <2> HIDE DEF g
  <2>4. n \in [cur : Int, prio : 0..2, qprio : Int]
    BY <1>3, <1>4, <2>1, <2>2
  <2> HIDE DEF n
  <2> QED
    BY <1>1, <1>3, <2>1, <2>3, <2>4 DEF Structure, Typed, ClocksTyped
<1>6. /\ back \in ThreadRecs /\ back.pq \subseteq D /\ back.sq \in Seq(D) /\ back.nsq \in Seq(D)
  <2> HIDE DEF o, D
  <2>1. Append(o.sq, o.d) \in Seq(D) /\ Append(o.nsq, o.d) \in Seq(D) /\ Seq(D) \subseteq Seq(Domains)
    BY <1>3, OneDomainSeq
  <2>2. [o EXCEPT !.pq = @ \cup {o.d}] \in ThreadRecs /\ [o EXCEPT !.pq = @ \cup {o.d}].pq \subseteq D
        /\ [o EXCEPT !.pq = @ \cup {o.d}].sq = o.sq /\ [o EXCEPT !.pq = @ \cup {o.d}].nsq = o.nsq
    BY <1>3 DEF ThreadRecs
  <2> DEFINE s == Append(o.sq, o.d)
             u == Append(o.nsq, o.d)
             qs == [o EXCEPT !.sq = s]
             qu == [o EXCEPT !.nsq = u]
  <2>3. s \in Seq(D) /\ u \in Seq(D) /\ s \in Seq(Domains) /\ u \in Seq(Domains)
    BY <2>1
  <2> HIDE DEF s, u
  <2>4. qs \in ThreadRecs /\ qs.pq = o.pq /\ qs.sq = s /\ qs.nsq = o.nsq
    BY <1>3, <2>3 DEF ThreadRecs
  <2>5. qu \in ThreadRecs /\ qu.pq = o.pq /\ qu.sq = o.sq /\ qu.nsq = u
    BY <1>3, <2>3 DEF ThreadRecs
  <2>6. back \in {[o EXCEPT !.pq = @ \cup {o.d}], qs, qu}
    BY DEF s, u
  <2> HIDE DEF back, qs, qu
  <2> QED
    BY <1>3, <2>2, <2>3, <2>4, <2>5, <2>6
<1> HIDE DEF back, o, D
<1>7. q \in ThreadRecs /\ q.at = "run" /\ q.pq = back.pq /\ q.sq = back.sq /\ q.nsq = back.nsq
  <2> DEFINE a == [back EXCEPT !.at = "run"]
             b == [a EXCEPT !.ev = NoEv]
             e == [b EXCEPT !.sim = 0]
  <2>1. q = e
    BY <1>6 DEF ThreadRecs
  <2>2. a \in ThreadRecs /\ a.at = "run" /\ a.pq = back.pq /\ a.sq = back.sq /\ a.nsq = back.nsq
    BY <1>6 DEF ThreadRecs
  <2> HIDE DEF a
  <2>3. b \in ThreadRecs /\ b.at = "run" /\ b.pq = back.pq /\ b.sq = back.sq /\ b.nsq = back.nsq
    BY <2>2 DEF ThreadRecs
  <2> HIDE DEF b
  <2>4. e \in ThreadRecs /\ e.at = "run" /\ e.pq = back.pq /\ e.sq = back.sq /\ e.nsq = back.nsq
    BY <2>3 DEF ThreadRecs
  <2> QED
    BY <2>1, <2>4
<1> HIDE DEF q
<1>8. /\ r \in ThreadRecs /\ SameRest(r, q) /\ r.pq = q.pq /\ r.sq \in Seq(D) /\ r.nsq \in Seq(D)
      /\ r.pq = {} /\ r.sq = <<>> => r.nsq = <<>>
  BY <1>3, <1>6, <1>7, SwapIs
<1> HIDE DEF r
<1>9. OwnDomains(r, D) /\ Runs(h'.ev, r) /\ r.at = "run"
  BY <1>3, <1>6, <1>7, <1>8 DEF OwnDomains, Runs, SameRest
<1>10. Good(h', Crossing) /\ h'.ev = h.ev
  <2> DEFINE w == HasOne(t) => c >= dom[o.d].cur
  <2>1. w \in BOOLEAN /\ h' = Check(h, w) /\ IsHeap(h)
    BY <1>2, <1>3 DEF Good
  <2> HIDE DEF w
  <2>2. IsHeap(h') /\ h'.ev = h.ev /\ h'.q = h.q /\ h'.last = h.last
    BY <2>1, CheckIs
  <2> QED
    BY <1>3, <2>2 DEF Good
<1>11. Crossing = Others(t) /\ th[t].at # "asleep"
  BY <1>1, CrossingSplits DEF o
<1> QED
  BY <1>1, <1>3, <1>5, <1>8, <1>9, <1>10, <1>11, WeaveStep, SameKeeps DEF D

(* What ended took nothing else with it.                                   *)
LEMMA HeardKeeps ==
  ASSUME NEW ev, NEW i, NEW end, NEW n, Heard(ev, i, end, n), Live(n) = Live(ev) \ {i}
  PROVE  Keeps(ev, n)
<1>1. ASSUME NEW j \in Live(n) PROVE j \in Live(ev) /\ n[j].k = ev[j].k /\ n[j].dom = ev[j].dom
  <2>1. j \in Ids \ {i} /\ j \in Live(ev)
    BY LiveIds
  <2> QED
    BY <2>1 DEF Heard
<1> QED
  BY <1>1 DEF Keeps

(* A crossing that was called runs.                                        *)
LEMMA CrossingRuns ==
  ASSUME NEW R, NEW s, Good(s, R), NEW i \in R, s.ev[i].called, NEW cycle \in Int, NEW D,
         RunCrossing(s, D, i, cycle), ~h'.bad
  PROVE  Good(h', R \ {i}) /\ Keeps(s.ev, h'.ev)
<1> DEFINE e == s.ev[i]
           z == Max2(cycle, e.done)
           n == Done(s, D, i, z)
           late == cycle > Max2(e.due, e.done + e.ps + e.qs)
           b == n.late \/ late
<1>1. h' = [n EXCEPT !.late = b]
  BY DEF RunCrossing
<1>2. IsHeap(s) /\ Graph(s.ev) /\ s.q \in Queues /\ i \in Live(s.ev) /\ i \in Ids /\ s.ev \in [Ids -> Events]
  BY LiveIds DEF Good, Waiting, Graph
<1>3. z \in Int
  <2>1. e.done \in Int
    BY <1>2 DEF Events
  <2> HIDE DEF e
  <2> QED
    BY <2>1, MaxType
<1> HIDE DEF z
<1>4. IsHeap(n)
  BY <1>2, DoneIs
<1>5. b \in BOOLEAN
  BY <1>4 DEF IsHeap
<1> HIDE DEF b, n
<1>6. IsHeap(h') /\ h'.ev = n.ev /\ h'.q = n.q /\ h'.last = n.last /\ h'.bad = n.bad
  BY <1>1, <1>4, <1>5 DEF IsHeap
<1>7. Good(n, R \ {i}) /\ Heard(s.ev, i, z + s.ev[i].post, n.ev) /\ Live(n.ev) = Live(s.ev) \ {i}
  <2>1. Good(s, R) /\ i \in R /\ s.ev[i].called /\ z \in Int /\ n = Done(s, D, i, z) /\ ~n.bad
    BY <1>3, <1>6 DEF n
  <2> QED
    <3>1. DoneBy(R, s, D, i, z, n)
      BY ONLY <2>1, GoodDone
    <3> QED
      BY <3>1 DEF DoneBy
<1> QED
  BY <1>6, <1>7, HeardKeeps DEF Good

LEMMA RecheckSound ==
  ASSUME Structure, NEW t \in Threads, Recheck(t), ~h'.bad PROVE Structure'
<1> DEFINE o == th[t]
           i == o.ev
           next == Max2(o.src, o.sim)
           r == [o EXCEPT !.at = "publish", !.src = 0, !.rel = 0]
           R == Crossing
<1>1. /\ o.at = "recheck" /\ th' = [th EXCEPT ![t] = r]
      /\ rec' = rec /\ threadOf' = threadOf /\ mode' = mode /\ limit' = limit
      /\ lastLimit' = lastLimit /\ threadsDone' = threadsDone /\ phases' = phases
  BY DEF Recheck, Structure, Typed
<1>2. /\ mode = "weave" /\ o \in ThreadRecs /\ i \in Live(h.ev) /\ h.ev[i].k = "xing" /\ h.ev[i].dom = o.d
      /\ OwnDomains(o, DomainsOf(t)) /\ o.d \in Domains
  BY <1>1 DEF Structure, Typed, ThreadsWell, Counted, Runs, OwnDomains, DomainsOf
<1>3. Good(h, R) /\ i \in R /\ R \ {i} = Others(t)
  BY <1>1, CrossersApart DEF Structure, Crossing, Crossers
<1>4. o.sim \in Int /\ o.src \in Int /\ o.rel \in Int
  BY <1>2 DEF ThreadRecs
<1>5. next \in Int
  BY <1>4, MaxType
<1>6. Good(h', R \ {i}) /\ Keeps(h.ev, h'.ev)
  <2>1. CASE h.ev[i].called
    <3>1. RunCrossing(h, Clocks(o.d, o.sim), i, o.sim)
      BY <2>1 DEF Recheck
    <3> HIDE DEF R, i, o
    <3> QED
      BY <1>3, <1>4, <2>1, <3>1, CrossingRuns
  <2>2. CASE ~h.ev[i].called
    <3> DEFINE D == Clocks(o.d, o.sim)
    <3>1. h' = Enqueue([h EXCEPT !.ev[i].np = 0, !.ev[i].due = Max2(@, o.rel)], D, i, next)
      BY <2>2 DEF Recheck
    <3> DEFINE rel == o.rel
    <3> HIDE DEF R, i, o, next, D, rel
    <3>2. Good(h', R \ {i}) /\ h'.ev = Redue(h.ev, i, rel) /\ Live(h'.ev) = Live(h.ev)
      <4>1. Good(h, R) /\ i \in R /\ rel \in Int /\ next \in Int /\ ~h'.bad
        BY <1>3, <1>4, <1>5 DEF rel
      <4>2. h' = Enqueue([h EXCEPT !.ev[i].np = 0, !.ev[i].due = Max2(@, rel)], D, i, next)
        BY <3>1 DEF rel
      <4>3. AgainBy(R, h, D, i, rel, next, h')
        BY ONLY <4>1, <4>2, GoodAgain
      <4> QED
        BY <4>3 DEF AgainBy
    <3>3. i \in Ids /\ h.ev \in [Ids -> Events] /\ rel \in Int
      BY <1>2, <1>4, <1>3, LiveIds DEF Good, Graph, rel
    <3>4. \A j \in Ids : Redue(h.ev, i, rel)[j].k = h.ev[j].k /\ Redue(h.ev, i, rel)[j].dom = h.ev[j].dom
      <4> DEFINE ev == h.ev
                 n == Redue(ev, i, rel)
      <4>1. ev \in [Ids -> Events]
        BY <3>3
      <4> HIDE DEF ev
      <4>2. (\A j \in Ids \ {i} : n[j] = ev[j]) /\ n[i].k = ev[i].k /\ n[i].dom = ev[i].dom
        BY <3>3, <4>1, RedueIs
      <4> HIDE DEF n
      <4>3. \A j \in Ids : n[j].k = ev[j].k /\ n[j].dom = ev[j].dom
        BY <4>2
      <4> QED
        BY <4>3 DEF n, ev
    <3> QED
      BY <3>2, <3>4, LiveIds DEF Keeps
  <2> QED
    BY <2>1, <2>2
<1>7. ClocksTyped'
  <2> DEFINE p == IF h.ev[i].called THEN 0 ELSE IF next = o.sim THEN 1 ELSE 2
             u == [dom[o.d] EXCEPT !.prio = p]
  <2>1. dom \in [Domains -> [cur : Int, prio : 0..2, qprio : Int]]
    BY DEF Structure, Typed, ClocksTyped
  <2>2. dom' = [dom EXCEPT ![o.d] = u]
    <3>1. dom' = [dom EXCEPT ![o.d].prio = p]
      BY DEF Recheck
    <3> HIDE DEF p
    <3> QED
      BY <1>2, <2>1, <3>1
  <2>3. p \in 0..2
    OBVIOUS
  <2> HIDE DEF p, o
  <2>4. u \in [cur : Int, prio : 0..2, qprio : Int]
    BY <1>2, <2>1, <2>3
  <2> HIDE DEF u
  <2> QED
    BY <1>1, <1>2, <2>1, <2>2, <2>4 DEF Structure, Typed, ClocksTyped
<1> HIDE DEF o, i
<1>8. /\ r \in ThreadRecs /\ r.at = "publish" /\ r.d = o.d /\ r.pq = o.pq /\ r.sq = o.sq /\ r.nsq = o.nsq
  <2> DEFINE a == [o EXCEPT !.at = "publish"]
             b == [a EXCEPT !.src = 0]
             c == [b EXCEPT !.rel = 0]
  <2>1. r = c /\ 0 \in Int
    BY <1>2 DEF ThreadRecs
  <2>2. a \in ThreadRecs /\ a.at = "publish" /\ a.d = o.d /\ a.pq = o.pq /\ a.sq = o.sq /\ a.nsq = o.nsq
    BY <1>2 DEF ThreadRecs
  <2> HIDE DEF a
  <2>3. b \in ThreadRecs /\ b.at = "publish" /\ b.d = o.d /\ b.pq = o.pq /\ b.sq = o.sq /\ b.nsq = o.nsq
    BY <2>1, <2>2 DEF ThreadRecs
  <2> HIDE DEF b
  <2>4. c \in ThreadRecs /\ c.at = "publish" /\ c.d = o.d /\ c.pq = o.pq /\ c.sq = o.sq /\ c.nsq = o.nsq
    BY <2>1, <2>3 DEF ThreadRecs
  <2> QED
    BY <2>1, <2>4
<1> HIDE DEF r
<1>9. OwnDomains(r, DomainsOf(t)) /\ Runs(h'.ev, r)
  BY <1>1, <1>2, <1>8 DEF OwnDomains, Runs
<1>10. Good(h', Others(t)) /\ th[t].at # "asleep"
  BY <1>1, <1>3, <1>6 DEF o
<1> QED
  BY <1>1, <1>2, <1>6, <1>7, <1>8, <1>9, <1>10, WeaveStep

(* An event of a core, not a crossing, runs.                               *)
LEMMA ContentionIs ==
  ASSUME NEW e, NEW more \in IF e.k = "acc" THEN Contention ELSE {0} PROVE more \in Int
  BY WeaveAssumption

LEMMA EventRuns ==
  ASSUME NEW R, NEW s, Good(s, R), NEW i \in R, s.ev[i].k # "xing", NEW cycle \in Int, NEW D,
         rec \in [Cores -> Recorders], RunEvent(s, D, i, cycle), ~h'.bad
  PROVE  Good(h', R \ {i}) /\ Keeps(s.ev, h'.ev) /\ rec' \in [Cores -> Recorders]
<1> DEFINE e == s.ev[i]
           o == rec[e.core]
           z == e.zll
           last == IF o.last = i THEN NoEv ELSE o.last
           slack == cycle - z
           r == [o EXCEPT !.simZll = z, !.simStart = cycle, !.slack = slack, !.last = last]
<1>1. PICK more \in IF e.k = "acc" THEN Contention ELSE {0} :
        /\ h' = Done(s, D, i, cycle + more)
        /\ rec' = IF e.k # "issue" THEN rec ELSE [rec EXCEPT ![e.core] = r]
  BY DEF RunEvent
<1>2. i \in Live(s.ev) /\ i \in Ids /\ e \in Events /\ e.core \in Cores
  BY LiveIds DEF Good, Waiting, Graph
<1>3. cycle + more \in Int
  <2>1. more \in Int
    BY <1>1, ContentionIs
  <2> QED
    BY <2>1
<1>4. Good(h', R \ {i}) /\ Keeps(s.ev, h'.ev)
  <2> DEFINE end == cycle + more
  <2>1. Good(s, R) /\ i \in R /\ s.ev[i].k # "xing" /\ end \in Int /\ h' = Done(s, D, i, end) /\ ~h'.bad
    BY <1>1, <1>3
  <2> HIDE DEF end
  <2>2. DoneBy(R, s, D, i, end, h')
    BY ONLY <2>1, GoodDone
  <2> QED
    BY <2>2, HeardKeeps DEF DoneBy
<1>5. z \in Int /\ slack \in Int /\ last \in Ids \cup {NoEv} /\ o \in Recorders
  <2>1. z \in Int /\ o \in Recorders
    BY <1>2 DEF Events
  <2> HIDE DEF z, o
  <2> QED
    BY <2>1 DEF Recorders
<1> HIDE DEF z, slack, last, o
<1>6. r \in Recorders
  <2> DEFINE a == [o EXCEPT !.simZll = z]
             b == [a EXCEPT !.simStart = cycle]
             f == [b EXCEPT !.slack = slack]
             g == [f EXCEPT !.last = last]
  <2>1. r = g
    BY <1>5 DEF Recorders
  <2>2. a \in Recorders
    BY <1>5 DEF Recorders
  <2> HIDE DEF a
  <2>3. b \in Recorders
    BY <2>2 DEF Recorders
  <2> HIDE DEF b
  <2>4. f \in Recorders
    BY <1>5, <2>3 DEF Recorders
  <2> HIDE DEF f
  <2>5. g \in Recorders
    BY <1>5, <2>4 DEF Recorders
  <2> QED
    BY <2>1, <2>5
<1> HIDE DEF r
<1>7. rec' \in [Cores -> Recorders]
  BY <1>1, <1>2, <1>6
<1> QED
  BY <1>4, <1>7

(* An event that ran on a heap that was bad leaves it so.                  *)
LEMMA RunSpoils ==
  ASSUME NEW s, IsHeap(s), Graph(s.ev), s.q \in Queues, NEW i \in Live(s.ev), NEW cycle, NEW D,
         RunCrossing(s, D, i, cycle) \/ RunEvent(s, D, i, cycle), s.bad
  PROVE  h'.bad
<1>1. \A z : LET n == Done(s, D, i, z) IN IsHeap(n) /\ n.bad
  <2> TAKE z
  <2> DEFINE n == Done(s, D, i, z)
  <2>1. IsHeap(n) /\ (n.bad <=> (s.bad \/ ~DoneWell(s, D, i, z + s.ev[i].post,
          Hear(s.ev, i, z + s.ev[i].post, DOMAIN s.ev[i].kids, DOMAIN s.ev[i].outs))))
    BY DoneIs
  <2> QED
    BY <2>1
<1>2. CASE RunCrossing(s, D, i, cycle)
  <2> DEFINE n == Done(s, D, i, Max2(cycle, s.ev[i].done))
             b == n.late \/ cycle > Max2(s.ev[i].due, s.ev[i].done + s.ev[i].ps + s.ev[i].qs)
  <2>1. h' = [n EXCEPT !.late = b]
    BY <1>2 DEF RunCrossing
  <2>2. IsHeap(n) /\ n.bad
    BY <1>1
  <2> HIDE DEF n, b
  <2> QED
    BY <2>1, <2>2 DEF IsHeap
<1>3. CASE RunEvent(s, D, i, cycle)
  <2>1. \E more : h' = Done(s, D, i, cycle + more)
    BY <1>3 DEF RunEvent
  <2> QED
    BY <1>1, <2>1
<1> QED
  BY <1>2, <1>3

LEMMA TakeSpoils ==
  ASSUME NEW s, IsHeap(s), s.q \in Queues, NEW d \in Domains, NEW x, NEW c \in BOOLEAN,
         NEW n, n = Took(s, c, d, x)
  PROVE  IsHeap(n) /\ n.ev = s.ev /\ n.q \in Queues
<1> DEFINE k == Check(s, c)
           u == Drop(s.q, d, x)
<1>1. IsHeap(k) /\ k.ev = s.ev /\ k.q = s.q
  BY CheckIs
<1> HIDE DEF k
<1>2. n = [k EXCEPT !.q = u]
  BY <1>1 DEF k, Drop, Took
<1>3. u \in Queues
  BY DEF Drop, Queues
<1> HIDE DEF u
<1> QED
  BY <1>1, <1>2, <1>3 DEF IsHeap

LEMMA DequeueSound ==
  ASSUME Structure, NEW t \in Threads, NEW d \in Domains, Dequeue(t, d), ~h'.bad PROVE Structure'
<1> DEFINE c(x) == x[1]
           ok(x) == /\ HasOne(t) => x[1] >= dom[d].cur
                    /\ th[t].pq # {} => x[1] >= h.ev[x[2]].min
           S(x) == Took(h, ok(x), d, x)
           W(x) == h.ev[x[2]].k = "xing" /\ ~h.ev[x[2]].called
           at(x) == IF W(x) THEN "xing" ELSE "publish"
           o == Taken(t, d)
           Q(x) == [o EXCEPT !.at = at(x), !.ev = x[2], !.sim = x[1]]
           P(x) == IF h.ev[x[2]].k = "xing" /\ h.ev[x[2]].called THEN 0 ELSE dom[d].prio
<1>1. PICK x \in Queue(d) :
        /\ dom' = [dom EXCEPT ![d] = [dom[d] EXCEPT !.cur = x[1], !.prio = P(x)]]
        /\ th' = [th EXCEPT ![t] = Q(x)]
        /\ CASE W(x) -> h' = S(x) /\ UNCHANGED rec
             [] h.ev[x[2]].k = "xing" /\ h.ev[x[2]].called ->
                  RunCrossing(S(x), Clocks(d, x[1]), x[2], x[1]) /\ UNCHANGED rec
             [] OTHER -> RunEvent(S(x), Clocks(d, x[1]), x[2], x[1])
  BY DEF Dequeue, Taken, Took, Structure, Typed
<1> DEFINE i == x[2]
           z == x[1]
           e == h.ev[i]
           b == ok(x)
           s == S(x)
           D == Clocks(d, z)
           q == Q(x)
<1>2. /\ mode = "weave" /\ th[t].at = "run" /\ NextDomain(t, d)
      /\ threadOf' = threadOf /\ mode' = mode /\ limit' = limit
      /\ lastLimit' = lastLimit /\ threadsDone' = threadsDone /\ phases' = phases
  BY DEF Dequeue
<1>3. Good(h, Crossing) /\ IsHeap(h) /\ h.q \in Queues /\ Graph(h.ev) /\ x \in h.q[d]
      /\ rec \in [Cores -> Recorders] /\ dom \in [Domains -> [cur : Int, prio : 0..2, qprio : Int]]
  BY <1>1 DEF Structure, Typed, ClocksTyped, Good, Waiting, Queue
<1>4. z \in Int /\ i \in Live(h.ev) /\ i \in Ids /\ e.dom = d /\ i \notin Crossing
  <2>1. Waiting(h.ev, h.q, Crossing)
    BY <1>3 DEF Good
  <2> QED
    BY <1>3, <2>1, Waits
<1>5. b \in BOOLEAN /\ s = Took(h, b, d, x)
  OBVIOUS
<1>6. dom' = [dom EXCEPT ![d] = [dom[d] EXCEPT !.cur = z, !.prio = P(x)]] /\ th' = [th EXCEPT ![t] = q]
  BY <1>1
<1>7. \/ e.k = "xing" /\ ~e.called /\ h' = s /\ rec' = rec
      \/ e.k = "xing" /\ e.called /\ RunCrossing(s, D, i, z) /\ rec' = rec
      \/ e.k # "xing" /\ RunEvent(s, D, i, z)
  BY <1>1
<1> DEFINE p == P(x)
<1>8. p \in 0..2
  BY <1>3
<1> HIDE DEF b, s, D, i, z, p
<1>9. IsHeap(s) /\ s.ev = h.ev /\ s.q \in Queues
  BY <1>3, <1>5, TakeSpoils
<1>10. ~s.bad
  <2>1. SUFFICES ASSUME s.bad PROVE h'.bad
    OBVIOUS
  <2>2. i \in Live(s.ev) /\ Graph(s.ev)
    BY <1>3, <1>4, <1>9
  <2>3. h' = s \/ RunCrossing(s, D, i, z) \/ RunEvent(s, D, i, z)
    BY <1>7
  <2> HIDE DEF e
  <2> QED
    BY <1>9, <2>1, <2>2, <2>3, RunSpoils
<1> DEFINE R == Crossing \cup {i}
<1>11. Good(s, R)
  <2>1. Good(h, Crossing) /\ d \in Domains /\ x \in h.q[d] /\ b \in BOOLEAN
        /\ s = Took(h, b, d, x) /\ ~s.bad
    BY <1>3, <1>5, <1>10
  <2>2. Good(s, Crossing \cup {x[2]})
    BY ONLY <2>1, GoodTake
  <2> QED
    BY <2>2 DEF i
<1>12. i \in R /\ R \ {i} = Others(t) /\ Crossing = Others(t)
  BY <1>2, <1>4, CrossingSplits
<1> HIDE DEF R
<1>13. /\ o \in ThreadRecs /\ o.at = "run" /\ o.d = d /\ d \in DomainsOf(t)
       /\ o.pq \subseteq DomainsOf(t) /\ o.sq \in Seq(DomainsOf(t)) /\ o.nsq \in Seq(DomainsOf(t))
  BY <1>2, TakenIs
<1> DEFINE w == at(x)
<1>14. w = (IF e.k = "xing" /\ ~e.called THEN "xing" ELSE "publish")
  BY DEF i
<1>15. q = [o EXCEPT !.at = w, !.ev = i, !.sim = z]
  BY DEF i, z
<1> HIDE DEF o, q, w, e
<1>16. /\ q \in ThreadRecs /\ q.at = w /\ q.ev = i /\ q.d = d
       /\ q.pq \subseteq DomainsOf(t) /\ q.sq \in Seq(DomainsOf(t)) /\ q.nsq \in Seq(DomainsOf(t))
  <2> DEFINE f == [o EXCEPT !.at = w]
             g == [f EXCEPT !.ev = i]
             k == [g EXCEPT !.sim = z]
  <2>1. q = k
    BY <1>13, <1>15 DEF ThreadRecs
  <2>2. f \in ThreadRecs /\ f.at = w /\ f.d = o.d /\ f.pq = o.pq /\ f.sq = o.sq /\ f.nsq = o.nsq
    BY <1>13, <1>14 DEF ThreadRecs
  <2> HIDE DEF f
  <2>3. g \in ThreadRecs /\ g.at = w /\ g.ev = i /\ g.d = o.d /\ g.pq = o.pq /\ g.sq = o.sq /\ g.nsq = o.nsq
    BY <1>4, <2>2 DEF ThreadRecs
  <2> HIDE DEF g
  <2>4. k \in ThreadRecs /\ k.at = w /\ k.ev = i /\ k.d = o.d /\ k.pq = o.pq /\ k.sq = o.sq /\ k.nsq = o.nsq
    BY <1>4, <2>3 DEF ThreadRecs
  <2> QED
    BY <1>13, <2>1, <2>4
<1>17. /\ rec' \in [Cores -> Recorders] /\ Keeps(h.ev, h'.ev)
       /\ Good(h', Others(t) \cup (IF q.at \in {"xing", "recheck"} THEN {q.ev} ELSE {}))
       /\ Runs(h'.ev, q)
  <2>1. CASE e.k = "xing" /\ ~e.called /\ h' = s /\ rec' = rec
    <3>1. q.at = "xing" /\ R = Others(t) \cup {q.ev} /\ h'.ev = h.ev
      BY <1>9, <1>12, <1>14, <1>16, <2>1 DEF R
    <3>2. Good(h', R)
      BY <1>11, <2>1
    <3>3. q.ev \in Live(h'.ev) /\ h'.ev[q.ev].k = "xing" /\ h'.ev[q.ev].dom = q.d
      BY <1>4, <1>16, <2>1, <3>1 DEF e
    <3> QED
      BY <1>3, <2>1, <3>1, <3>2, <3>3, SameKeeps DEF Runs
  <2>2. CASE e.k = "xing" /\ e.called /\ RunCrossing(s, D, i, z) /\ rec' = rec
    <3>1. q.at = "publish" /\ ~(q.at \in {"xing", "recheck"})
      BY <1>14, <1>16, <2>2
    <3>2. s.ev[i].called
      BY <1>9, <2>2 DEF e
    <3>3. Good(h', R \ {i}) /\ Keeps(s.ev, h'.ev)
      BY <1>4, <1>11, <1>12, <2>2, <3>2, CrossingRuns
    <3> QED
      BY <1>3, <1>9, <1>12, <2>2, <3>1, <3>3 DEF Runs
  <2>3. CASE e.k # "xing" /\ RunEvent(s, D, i, z)
    <3>1. q.at = "publish" /\ ~(q.at \in {"xing", "recheck"})
      BY <1>14, <1>16, <2>3
    <3>2. s.ev[i].k # "xing"
      BY <1>9, <2>3 DEF e
    <3>3. Good(h', R \ {i}) /\ Keeps(s.ev, h'.ev) /\ rec' \in [Cores -> Recorders]
      BY <1>3, <1>4, <1>11, <1>12, <2>3, <3>2, EventRuns
    <3> QED
      BY <1>9, <1>12, <3>1, <3>3 DEF Runs
  <2> QED
    BY <1>7, <2>1, <2>2, <2>3
<1>18. ClocksTyped'
  <2> DEFINE u == [dom[d] EXCEPT !.cur = z, !.prio = p]
  <2>1. u \in [cur : Int, prio : 0..2, qprio : Int]
    BY <1>3, <1>4, <1>8
  <2>2. dom' = [dom EXCEPT ![d] = u]
    BY <1>6 DEF p
  <2> HIDE DEF u
  <2>3. dom' \in [Domains -> [cur : Int, prio : 0..2, qprio : Int]]
    BY <1>3, <2>1, <2>2
  <2> QED
    BY <1>2, <1>17, <2>3 DEF Structure, Typed, ClocksTyped
<1>19. OwnDomains(q, DomainsOf(t)) /\ q.at # "asleep" /\ th[t].at # "asleep"
  BY <1>2, <1>13, <1>14, <1>16 DEF OwnDomains
<1> QED
  BY <1>2, <1>6, <1>16, <1>17, <1>18, <1>19, WeaveStep

-----------------------------------------------------------------------------
(* The invariant holds at first, and every step keeps it.                  *)
LEMMA InitSound ==
  ASSUME Init PROVE Structure
<1>1. threadOf \in [Domains -> Threads]
  BY WeaveAssumption DEF Init
<1>2. Recorder \in Recorders
  BY DEF Recorder, Recorders, NoEv
<1>3. ClocksTyped
  <2>1. [cur |-> 0, prio |-> 0, qprio |-> 0] \in [cur : Int, prio : 0..2, qprio : Int]
    OBVIOUS
  <2> QED
    BY <1>2, <2>1 DEF Init, ClocksTyped
<1> DEFINE r == [at |-> "asleep", d |-> 0, ev |-> NoEv, sim |-> 0, src |-> 0, rel |-> 0,
                 stalled |-> FALSE, pq |-> {}, sq |-> <<>>, nsq |-> <<>>]
<1>4. r \in ThreadRecs /\ r.at = "asleep" /\ r.pq = {} /\ r.sq = <<>> /\ r.nsq = <<>>
  <2>1. <<>> \in Seq(Domains)
    OBVIOUS
  <2> QED
    BY <2>1 DEF ThreadRecs
<1>5. th = [t \in Threads |-> r]
  BY DEF Init
<1> HIDE DEF r
<1>6. Typed
  <2>1. th \in [Threads -> ThreadRecs]
    BY <1>4, <1>5
  <2>2. limit = 0 /\ phases = 0 /\ mode = "bound"
    BY DEF Init
  <2> QED
    BY ONLY <1>1, <1>3, <2>1, <2>2 DEF Typed
<1>7. \A t \in Threads : th[t].at = "asleep"
  BY <1>4, <1>5
<1>8. Crossing = {} /\ \A t \in Threads : Runs(h.ev, th[t])
  BY <1>7, SleepersCrossNothing
<1>9. ThreadsWell
  <2>1. \A D : <<>> \in Seq(D)
    OBVIOUS
  <2>2. \A t \in Threads : OwnDomains(th[t], DomainsOf(t))
    BY <1>4, <1>5, <2>1 DEF OwnDomains
  <2> QED
    BY <1>8, <2>2 DEF ThreadsWell
<1>10. Counted
  BY <1>7 DEF Init, Counted
<1> DEFINE ev == [i \in Ids |-> Free]
           q == [d \in Domains |-> {}]
           last == [x \in Cores \X Domains \X Domains |-> [cyc |-> 0, ev |-> NoEv]]
<1>11. IsHeap(h) /\ h.ev = ev /\ h.q = q /\ h.last = last /\ ~h.bad
  BY DEF Init, IsHeap
<1>12. last \in Lasts
  BY DEF Lasts, NoEv
<1>13. Live(ev) = {}
  BY FreeType DEF Live
<1>14. Graph(ev)
  BY <1>13, FreeType DEF Graph
<1>15. Waiting(ev, q, {})
  BY <1>13 DEF Waiting, Queues
<1>16. Good(h, {})
  BY <1>11, <1>12, <1>14, <1>15 DEF Good
<1> QED
  BY <1>6, <1>8, <1>9, <1>10, <1>16 DEF Structure

LEMMA NextSound ==
  ASSUME Sound, [Next]_vars PROVE Sound'
<1>1. SUFFICES ASSUME ~h'.bad PROVE Structure'
  BY DEF Sound
<1>2. CASE UNCHANGED vars
  <2>1. Structure
    BY <1>1, <1>2 DEF Sound, vars
  <2>2. Typed' /\ Counted' /\ ThreadsWell'
    <3>1. /\ h' = h /\ rec' = rec /\ dom' = dom /\ th' = th /\ threadOf' = threadOf /\ mode' = mode
          /\ limit' = limit /\ lastLimit' = lastLimit /\ threadsDone' = threadsDone /\ phases' = phases
      BY <1>2 DEF vars
    <3>2. Typed'
      BY <2>1, <3>1 DEF Structure, Typed, ClocksTyped
    <3>3. \A t \in Threads : DomainsOf(t)' = DomainsOf(t)
      BY <3>1 DEF DomainsOf
    <3>4. Asleep' = Asleep
      BY <3>1, <3>3 DEF Asleep, SimThreads
    <3>5. Counted'
      BY <2>1, <3>1, <3>4 DEF Structure, Counted
    <3>6. ThreadsWell'
      BY <2>1, <3>1, <3>3 DEF Structure, ThreadsWell
    <3> QED
      BY <3>2, <3>5, <3>6
  <2>3. Good(h, Crossing)'
    BY <1>2, <2>1 DEF vars, Structure, Crossing, Crossers, Good, Waiting, IsHeap
  <2> QED
    BY <2>2, <2>3 DEF Structure
<1>3. CASE Bound
  <2>1. Structure
    BY <1>3 DEF Bound, Stopped, Sound
  <2>2. \/ \E c \in Cores : Join(c) \/ Leave(c) \/ Advance(c) \/ EndBound(c) \/ StartCore(c)
        \/ \E c \in Cores, m \in Domains : RecordAccess(c, m)
        \/ CSimStart \/ CSimEnd
    BY <1>3 DEF Bound
  <2> QED
    BY <1>1, <2>1, <2>2, JoinSound, LeaveSound, AdvanceSound, EndBoundSound, StartCoreSound,
       RecordAccessSound, CSimStartSound, CSimEndSound
<1>4. ASSUME NEW t \in Threads, ThreadStep(t) PROVE Structure'
  <2>1. Structure
    BY <1>4 DEF ThreadStep, Stopped, Sound
  <2>2. \/ \E d \in Domains : Dequeue(t, d) \/ FinishDomain(t, d)
        \/ ReadSource(t) \/ Recheck(t) \/ Publish(t) \/ ThreadDone(t)
    BY <1>4 DEF ThreadStep
  <2> QED
    BY <1>1, <2>1, <2>2, DequeueSound, FinishDomainSound, ReadSourceSound, RecheckSound,
       PublishSound, ThreadDoneSound
<1> QED
  BY <1>2, <1>3, <1>4 DEF Next

LEMMA SoundIsDue ==
  ASSUME Sound PROVE EveryEventIsDue
<1>1. SUFFICES ASSUME ~Stopped, NEW i \in Live(h.ev)
               PROVE  /\ h.ev[i].np = Cardinality(Parents(h.ev, i))
                      /\ IF h.ev[i].np = 0 /\ ~Running(i)
                         THEN \E x \in QueuedAt(i) : x[2] = h.ev[i].dom /\ QueuedAt(i) = {x}
                         ELSE QueuedAt(i) = {}
                      /\ h.ev[i].k = "xing" /\ ~h.ev[i].called => Cardinality(Sources(h.ev, i)) = 1
  BY DEF EveryEventIsDue
<1>2. Graph(h.ev) /\ Waiting(h.ev, h.q, Crossing)
  BY <1>1 DEF Sound, Stopped, Structure, Good
<1>3. h.ev[i].np = Cardinality(Parents(h.ev, i))
  BY <1>2 DEF Graph
<1>4. h.ev[i].k = "xing" /\ ~h.ev[i].called => Cardinality(Sources(h.ev, i)) = 1
  BY <1>2, FS_Singleton DEF Graph, HasSource
<1>5. Running(i) <=> i \in Crossing
  BY DEF Running, Crossing, Crossers
<1>6. \A y : y \in QueuedAt(i) <=> \E d \in Domains : \E x \in h.q[d] : x[2] = i /\ y = <<x[1], d>>
  BY DEF QueuedAt
<1>7. ASSUME NEW d \in Domains, NEW x \in h.q[d], x[2] = i
      PROVE  h.ev[i].np = 0 /\ h.ev[i].dom = d /\ ~Running(i) /\ \A y \in h.q[d] : y[2] = i => y = x
  BY <1>2, <1>5, <1>7, Waits
<1>8. CASE h.ev[i].np = 0 /\ ~Running(i)
  <2>1. PICK x \in h.q[h.ev[i].dom] : x[2] = i
    BY <1>2, <1>5, <1>8 DEF Waiting
  <2>2. h.ev[i].dom \in Domains
    BY <1>2 DEF Graph
  <2> DEFINE y == <<x[1], h.ev[i].dom>>
  <2>3. y \in QueuedAt(i) /\ y[2] = h.ev[i].dom
    BY <1>6, <2>1, <2>2
  <2>4. \A z \in QueuedAt(i) : z = y
    BY <1>6, <1>7, <2>1, <2>2
  <2> QED
    BY <1>3, <1>4, <1>8, <2>3, <2>4
<1>9. CASE ~(h.ev[i].np = 0 /\ ~Running(i))
  <2>1. QueuedAt(i) = {}
    BY <1>6, <1>7, <1>9
  <2> QED
    BY <1>3, <1>4, <1>9, <2>1
<1> QED
  BY <1>8, <1>9

(* Whatever the threads' interleaving, either an assertion of the weave    *)
(* phase has failed, or the graph that addIssueEvent, recordAccess and     *)
(* handleCrossing built is sound (edges between live events, parents       *)
(* counted, one source of each crossing not called), each event that       *)
(* waits for nobody is queued once, and the threads have their domains.    *)
THEOREM WeaveSound == Spec => []Sound
<1>1. Init => Sound
  BY InitSound DEF Sound
<1>2. Sound /\ [Next]_vars => Sound'
  BY NextSound
<1> QED
  BY <1>1, <1>2, PTL DEF Spec

(* No event of the weave phase is lost, queued twice or left waiting for a *)
(* parent that is done (TimingEvent::parentDone and done, requeue, and the *)
(* crossings' markSrcEventDone), whatever the domains, the threads and     *)
(* their interleaving.                                                     *)
THEOREM EventsAreDue == Spec => []EveryEventIsDue
<1>1. Sound => EveryEventIsDue
  BY SoundIsDue
<1> QED
  BY <1>1, WeaveSound, PTL

-----------------------------------------------------------------------------
(* The translation of cycles and back, for all frequencies: the source     *)
(* says "you can prove this with inequalities".                            *)

(* What division by a whole number means.                                  *)
LEMMA Div ==
  ASSUME NEW a \in Nat, NEW b \in Nat \ {0}
  PROVE  a \div b \in Nat /\ (a \div b) * b <= a /\ a < (a \div b) * b + b
  OBVIOUS

(* sysToMemCycle(s) is the only m with (m - 1) * SysFreq <= s * MemFreq    *)
(* < m * SysFreq.                                                          *)
LEMMA SysToMem ==
  ASSUME SysFreq \in Nat \ {0}, MemFreq \in Nat \ {0}, NEW s \in Nat, NEW m \in Nat \ {0},
         (m - 1) * SysFreq <= s * MemFreq, s * MemFreq < m * SysFreq
  PROVE  sysToMemCycle(s) = m
<1> DEFINE q == (s * MemFreq) \div SysFreq
<1>1. s * MemFreq \in Nat
  OBVIOUS
<1>2. q \in Nat /\ q * SysFreq <= s * MemFreq /\ s * MemFreq < q * SysFreq + SysFreq
  BY <1>1, Div
<1> HIDE DEF q
<1>3. q * SysFreq < m * SysFreq /\ (m - 1) * SysFreq < (q + 1) * SysFreq
  <2>1. q * SysFreq \in Nat /\ m * SysFreq \in Nat /\ (m - 1) * SysFreq \in Nat
    BY <1>2
  <2>2. (q + 1) * SysFreq = q * SysFreq + SysFreq
    BY <1>2
  <2> QED
    BY <1>1, <1>2, <2>1, <2>2
<1>4. q < m /\ m - 1 < q + 1
  BY <1>2, <1>3
<1> QED
  BY <1>2, <1>4 DEF sysToMemCycle, q

LEMMA MatchingFits ==
  ASSUME SysFreq \in Nat \ {0}, MemFreq \in Nat \ {0}, 2 * MemFreq <= SysFreq,
         NEW c \in Nat \ {0}
  PROVE  /\ matchingMemToSysCycle(c) \in Nat
         /\ (c - 1) * SysFreq <= matchingMemToSysCycle(c) * MemFreq
         /\ matchingMemToSysCycle(c) * MemFreq < c * SysFreq
<1> DEFINE a == (2 * c - 1) * SysFreq
           y == a \div MemFreq
           x == y \div 2
<1>1. a \in Nat /\ a = 2 * (c * SysFreq) - SysFreq /\ c * SysFreq \in Nat
      /\ (c - 1) * SysFreq = c * SysFreq - SysFreq
  OBVIOUS
<1> HIDE DEF a
<1>2. y \in Nat /\ y * MemFreq <= a /\ a < y * MemFreq + MemFreq
  BY <1>1, Div
<1> HIDE DEF y
<1>3. x \in Nat /\ 2 * x <= y /\ y <= 2 * x + 1
  BY <1>2
<1> HIDE DEF x
<1>4. /\ (2 * x) * MemFreq <= y * MemFreq /\ y * MemFreq <= (2 * x + 1) * MemFreq
      /\ (2 * x) * MemFreq = 2 * (x * MemFreq) /\ x * MemFreq \in Nat /\ y * MemFreq \in Nat
      /\ (2 * x + 1) * MemFreq = 2 * (x * MemFreq) + MemFreq
  BY <1>2, <1>3
<1>5. x * MemFreq < c * SysFreq
  BY <1>1, <1>2, <1>4
<1>6. c * SysFreq - SysFreq <= x * MemFreq
  BY <1>1, <1>2, <1>4
<1>7. matchingMemToSysCycle(c) = x
  BY DEF matchingMemToSysCycle, a, y, x
<1> QED
  BY <1>1, <1>3, <1>5, <1>6, <1>7

(* A scheduling event runs on the memory cycle it was put on, whatever the *)
(* frequencies the constructor admits and however late it is put: the      *)
(* assertion of DDRMemory::tick (ddr_mem.cpp:428).                         *)
THEOREM EventsRunOnTheirCycle ==
  ASSUME SysFreq \in Nat \ {0}, MemFreq \in Nat \ {0}, 2 * MemFreq <= SysFreq,
         NEW c \in Nat \ {0}, NEW now \in Nat
  PROVE  RunsOnItsCycle(c, now)
<1> DEFINE m == matchingMemToSysCycle(c)
<1> SUFFICES ASSUME c >= sysToMemCycle(now)
             PROVE  sysToMemCycle(IF m > now THEN m ELSE now) = c
  BY DEF RunsOnItsCycle
<1>1. m \in Nat /\ (c - 1) * SysFreq <= m * MemFreq /\ m * MemFreq < c * SysFreq
  BY MatchingFits
<1> HIDE DEF m
<1>2. CASE m > now
  BY <1>1, <1>2, SysToMem
<1>3. CASE m <= now
  <2> DEFINE q == (now * MemFreq) \div SysFreq
  <2>1. now * MemFreq \in Nat
    OBVIOUS
  <2>2. q \in Nat /\ now * MemFreq < q * SysFreq + SysFreq
    BY <2>1, Div
  <2>3. q + 1 <= c
    BY <2>2 DEF sysToMemCycle
  <2> HIDE DEF q
  <2>4. (q + 1) * SysFreq <= c * SysFreq /\ (q + 1) * SysFreq = q * SysFreq + SysFreq
        /\ c * SysFreq \in Nat /\ q * SysFreq \in Nat
    BY <2>2, <2>3
  <2>5. now * MemFreq < c * SysFreq
    BY <2>1, <2>2, <2>4
  <2>6. m * MemFreq <= now * MemFreq /\ m * MemFreq \in Nat /\ (c - 1) * SysFreq \in Nat
    BY <1>1, <1>3
  <2>7. (c - 1) * SysFreq <= now * MemFreq
    BY <1>1, <2>1, <2>6
  <2>8. sysToMemCycle(now) = c
    BY <2>5, <2>7, SysToMem
  <2> QED
    BY <1>1, <1>3, <2>8
<1> QED
  BY <1>1, <1>2, <1>3

-----------------------------------------------------------------------------
(* The recorder of an in-order core, whose events are one chain.           *)
CONSTANTS Latencies, Gaps, MaxLeaves
VARIABLES rc, sim
CR == INSTANCE CoreRecorder WITH rec <- rc

RecorderFit ==
  /\ PhaseLength \in Nat \ {0}
  /\ Latencies \subseteq Nat /\ Gaps \subseteq Nat /\ Contention \subseteq Nat

ChainEvents == [kind : {"core", "access"}, orig : Int, min : Int, post : Int]
IsRecorder(r) ==
  /\ DOMAIN r = {"st", "gap", "totalGap", "prevCycle", "lastStart", "lastOrig", "unhalted", "halted", "cur",
                 "chain", "at"}
  /\ r.st \in {"HALTED", "RUNNING", "DRAINING"} /\ r.chain \in Seq(ChainEvents)
  /\ r.gap \in Int /\ r.prevCycle \in Int /\ r.lastStart \in Int /\ r.lastOrig \in Int
  /\ r.unhalted \in Int /\ r.halted \in Int /\ r.cur \in Int /\ r.at \in Int
IsAround(s) ==
  /\ DOMAIN s = {"glob", "mode", "accesses", "leaves", "added", "seen", "joined", "busy", "work", "failed"}
  /\ s.mode \in {"bound", "weave"} /\ s.glob \in Int /\ s.added \in Int /\ s.seen \in Int
  /\ s.joined \in Int /\ s.busy \in Int /\ s.work \in Int

(* A chain from first to end, in cycles without contention: u[i] is when   *)
(* event i starts, and seen is what it may be late by.                     *)
ChainTimes(c, u, first, end, seen) ==
  /\ u \in [1 .. Len(c) + 1 -> Int] /\ u[1] = first /\ u[Len(c) + 1] = end
  /\ \A i \in 1 .. Len(c) + 1 : u[i] <= end
  /\ \A i \in 1 .. Len(c) :
       /\ u[i + 1] = u[i] + c[i].post /\ c[i].post >= 0 /\ c[i].min <= u[i] + seen
       /\ c[i].kind = "core" => c[i].orig = u[i]
IsChain(c, first, end, seen) == c \in Seq(ChainEvents) /\ \E u : ChainTimes(c, u, first, end, seen)

LEMMA ChainStarts ==
  ASSUME NEW x \in ChainEvents, NEW s \in Int, x.post = 0, x.orig = x.min, s >= 0
  PROVE  IsChain(<<x>>, x.orig, x.orig, s)
<1> DEFINE u == [i \in 1 .. 2 |-> x.orig]
<1>1. ChainTimes(<<x>>, u, x.orig, x.orig, s)
  BY DEF ChainTimes, ChainEvents
<1> QED
  BY <1>1 DEF IsChain

LEMMA EventFields ==
  ASSUME NEW c \in Seq(ChainEvents), NEW i \in 1 .. Len(c)
  PROVE  c[i] \in ChainEvents /\ c[i].post \in Int /\ c[i].min \in Int /\ c[i].orig \in Int
<1>1. c[i] \in ChainEvents
  OBVIOUS
<1> QED
  BY <1>1 DEF ChainEvents

LEMMA ChainGrows ==
  ASSUME NEW c, NEW f \in Int, NEW e \in Int, NEW s \in Int, IsChain(c, f, e, s),
         NEW x \in ChainEvents, x.post >= 0, x.min <= e + s, x.kind = "core" => x.orig = e
  PROVE  IsChain(Append(c, x), f, e + x.post, s)
<1>1. PICK u : ChainTimes(c, u, f, e, s)
  BY DEF IsChain
<1>2. c \in Seq(ChainEvents) /\ Len(c) \in Nat /\ x.post \in Int
  BY DEF IsChain, ChainEvents
<1> DEFINE n == Len(c)
           d == Append(c, x)
           v == [i \in 1 .. n + 2 |-> IF i = n + 2 THEN e + x.post ELSE u[i]]
<1>3. d \in Seq(ChainEvents) /\ Len(d) = n + 1 /\ d[n + 1] = x /\ \A i \in 1 .. n : d[i] = c[i]
  BY <1>2
<1>4. /\ u \in [1 .. n + 1 -> Int] /\ u[1] = f /\ u[n + 1] = e
      /\ \A i \in 1 .. n + 1 : u[i] <= e
      /\ \A i \in 1 .. n : /\ u[i + 1] = u[i] + c[i].post /\ c[i].post >= 0 /\ c[i].min <= u[i] + s
                           /\ c[i].kind = "core" => c[i].orig = u[i]
  BY <1>1 DEF ChainTimes
<1>5. /\ v \in [1 .. n + 2 -> Int] /\ v[n + 2] = e + x.post
      /\ \A i \in 1 .. n + 1 : v[i] = u[i]
  BY <1>2, <1>4
<1> HIDE DEF v, d
<1> HIDE DEF n
<1>6. \A i \in 1 .. n + 2 : v[i] <= e + x.post
  <2> SUFFICES ASSUME NEW i \in 1 .. n + 2 PROVE v[i] <= e + x.post
    OBVIOUS
  <2>1. CASE i = n + 2
    BY <1>2, <1>5, <2>1
  <2>2. CASE i # n + 2
    <3>0. i \in 1 .. n + 1
      BY <1>2, <2>2 DEF n
    <3>1. v[i] = u[i] /\ u[i] \in Int
      BY <1>4, <1>5, <3>0
    <3> QED
      BY <1>2, <1>4, <3>0, <3>1
  <2> QED
    BY <2>1, <2>2
<1>7. ASSUME NEW i \in 1 .. n + 1
      PROVE  /\ v[i + 1] = v[i] + d[i].post /\ d[i].post >= 0 /\ d[i].min <= v[i] + s
             /\ d[i].kind = "core" => d[i].orig = v[i]
  <2>1. CASE i = n + 1
    <3>0. n + 1 \in 1 .. n + 1 /\ (n + 1) + 1 = n + 2
      BY <1>2 DEF n
    <3>1. d[i] = x /\ v[i] = e /\ v[i + 1] = e + x.post
      BY <1>3, <1>4, <1>5, <2>1, <3>0
    <3> QED
      BY <3>1
  <2>2. CASE i # n + 1
    <3>1. i \in 1 .. n /\ i + 1 \in 1 .. n + 1
      BY <1>2, <2>2 DEF n
    <3>2. d[i] = c[i] /\ v[i] = u[i] /\ v[i + 1] = u[i + 1]
      BY <1>3, <1>5, <2>2, <3>1
    <3> QED
      BY <1>4, <3>1, <3>2
  <2> QED
    BY <2>1, <2>2
<1>8. ChainTimes(d, v, f, e + x.post, s)
  BY <1>2, <1>3, <1>4, <1>5, <1>6, <1>7 DEF ChainTimes, n
<1> QED
  BY <1>3, <1>8 DEF IsChain, d

LEMMA ChainRuns ==
  ASSUME NEW c, NEW f \in Int, NEW e \in Int, NEW s \in Int, IsChain(c, f, e, s), c # <<>>
  PROVE  /\ Head(c) \in ChainEvents /\ Head(c) = c[1] /\ Head(c).post >= 0 /\ Head(c).min <= f + s
         /\ Head(c).kind = "core" => Head(c).orig = f
         /\ IsChain(Tail(c), f + Head(c).post, e, s)
<1>1. PICK u : ChainTimes(c, u, f, e, s)
  BY DEF IsChain
<1>2. c \in Seq(ChainEvents) /\ Len(c) \in Nat \ {0}
  BY DEF IsChain
<1> DEFINE n == Len(c)
           d == Tail(c)
           v == [i \in 1 .. n |-> u[i + 1]]
<1>3. d \in Seq(ChainEvents) /\ Len(d) = n - 1 /\ \A i \in 1 .. n - 1 : d[i] = c[i + 1]
  BY <1>2
<1>4. /\ u \in [1 .. n + 1 -> Int] /\ u[1] = f /\ u[n + 1] = e
      /\ \A i \in 1 .. n + 1 : u[i] <= e
      /\ \A i \in 1 .. n : /\ u[i + 1] = u[i] + c[i].post /\ c[i].post >= 0 /\ c[i].min <= u[i] + s
                           /\ c[i].kind = "core" => c[i].orig = u[i]
  BY <1>1 DEF ChainTimes
<1>5. v \in [1 .. n -> Int] /\ \A i \in 1 .. n : v[i] = u[i + 1]
  BY <1>2, <1>4
<1>6. Head(c) = c[1] /\ c[1] \in ChainEvents /\ 1 \in 1 .. n
  BY <1>2
<1>7. /\ c[1].post >= 0 /\ c[1].min <= f + s /\ u[2] = f + c[1].post
      /\ c[1].kind = "core" => c[1].orig = f
  BY <1>4, <1>6
<1> HIDE DEF v, d
<1>8. v[1] = f + c[1].post /\ v[n] = e /\ \A i \in 1 .. n : v[i] <= e
  BY <1>2, <1>4, <1>5, <1>7
<1>9. ASSUME NEW i \in 1 .. n - 1
      PROVE  /\ v[i + 1] = v[i] + d[i].post /\ d[i].post >= 0 /\ d[i].min <= v[i] + s
             /\ d[i].kind = "core" => d[i].orig = v[i]
  <2>1. i \in 1 .. n /\ i + 1 \in 1 .. n
    BY <1>2
  <2>2. d[i] = c[i + 1] /\ v[i] = u[i + 1] /\ v[i + 1] = u[(i + 1) + 1]
    BY <1>3, <1>5, <2>1
  <2> QED
    BY <1>4, <2>1, <2>2
<1>10. ChainTimes(d, v, f + c[1].post, e, s)
  BY <1>2, <1>3, <1>5, <1>8, <1>9 DEF ChainTimes
<1> QED
  BY <1>3, <1>6, <1>7, <1>10 DEF IsChain, d

LEMMA ChainOrdered ==
  ASSUME NEW c, NEW f \in Int, NEW e \in Int, NEW s \in Int, IsChain(c, f, e, s)
  PROVE  f <= e /\ (c = <<>> => f = e) /\ c \in Seq(ChainEvents)
         /\ (Len(c) = 1 => f + c[1].post = e)
<1>1. PICK u : ChainTimes(c, u, f, e, s)
  BY DEF IsChain
<1>2. c \in Seq(ChainEvents) /\ Len(c) \in Nat
  BY DEF IsChain
<1> QED
  BY <1>1, <1>2 DEF ChainTimes

(* A core event of the cycles from p on, that were shifted by g.           *)
LEMMA CoreGrows ==
  ASSUME NEW c, NEW f \in Int, NEW s \in Int, NEW p \in Int, NEW g \in Int, NEW m \in Int, m >= 0, g <= s,
         IsChain(c, f, p - g, s)
  PROVE  /\ CR!Event("core", p - g, p, m) \in ChainEvents
         /\ IsChain(Append(c, CR!Event("core", p - g, p, m)), f, p + m - g, s)
<1> DEFINE x == CR!Event("core", p - g, p, m)
           e == p - g
<1>1. /\ x \in ChainEvents /\ x.kind = "core" /\ x.orig = e /\ x.min = p /\ x.post = m /\ e \in Int
      /\ p <= e + s /\ e + m = p + m - g
  BY DEF CR!Event, ChainEvents
<1>2. IsChain(c, f, e, s)
  OBVIOUS
<1> HIDE DEF x, e
<1>3. IsChain(Append(c, x), f, e + x.post, s)
  BY <1>1, <1>2, ChainGrows
<1> QED
  BY <1>1, <1>3 DEF x, e

LEMMA TaperGrows ==
  ASSUME NEW c, NEW f \in Int, NEW s \in Int, NEW p \in Int, NEW g \in Int, g <= s, IsChain(c, f, p - g, s)
  PROVE  /\ CR!Event("core", p - g, p, 0) \in ChainEvents
         /\ IsChain(Append(c, CR!Event("core", p - g, p, 0)), f, p - g, s)
<1> DEFINE m == 0
<1>1. m \in Int /\ m >= 0 /\ p + m - g = p - g
  OBVIOUS
<1> HIDE DEF m
<1>2. /\ CR!Event("core", p - g, p, m) \in ChainEvents
      /\ IsChain(Append(c, CR!Event("core", p - g, p, m)), f, p + m - g, s)
  BY <1>1, CoreGrows
<1> QED
  BY <1>1, <1>2 DEF m

(* What was late may be later.                                             *)
LEMMA ChainLater ==
  ASSUME NEW c, NEW f \in Int, NEW e \in Int, NEW s \in Int, NEW t \in Int, s <= t,
         IsChain(c, f, e, s)
  PROVE  IsChain(c, f, e, t)
<1>1. PICK u : ChainTimes(c, u, f, e, s)
  BY DEF IsChain
<1>2. c \in Seq(ChainEvents) /\ Len(c) \in Nat
  BY DEF IsChain
<1>3. ASSUME NEW i \in 1 .. Len(c) PROVE c[i].min <= u[i] + t
  <2>1. c[i].min \in Int /\ u[i] \in Int /\ c[i].min <= u[i] + s
    BY <1>1, <1>2, EventFields DEF ChainTimes
  <2> QED
    BY <2>1
<1>4. ChainTimes(c, u, f, e, t)
  BY <1>1, <1>2, <1>3 DEF ChainTimes
<1> QED
  BY <1>2, <1>4 DEF IsChain

LEMMA TwoMore ==
  ASSUME NEW c \in Seq(ChainEvents), NEW x \in ChainEvents, NEW y \in ChainEvents
  PROVE  c \o <<x, y>> = Append(Append(c, x), y)
  OBVIOUS

-----------------------------------------------------------------------------
(* The recorder's books, s being what is around it.                        *)
RecorderTypes(r, s) == IsRecorder(r) /\ IsAround(s)

(* A new chain's first event is due in this phase, before which nothing    *)
(* was added; otherwise what the last core event was late by was met.      *)
Fresh(r, s) == r.chain # <<>> /\ r.chain[1].kind = "core" /\ r.at < s.glob + PhaseLength /\ s.seen = 0
Started(r, s) == r.lastStart - r.lastOrig = s.seen /\ r.lastOrig <= r.at - s.added

Halted(r, s) ==
  r.st = "HALTED" => r.chain = <<>> /\ r.unhalted <= s.glob /\ r.unhalted - r.halted = s.busy
Active(r, s) ==
  r.st # "HALTED" =>
    /\ IsChain(r.chain, r.at - s.added, r.prevCycle - r.gap, s.seen)
    /\ Fresh(r, s) \/ Started(r, s)
    /\ s.joined - r.halted = s.busy
    /\ 0 <= r.gap /\ r.gap <= s.seen /\ s.seen <= s.added
    /\ r.cur - r.gap = s.work
    /\ s.glob <= r.cur /\ r.prevCycle <= r.cur
InBound(r, s) ==
  s.mode = "bound" => r.lastStart <= s.glob /\ (r.st # "HALTED" => r.gap = s.seen /\ r.chain # <<>>)

(* In the weave phase the chain of a core that runs ends after the phase.  *)
InWeave(r, s) ==
  s.mode = "weave" =>
    /\ r.lastStart < s.glob + PhaseLength
    /\ r.st # "HALTED" => s.glob + PhaseLength <= r.cur
    /\ r.st = "RUNNING" => r.chain # <<>> /\ r.chain[Len(r.chain)].post = 0 /\ r.prevCycle = r.cur
Books(r, s) ==
  RecorderTypes(r, s) /\ Halted(r, s) /\ Active(r, s) /\ InBound(r, s) /\ InWeave(r, s) /\ s.failed = FALSE

LEMMA BooksFields ==
  ASSUME NEW r, NEW s, Books(r, s)
  PROVE  /\ r.gap \in Int /\ r.prevCycle \in Int /\ r.lastStart \in Int /\ r.lastOrig \in Int
         /\ r.unhalted \in Int /\ r.halted \in Int /\ r.cur \in Int /\ r.at \in Int
         /\ r.chain \in Seq(ChainEvents) /\ s.glob \in Int /\ s.added \in Int /\ s.seen \in Int
         /\ s.joined \in Int /\ s.busy \in Int /\ s.work \in Int
         /\ IsRecorder(r) /\ IsAround(s) /\ s.failed = FALSE
  BY DEF Books, RecorderTypes, IsRecorder, IsAround

LEMMA RecorderInit ==
  ASSUME RecorderFit, CR!Init
  PROVE  Books(rc, sim)
<1>1. /\ rc = [st |-> "HALTED", gap |-> 0, totalGap |-> 0, prevCycle |-> 0, lastStart |-> 0, lastOrig |-> 0,
               unhalted |-> 0, halted |-> 0, cur |-> 0, chain |-> <<>>, at |-> 0]
      /\ sim = [glob |-> 0, mode |-> "bound", accesses |-> 0, leaves |-> 0, added |-> 0, seen |-> 0, joined |-> 0,
                busy |-> 0, work |-> 0, failed |-> FALSE]
  BY DEF CR!Init
<1>2. IsRecorder(rc) /\ IsAround(sim)
  BY <1>1 DEF IsRecorder, IsAround
<1> QED
  BY <1>1, <1>2 DEF Books, RecorderTypes, Halted, Active, InBound, InWeave

LEMMA JoinKeeps ==
  ASSUME RecorderFit, Books(rc, sim), CR!notifyJoin
  PROVE  Books(rc', sim')
<1>0. /\ rc.gap \in Int /\ rc.prevCycle \in Int /\ rc.lastStart \in Int /\ rc.lastOrig \in Int
      /\ rc.unhalted \in Int /\ rc.halted \in Int /\ rc.cur \in Int /\ rc.at \in Int
      /\ sim.glob \in Int /\ sim.added \in Int /\ sim.seen \in Int
      /\ sim.joined \in Int /\ sim.busy \in Int /\ sim.work \in Int
  BY BooksFields
<1>t. IsRecorder(rc) /\ IsAround(sim) /\ sim.failed = FALSE /\ rc.chain \in Seq(ChainEvents)
  BY BooksFields
<1>1. PhaseLength \in Nat \ {0}
  BY DEF RecorderFit
<1>2. CASE rc.st = "HALTED"
  <2> DEFINE x == CR!Event("core", sim.glob, sim.glob, 0)
             g == sim.glob
             top == CR!Max2(rc.cur, g)
  <2>1. /\ g \in Int /\ top \in Int /\ g <= top
        /\ x \in ChainEvents /\ x.kind = "core" /\ x.post = 0 /\ x.orig = g /\ x.min = g
    BY <1>0, <1>1 DEF CR!Event, CR!Max2, ChainEvents
  <2>2. rc.chain = <<>> /\ rc.unhalted <= g /\ rc.unhalted - rc.halted = sim.busy
    BY <1>2 DEF Books, Halted
  <2>3. (sim.failed \/ (rc.chain # <<>> \/ rc.unhalted > g)) = FALSE
    BY <1>0, <1>t, <2>1, <2>2
  <2>4. /\ rc' = [rc EXCEPT !.st = "RUNNING", !.totalGap = rc.totalGap + rc.gap, !.gap = 0,
                       !.halted = rc.halted + g - rc.unhalted, !.prevCycle = g,
                       !.chain = <<x>>, !.at = g, !.cur = top]
        /\ sim' = [sim EXCEPT !.added = 0, !.seen = 0, !.joined = g, !.work = top, !.failed = FALSE]
        /\ sim.mode = "bound" /\ sim.glob = g
    BY <1>2, <2>3 DEF CR!notifyJoin, CR!Fails
  <2>5. <<x>> \in Seq(ChainEvents) /\ <<x>> # <<>> /\ <<x>>[1] = x
    BY <2>1
  <2>6. rc.lastStart <= g
    BY <2>4 DEF Books, InBound
  <2>7. IsChain(<<x>>, g, g, 0)
    BY <2>1, ChainStarts
  <2> HIDE DEF x, g, top
  <2>8. /\ IsRecorder(rc')
        /\ rc'.st = "RUNNING" /\ rc'.gap = 0 /\ rc'.halted = rc.halted + g - rc.unhalted /\ rc'.prevCycle = g
        /\ rc'.chain = <<x>> /\ rc'.at = g /\ rc'.cur = top /\ rc'.lastStart = rc.lastStart
    BY <1>0, <1>t, <1>1, <2>1, <2>4, <2>5 DEF IsRecorder
  <2>9. /\ IsAround(sim') /\ sim'.added = 0 /\ sim'.seen = 0 /\ sim'.joined = g /\ sim'.work = top
        /\ sim'.failed = FALSE /\ sim'.mode = "bound" /\ sim'.glob = g /\ sim'.busy = sim.busy
    BY <1>0, <1>t, <1>1, <2>1, <2>4 DEF IsAround
  <2>10. Active(rc', sim')
    <3>1. rc'.at - sim'.added = g /\ rc'.prevCycle - rc'.gap = g
      BY <2>1, <2>8, <2>9
    <3>2. IsChain(rc'.chain, rc'.at - sim'.added, rc'.prevCycle - rc'.gap, sim'.seen)
      BY <2>7, <2>8, <2>9, <3>1
    <3>3. Fresh(rc', sim')
      BY <1>1, <2>1, <2>5, <2>8, <2>9 DEF Fresh
    <3>4. sim'.joined - rc'.halted = sim'.busy
      BY <1>0, <1>1, <2>1, <2>2, <2>8, <2>9
    <3>5. /\ 0 <= rc'.gap /\ rc'.gap <= sim'.seen /\ sim'.seen <= sim'.added /\ rc'.cur - rc'.gap = sim'.work
          /\ sim'.glob <= rc'.cur /\ rc'.prevCycle <= rc'.cur
      BY <2>1, <2>8, <2>9
    <3> QED
      BY <3>2, <3>3, <3>4, <3>5 DEF Active
  <2> QED
    BY <2>5, <2>6, <2>8, <2>9, <2>10 DEF Books, RecorderTypes, Halted, InBound, InWeave
<1>3. CASE rc.st # "HALTED"
  <2>1. (sim.failed \/ rc.cur < sim.glob) = FALSE
    <3>1. sim.glob <= rc.cur
      BY <1>3 DEF Books, Active
    <3> QED
      BY <1>0, <1>t, <3>1
  <2>2. /\ rc' = [rc EXCEPT !.st = "RUNNING"] /\ sim' = [sim EXCEPT !.failed = FALSE]
        /\ sim.mode = "bound"
    BY <1>3, <2>1 DEF CR!notifyJoin, CR!Fails
  <2>3. /\ IsRecorder(rc') /\ rc'.st = "RUNNING" /\ rc'.gap = rc.gap /\ rc'.halted = rc.halted
        /\ rc'.prevCycle = rc.prevCycle /\ rc'.chain = rc.chain /\ rc'.at = rc.at /\ rc'.cur = rc.cur
        /\ rc'.lastStart = rc.lastStart /\ rc'.lastOrig = rc.lastOrig
    BY <1>0, <1>t, <1>1, <2>2 DEF IsRecorder
  <2>4. /\ IsAround(sim') /\ sim'.added = sim.added /\ sim'.seen = sim.seen /\ sim'.joined = sim.joined
        /\ sim'.work = sim.work /\ sim'.failed = FALSE /\ sim'.mode = sim.mode /\ sim'.glob = sim.glob
        /\ sim'.busy = sim.busy
    BY <1>0, <1>t, <1>1, <2>2 DEF IsAround
  <2> QED
    BY <1>3, <2>2, <2>3, <2>4 DEF Books, RecorderTypes, Halted, Active, InBound, InWeave, Fresh, Started
<1> QED
  BY <1>2, <1>3

LEMMA Extended ==
  ASSUME NEW c \in Seq(ChainEvents), NEW x \in ChainEvents
  PROVE  /\ Append(c, x) \in Seq(ChainEvents) /\ Append(c, x) # <<>>
         /\ Append(c, x)[Len(Append(c, x))] = x
         /\ c # <<>> => Append(c, x)[1] = c[1]
<1>1. c # <<>> => 1 \in 1 .. Len(c)
  OBVIOUS
<1>2. \A i \in 1 .. Len(c) : Append(c, x)[i] = c[i]
  OBVIOUS
<1>3. Append(c, x) \in Seq(ChainEvents) /\ Append(c, x) # <<>> /\ Append(c, x)[Len(Append(c, x))] = x
  OBVIOUS
<1> QED
  BY <1>1, <1>2, <1>3

LEMMA AccessKeeps ==
  ASSUME RecorderFit, Books(rc, sim), NEW gap \in Gaps, NEW lat \in Latencies, CR!recordAccess(gap, lat)
  PROVE  Books(rc', sim')
<1>0. /\ rc.gap \in Int /\ rc.prevCycle \in Int /\ rc.lastStart \in Int /\ rc.lastOrig \in Int
      /\ rc.unhalted \in Int /\ rc.halted \in Int /\ rc.cur \in Int /\ rc.at \in Int
      /\ sim.glob \in Int /\ sim.added \in Int /\ sim.seen \in Int
      /\ sim.joined \in Int /\ sim.busy \in Int /\ sim.work \in Int
  BY BooksFields
<1>t. IsRecorder(rc) /\ IsAround(sim) /\ sim.failed = FALSE /\ rc.chain \in Seq(ChainEvents)
  BY BooksFields
<1>1. PhaseLength \in Nat \ {0} /\ gap \in Nat /\ lat \in Nat
  BY DEF RecorderFit
<1>2. rc.st = "RUNNING" /\ sim.mode = "bound"
  BY DEF CR!recordAccess
<1>3. rc.prevCycle <= rc.cur /\ rc.gap = sim.seen
  BY <1>2 DEF Books, Active, InBound
<1>c. IsChain(rc.chain, rc.at - sim.added, rc.prevCycle - rc.gap, sim.seen)
  BY <1>2 DEF Books, Active
<1>n. rc.chain # <<>>
  BY <1>2 DEF Books, InBound
<1> DEFINE req == rc.cur + gap
           f == rc.at - sim.added
           x == CR!Waiting(rc, req)
           y == CR!Event("access", 0, req, lat)
           c == Append(Append(rc.chain, x), y)
<1>4. req \in Int /\ f \in Int /\ req - rc.prevCycle \in Int /\ req - rc.prevCycle >= 0
      /\ rc.prevCycle + (req - rc.prevCycle) - rc.gap = req - rc.gap
  BY <1>0, <1>1, <1>3
<1>4a. rc.gap <= sim.seen
  BY <1>0, <1>3
<1>5. x \in ChainEvents /\ IsChain(Append(rc.chain, x), f, req - rc.gap, sim.seen)
  <2> DEFINE m == req - rc.prevCycle
  <2>1. m \in Int /\ m >= 0 /\ rc.prevCycle + m - rc.gap = req - rc.gap
    BY <1>4
  <2> HIDE DEF m, req
  <2>2. /\ CR!Event("core", rc.prevCycle - rc.gap, rc.prevCycle, m) \in ChainEvents
        /\ IsChain(Append(rc.chain, CR!Event("core", rc.prevCycle - rc.gap, rc.prevCycle, m)),
                   f, rc.prevCycle + m - rc.gap, sim.seen)
    <3> HIDE DEF f
    <3>1. IsChain(rc.chain, f, rc.prevCycle - rc.gap, sim.seen)
      BY <1>c DEF f
    <3> QED
      BY <1>0, <1>4, <1>4a, <2>1, <3>1, CoreGrows
  <2> QED
    BY <2>1, <2>2 DEF CR!Waiting, m
<1>6. y \in ChainEvents /\ y.kind = "access" /\ y.min = req /\ y.post = lat
  BY <1>1, <1>4 DEF CR!Event, ChainEvents
<1>7. rc.chain \o <<x, y>> = c /\ c \in Seq(ChainEvents) /\ c # <<>> /\ c[1] = rc.chain[1]
  <2>1. Append(rc.chain, x) \in Seq(ChainEvents) /\ Append(rc.chain, x) # <<>>
        /\ Append(rc.chain, x)[1] = rc.chain[1]
    BY <1>t, <1>n, <1>5, Extended
  <2>2. c \in Seq(ChainEvents) /\ c # <<>> /\ c[1] = Append(rc.chain, x)[1]
    BY <1>6, <2>1, Extended
  <2>3. rc.chain \o <<x, y>> = c
    BY <1>t, <1>5, <1>6, TwoMore
  <2> QED
    BY <2>1, <2>2, <2>3
<1>8. (sim.failed \/ rc.cur < rc.prevCycle) = FALSE
  BY <1>0, <1>t, <1>3
<1>9. /\ rc' = [rc EXCEPT !.cur = req + lat, !.prevCycle = req + lat, !.chain = c]
      /\ sim' = [sim EXCEPT !.accesses = sim.accesses + 1, !.work = sim.work + gap + lat, !.failed = FALSE]
  BY <1>7, <1>8 DEF CR!recordAccess, CR!Fails
<1> HIDE DEF req, f, x, y
<1>10. IsChain(c, f, req + lat - rc.gap, sim.seen)
  <2>1. req - rc.gap \in Int /\ y.min <= req - rc.gap + sim.seen /\ y.post >= 0
        /\ req - rc.gap + y.post = req + lat - rc.gap
    BY <1>0, <1>1, <1>3, <1>4, <1>6
  <2>2. IsChain(Append(Append(rc.chain, x), y), f, req - rc.gap + y.post, sim.seen)
    BY <1>0, <1>1, <1>4, <1>5, <1>6, <2>1, ChainGrows
  <2> QED
    BY <2>1, <2>2
<1> HIDE DEF c
<1>a. req + lat \in Int /\ c \in Seq(ChainEvents)
  BY <1>1, <1>4, <1>7
<1>11. /\ IsRecorder(rc') /\ rc'.st = rc.st /\ rc'.gap = rc.gap /\ rc'.halted = rc.halted
       /\ rc'.prevCycle = req + lat /\ rc'.chain = c /\ rc'.at = rc.at /\ rc'.cur = req + lat
       /\ rc'.lastStart = rc.lastStart /\ rc'.lastOrig = rc.lastOrig
  BY <1>t, <1>a, <1>9 DEF IsRecorder
<1>12. /\ IsAround(sim') /\ sim'.added = sim.added /\ sim'.seen = sim.seen /\ sim'.joined = sim.joined
       /\ sim'.work = sim.work + gap + lat /\ sim'.failed = FALSE /\ sim'.mode = sim.mode
       /\ sim'.glob = sim.glob /\ sim'.busy = sim.busy
  BY <1>0, <1>t, <1>1, <1>9 DEF IsAround
<1>13. Active(rc', sim')
  <2>1. Fresh(rc, sim) \/ Started(rc, sim)
    BY <1>2 DEF Books, Active
  <2>2. Fresh(rc', sim') \/ Started(rc', sim')
    BY <1>7, <1>11, <1>12, <2>1 DEF Fresh, Started
  <2>3. rc.cur - rc.gap = sim.work /\ sim.glob <= rc.cur /\ 0 <= rc.gap /\ rc.gap <= sim.seen
        /\ sim.seen <= sim.added /\ sim.joined - rc.halted = sim.busy
    BY <1>2 DEF Books, Active
  <2>4. rc'.cur - rc'.gap = sim'.work /\ sim'.glob <= rc'.cur /\ rc'.prevCycle <= rc'.cur
    BY <1>0, <1>1, <1>4, <1>11, <1>12, <2>3 DEF req
  <2>5. IsChain(rc'.chain, rc'.at - sim'.added, rc'.prevCycle - rc'.gap, sim'.seen)
    <3>1. rc'.at - sim'.added = f
      BY <1>11, <1>12 DEF f
    <3>2. rc'.prevCycle - rc'.gap = req + lat - rc.gap
      <4>1. rc'.prevCycle = req + lat /\ rc'.gap = rc.gap
        BY <1>11
      <4>2. req \in Int /\ lat \in Int /\ rc.gap \in Int
        BY <1>0, <1>1, <1>4
      <4> QED
        BY ONLY <4>1, <4>2
    <3> QED
      BY <1>10, <1>11, <1>12, <3>1, <3>2
  <2> QED
    BY <1>11, <1>12, <2>2, <2>3, <2>4, <2>5 DEF Active
<1> QED
  BY <1>2, <1>3, <1>n, <1>7, <1>11, <1>12, <1>13 DEF Books, RecorderTypes, Halted, InBound, InWeave

LEMMA ComputeKeeps ==
  ASSUME RecorderFit, Books(rc, sim), CR!Compute
  PROVE  Books(rc', sim')
<1>0. /\ rc.gap \in Int /\ rc.prevCycle \in Int /\ rc.lastStart \in Int /\ rc.lastOrig \in Int
      /\ rc.unhalted \in Int /\ rc.halted \in Int /\ rc.cur \in Int /\ rc.at \in Int
      /\ sim.glob \in Int /\ sim.added \in Int /\ sim.seen \in Int
      /\ sim.joined \in Int /\ sim.busy \in Int /\ sim.work \in Int
  BY BooksFields
<1>t. IsRecorder(rc) /\ IsAround(sim) /\ sim.failed = FALSE /\ rc.chain \in Seq(ChainEvents)
  BY BooksFields
<1>1. PhaseLength \in Nat \ {0}
  BY DEF RecorderFit
<1> DEFINE n == sim.glob + PhaseLength
<1>2. n \in Int /\ rc.cur < n
  BY <1>0, <1>1 DEF CR!Compute, CR!NextPhase
<1>3. rc.st = "RUNNING" /\ sim.mode = "bound"
  BY DEF CR!Compute
<1>4. rc' = [rc EXCEPT !.cur = n] /\ sim' = [sim EXCEPT !.work = sim.work + n - rc.cur]
  BY DEF CR!Compute, CR!NextPhase
<1> HIDE DEF n
<1>5. /\ IsRecorder(rc') /\ rc'.st = rc.st /\ rc'.gap = rc.gap /\ rc'.halted = rc.halted
      /\ rc'.prevCycle = rc.prevCycle /\ rc'.chain = rc.chain /\ rc'.at = rc.at /\ rc'.cur = n
      /\ rc'.lastStart = rc.lastStart /\ rc'.lastOrig = rc.lastOrig
  BY <1>t, <1>2, <1>4 DEF IsRecorder
<1>6. /\ IsAround(sim') /\ sim'.added = sim.added /\ sim'.seen = sim.seen /\ sim'.joined = sim.joined
      /\ sim'.work = sim.work + n - rc.cur /\ sim'.failed = sim.failed /\ sim'.mode = sim.mode
      /\ sim'.glob = sim.glob /\ sim'.busy = sim.busy
  BY <1>0, <1>t, <1>2, <1>4 DEF IsAround
<1>7. rc.cur - rc.gap = sim.work /\ sim.glob <= rc.cur /\ rc.prevCycle <= rc.cur
  BY <1>3 DEF Books, Active
<1>8. n - rc.gap = sim.work + n - rc.cur /\ sim.glob <= n /\ rc.prevCycle <= n
  BY <1>0, <1>2, <1>7
<1>9. Active(rc', sim')
  BY <1>3, <1>5, <1>6, <1>8 DEF Books, Active, Fresh, Started
<1> QED
  BY <1>3, <1>5, <1>6, <1>9 DEF Books, RecorderTypes, Halted, InBound, InWeave

LEMMA LeaveKeeps ==
  ASSUME RecorderFit, Books(rc, sim), CR!notifyLeave
  PROVE  Books(rc', sim')
<1>0. /\ rc.gap \in Int /\ rc.prevCycle \in Int /\ rc.lastStart \in Int /\ rc.lastOrig \in Int
      /\ rc.unhalted \in Int /\ rc.halted \in Int /\ rc.cur \in Int /\ rc.at \in Int
      /\ sim.glob \in Int /\ sim.added \in Int /\ sim.seen \in Int
      /\ sim.joined \in Int /\ sim.busy \in Int /\ sim.work \in Int
  BY BooksFields
<1>t. IsRecorder(rc) /\ IsAround(sim) /\ sim.failed = FALSE /\ rc.chain \in Seq(ChainEvents)
  BY BooksFields
<1>1. PhaseLength \in Nat \ {0}
  BY DEF RecorderFit
<1>2. rc.st = "RUNNING" /\ sim.mode = "bound"
  BY DEF CR!notifyLeave
<1>3. rc.prevCycle <= rc.cur /\ rc.gap = sim.seen
  BY <1>2 DEF Books, Active, InBound
<1>c. IsChain(rc.chain, rc.at - sim.added, rc.prevCycle - rc.gap, sim.seen)
  BY <1>2 DEF Books, Active
<1>n. rc.chain # <<>>
  BY <1>2 DEF Books, InBound
<1> DEFINE f == rc.at - sim.added
           m == rc.cur - rc.prevCycle
           x == CR!Event("core", rc.prevCycle - rc.gap, rc.prevCycle, m)
           y == CR!Event("core", rc.cur - rc.gap, rc.cur, 0)
           b == Append(rc.chain, x)
           c == Append(b, y)
<1>4. f \in Int /\ m \in Int /\ m >= 0 /\ rc.prevCycle + m - rc.gap = rc.cur - rc.gap /\ rc.gap <= sim.seen
  BY <1>0, <1>3
<1>5. /\ x \in ChainEvents /\ IsChain(b, f, rc.cur - rc.gap, sim.seen)
      /\ y \in ChainEvents /\ IsChain(c, f, rc.cur - rc.gap, sim.seen)
  <2>1. IsChain(rc.chain, f, rc.prevCycle - rc.gap, sim.seen)
    BY <1>c
  <2> HIDE DEF f, m
  <2>2. x \in ChainEvents /\ IsChain(b, f, rc.prevCycle + m - rc.gap, sim.seen)
    BY <1>0, <1>4, <2>1, CoreGrows
  <2>3. IsChain(b, f, rc.cur - rc.gap, sim.seen)
    BY <1>4, <2>2
  <2> HIDE DEF x, b
  <2>4. y \in ChainEvents /\ IsChain(c, f, rc.cur - rc.gap, sim.seen)
    BY <1>0, <1>4, <2>3, TaperGrows
  <2> QED
    BY <2>2, <2>3, <2>4
<1>6. rc.chain \o <<x, y>> = c /\ c \in Seq(ChainEvents) /\ c # <<>> /\ c[1] = rc.chain[1]
  <2> HIDE DEF x, y
  <2>1. b \in Seq(ChainEvents) /\ b # <<>> /\ b[1] = rc.chain[1]
    BY <1>t, <1>n, <1>5, Extended
  <2>3. rc.chain \o <<x, y>> = c
    BY <1>t, <1>5, TwoMore
  <2> HIDE DEF b
  <2>2. c \in Seq(ChainEvents) /\ c # <<>> /\ c[1] = b[1]
    BY <1>5, <2>1, Extended
  <2> QED
    BY <2>1, <2>2, <2>3
<1>7. (sim.failed \/ rc.chain = <<>>) = FALSE
  BY <1>t, <1>n
<1>8. /\ rc' = [rc EXCEPT !.prevCycle = rc.cur, !.st = "DRAINING", !.chain = c]
      /\ sim' = [sim EXCEPT !.leaves = sim.leaves + 1, !.failed = FALSE]
  <2>1. LET r == [rc EXCEPT !.prevCycle = rc.cur] IN r.prevCycle = rc.cur /\ r.gap = rc.gap /\ r.chain = rc.chain
    BY <1>t DEF IsRecorder
  <2> HIDE DEF c
  <2> QED
    BY <1>6, <1>7, <2>1 DEF CR!notifyLeave, CR!Fails, CR!Waiting, CR!Taper
<1> HIDE DEF c
<1>9. /\ IsRecorder(rc') /\ rc'.st = "DRAINING" /\ rc'.gap = rc.gap /\ rc'.halted = rc.halted
      /\ rc'.prevCycle = rc.cur /\ rc'.chain = c /\ rc'.at = rc.at /\ rc'.cur = rc.cur
      /\ rc'.lastStart = rc.lastStart /\ rc'.lastOrig = rc.lastOrig
  BY <1>t, <1>6, <1>8 DEF IsRecorder
<1>10. /\ IsAround(sim') /\ sim'.added = sim.added /\ sim'.seen = sim.seen /\ sim'.joined = sim.joined
       /\ sim'.work = sim.work /\ sim'.failed = FALSE /\ sim'.mode = sim.mode
       /\ sim'.glob = sim.glob /\ sim'.busy = sim.busy
  BY <1>t, <1>8 DEF IsAround
<1>11. Active(rc', sim')
  <2>1. Fresh(rc', sim') \/ Started(rc', sim')
    BY <1>2, <1>6, <1>9, <1>10 DEF Books, Active, Fresh, Started
  <2>2. IsChain(rc'.chain, rc'.at - sim'.added, rc'.prevCycle - rc'.gap, sim'.seen)
    BY <1>5, <1>9, <1>10
  <2>3. rc.cur <= rc.cur
    BY <1>0
  <2> QED
    BY <1>2, <1>9, <1>10, <2>1, <2>2, <2>3 DEF Books, Active
<1> QED
  BY <1>2, <1>3, <1>6, <1>9, <1>10, <1>11 DEF Books, RecorderTypes, Halted, InBound, InWeave

LEMMA StartKeeps ==
  ASSUME RecorderFit, Books(rc, sim), CR!cSimStart
  PROVE  Books(rc', sim')
<1>0. /\ rc.gap \in Int /\ rc.prevCycle \in Int /\ rc.lastStart \in Int /\ rc.lastOrig \in Int
      /\ rc.unhalted \in Int /\ rc.halted \in Int /\ rc.cur \in Int /\ rc.at \in Int
      /\ sim.glob \in Int /\ sim.added \in Int /\ sim.seen \in Int
      /\ sim.joined \in Int /\ sim.busy \in Int /\ sim.work \in Int
  BY BooksFields
<1>t. IsRecorder(rc) /\ IsAround(sim) /\ sim.failed = FALSE /\ rc.chain \in Seq(ChainEvents)
  BY BooksFields
<1>1. PhaseLength \in Nat \ {0}
  BY DEF RecorderFit
<1> DEFINE n == sim.glob + PhaseLength
<1>2. sim.mode = "bound" /\ (rc.st = "RUNNING" => rc.cur >= n)
  BY DEF CR!cSimStart, CR!NextPhase
<1>n. n \in Int /\ (rc.lastStart <= sim.glob => rc.lastStart < n)
  BY <1>0, <1>1
<1>l. rc.lastStart < n
  BY <1>2, <1>n DEF Books, InBound
<1>3. CASE rc.st = "HALTED"
  <2>1. rc' = rc /\ sim' = [sim EXCEPT !.mode = "weave", !.work = sim.work]
    BY <1>3 DEF CR!cSimStart
  <2>2. /\ IsAround(sim') /\ sim'.mode = "weave" /\ sim'.failed = FALSE /\ sim'.glob = sim.glob /\ sim'.busy = sim.busy
    BY <1>t, <1>0, <2>1 DEF IsAround
  <2> QED
    BY <1>3, <1>l, <2>1, <2>2 DEF Books, RecorderTypes, Halted, Active, InBound, InWeave
<1>4. CASE rc.st = "RUNNING"
  <2>1. rc.prevCycle <= rc.cur /\ rc.gap = sim.seen
    BY <1>2, <1>4 DEF Books, Active, InBound
  <2>c. IsChain(rc.chain, rc.at - sim.added, rc.prevCycle - rc.gap, sim.seen)
    BY <1>4 DEF Books, Active
  <2>n. rc.chain # <<>>
    BY <1>2, <1>4 DEF Books, InBound
  <2> DEFINE f == rc.at - sim.added
             m == rc.cur - rc.prevCycle
             x == CR!Event("core", rc.prevCycle - rc.gap, rc.prevCycle, m)
             y == CR!Event("core", rc.cur - rc.gap, rc.cur, 0)
             b == IF rc.prevCycle < rc.cur THEN Append(rc.chain, x) ELSE rc.chain
             c == Append(b, y)
  <2>2. f \in Int /\ m \in Int /\ m >= 0 /\ rc.prevCycle + m - rc.gap = rc.cur - rc.gap /\ rc.gap <= sim.seen
        /\ (~(rc.prevCycle < rc.cur) => rc.prevCycle - rc.gap = rc.cur - rc.gap)
    BY <1>0, <2>1
  <2>3. IsChain(rc.chain, f, rc.prevCycle - rc.gap, sim.seen)
    BY <2>c
  <2> HIDE DEF f, m
  <2>4. x \in ChainEvents /\ IsChain(Append(rc.chain, x), f, rc.prevCycle + m - rc.gap, sim.seen)
    BY <1>0, <2>2, <2>3, CoreGrows
  <2> HIDE DEF x
  <2>5. IsChain(b, f, rc.cur - rc.gap, sim.seen)
    BY <2>2, <2>3, <2>4
  <2>6. b \in Seq(ChainEvents) /\ b # <<>> /\ b[1] = rc.chain[1]
    BY <1>t, <2>n, <2>4, Extended
  <2>7. /\ rc' = [rc EXCEPT !.prevCycle = rc.cur, !.chain = c]
        /\ sim' = [sim EXCEPT !.mode = "weave", !.work = sim.work]
    <3> DEFINE r == [rc EXCEPT !.prevCycle = rc.cur, !.chain = b]
    <3>1. r.prevCycle = rc.cur /\ r.gap = rc.gap /\ r.chain = b
      BY <1>t DEF IsRecorder
    <3>2. /\ rc' = [r EXCEPT !.chain = Append(b, CR!Taper(r))]
          /\ sim' = [sim EXCEPT !.mode = "weave", !.work = sim.work]
      BY <1>4, <3>1 DEF CR!cSimStart, CR!Waiting, x, m
    <3>3. CR!Taper(r) = y
      BY <3>1 DEF CR!Taper
    <3> HIDE DEF b, y
    <3> QED
      BY <3>2, <3>3
  <2> HIDE DEF b
  <2>8. y \in ChainEvents
    BY <1>0, <2>2, <2>5, TaperGrows
  <2>9. IsChain(c, f, rc.cur - rc.gap, sim.seen)
    BY <1>0, <2>2, <2>5, TaperGrows
  <2>10. y.post = 0
    BY DEF CR!Event
  <2> HIDE DEF y
  <2>11. c \in Seq(ChainEvents) /\ c # <<>> /\ c[1] = rc.chain[1] /\ c[Len(c)] = y
    BY <2>6, <2>8, Extended
  <2> HIDE DEF c
  <2>12. /\ IsRecorder(rc') /\ rc'.st = rc.st /\ rc'.gap = rc.gap /\ rc'.halted = rc.halted
         /\ rc'.prevCycle = rc.cur /\ rc'.chain = c /\ rc'.at = rc.at /\ rc'.cur = rc.cur
         /\ rc'.lastStart = rc.lastStart /\ rc'.lastOrig = rc.lastOrig
    BY <1>t, <2>7, <2>11 DEF IsRecorder
  <2>13. /\ IsAround(sim') /\ sim'.added = sim.added /\ sim'.seen = sim.seen /\ sim'.joined = sim.joined
         /\ sim'.work = sim.work /\ sim'.failed = FALSE /\ sim'.mode = "weave"
         /\ sim'.glob = sim.glob /\ sim'.busy = sim.busy
    BY <1>t, <2>7 DEF IsAround
  <2>14. Active(rc', sim')
    <3>1. Fresh(rc', sim') \/ Started(rc', sim')
      BY <1>4, <2>11, <2>12, <2>13 DEF Books, Active, Fresh, Started
    <3>2. IsChain(rc'.chain, rc'.at - sim'.added, rc'.prevCycle - rc'.gap, sim'.seen)
      BY <2>9, <2>12, <2>13 DEF f
    <3>3. rc.cur <= rc.cur
      BY <1>0
    <3> QED
      BY <1>4, <2>12, <2>13, <3>1, <3>2, <3>3 DEF Books, Active
  <2>15. n <= rc.cur
    BY <1>0, <1>2, <1>4, <1>n
  <2> QED
    BY <1>4, <1>l, <2>10, <2>11, <2>12, <2>13, <2>14, <2>15 DEF Books, RecorderTypes, Halted, InBound, InWeave
<1>5. CASE rc.st = "DRAINING"
  <2> DEFINE top == CR!Max2(rc.cur, n)
             w == sim.work + CR!Max2(0, n - rc.cur)
  <2>1. rc' = [rc EXCEPT !.cur = top] /\ sim' = [sim EXCEPT !.mode = "weave", !.work = w]
    BY <1>5 DEF CR!cSimStart, CR!NextPhase
  <2>2. rc.cur - rc.gap = sim.work /\ sim.glob <= rc.cur /\ rc.prevCycle <= rc.cur
    BY <1>5 DEF Books, Active
  <2>3. top \in Int /\ w \in Int /\ n <= top /\ top - rc.gap = w /\ sim.glob <= top /\ rc.prevCycle <= top
    BY <1>0, <1>1, <2>2 DEF CR!Max2
  <2> HIDE DEF top, w
  <2>4. /\ IsRecorder(rc') /\ rc'.st = rc.st /\ rc'.gap = rc.gap /\ rc'.halted = rc.halted
        /\ rc'.prevCycle = rc.prevCycle /\ rc'.chain = rc.chain /\ rc'.at = rc.at /\ rc'.cur = top
        /\ rc'.lastStart = rc.lastStart /\ rc'.lastOrig = rc.lastOrig
    BY <1>t, <2>1, <2>3 DEF IsRecorder
  <2>5. /\ IsAround(sim') /\ sim'.added = sim.added /\ sim'.seen = sim.seen /\ sim'.joined = sim.joined
        /\ sim'.work = w /\ sim'.failed = FALSE /\ sim'.mode = "weave"
        /\ sim'.glob = sim.glob /\ sim'.busy = sim.busy
    BY <1>t, <2>1, <2>3 DEF IsAround
  <2>6. Active(rc', sim')
    BY <1>5, <2>3, <2>4, <2>5 DEF Books, Active, Fresh, Started
  <2> QED
    BY <1>5, <1>l, <2>3, <2>4, <2>5, <2>6 DEF Books, RecorderTypes, Halted, InBound, InWeave
<1> QED
  BY <1>t, <1>3, <1>4, <1>5 DEF IsRecorder

LEMMA SimulateKeeps ==
  ASSUME RecorderFit, Books(rc, sim), NEW extra \in Contention, CR!simulate(extra)
  PROVE  Books(rc', sim')
<1>0. /\ rc.gap \in Int /\ rc.prevCycle \in Int /\ rc.lastStart \in Int /\ rc.lastOrig \in Int
      /\ rc.unhalted \in Int /\ rc.halted \in Int /\ rc.cur \in Int /\ rc.at \in Int
      /\ sim.glob \in Int /\ sim.added \in Int /\ sim.seen \in Int
      /\ sim.joined \in Int /\ sim.busy \in Int /\ sim.work \in Int
  BY BooksFields
<1>t. IsRecorder(rc) /\ IsAround(sim) /\ sim.failed = FALSE /\ rc.chain \in Seq(ChainEvents)
  BY BooksFields
<1>1. PhaseLength \in Nat \ {0}
  BY DEF RecorderFit
<1> DEFINE n == sim.glob + PhaseLength
           e == Head(rc.chain)
           c == Tail(rc.chain)
           f == rc.at - sim.added
           end == rc.prevCycle - rc.gap
           start == IF e.kind = "core" THEN rc.at ELSE rc.lastStart
           orig == IF e.kind = "core" THEN e.orig ELSE rc.lastOrig
           seen == IF e.kind = "core" THEN sim.added ELSE sim.seen
           bad == rc.at < e.min \/ (Len(rc.chain) = 1 /\ rc.st # "DRAINING")
<1>2. sim.mode = "weave" /\ rc.chain # <<>>
  BY DEF CR!simulate, CR!Due
<1>a. rc.at < n /\ extra \in Nat
  BY DEF CR!simulate, CR!Due, CR!NextPhase, RecorderFit
<1>b. extra > 0 => e.kind = "access"
  BY DEF CR!simulate
<1>3. /\ rc' = [rc EXCEPT !.chain = c, !.at = rc.at + e.post + extra, !.lastStart = start, !.lastOrig = orig]
      /\ sim' = [sim EXCEPT !.added = sim.added + extra, !.seen = seen, !.failed = CR!Fails(bad)]
  BY DEF CR!simulate
<1>4. rc.st # "HALTED"
  BY <1>2 DEF Books, Halted
<1>5. /\ IsChain(rc.chain, f, end, sim.seen) /\ (Fresh(rc, sim) \/ Started(rc, sim))
  BY <1>4 DEF Books, Active
<1>6. /\ 0 <= rc.gap /\ rc.gap <= sim.seen /\ sim.seen <= sim.added
      /\ n <= rc.cur /\ rc.lastStart < n
  BY <1>2, <1>4 DEF Books, Active, InWeave
<1>7. /\ e \in ChainEvents /\ e = rc.chain[1] /\ e.post >= 0 /\ e.min <= f + sim.seen
      /\ (e.kind = "core" => e.orig = f) /\ IsChain(c, f + e.post, end, sim.seen)
  <2>1. f \in Int /\ end \in Int
    BY <1>0
  <2> HIDE DEF f, end
  <2> QED
    BY <1>0, <1>2, <1>5, <2>1, ChainRuns
<1>8. e.kind \in {"core", "access"} /\ e.post \in Int /\ e.min \in Int /\ e.orig \in Int
  BY <1>7 DEF ChainEvents
<1>9. Len(rc.chain) = 1 /\ rc.st = "RUNNING" => FALSE
  <2> SUFFICES ASSUME Len(rc.chain) = 1, rc.st = "RUNNING" PROVE FALSE
    OBVIOUS
  <2>1. rc.chain[1].post = 0 /\ rc.prevCycle = rc.cur
    BY <1>2 DEF Books, InWeave
  <2>2. f \in Int /\ end \in Int
    BY <1>0
  <2> HIDE DEF f, end
  <2>3. f + e.post = end
    BY <1>0, <1>5, <1>7, <2>2, ChainOrdered
  <2>4. f = end
    BY <1>7, <2>1, <2>2, <2>3
  <2>5. rc.prevCycle = rc.cur
    BY <2>1
  <2>6. rc.at - sim.added = rc.prevCycle - rc.gap
    BY <2>4 DEF f, end
  <2> HIDE DEF e, c
  <2> QED
    BY <1>0, <1>1, <1>a, <1>6, <2>5, <2>6
<1>10. bad = FALSE
  <2>1. ~(Len(rc.chain) = 1 /\ rc.st # "DRAINING")
    BY <1>4, <1>9, <1>t DEF IsRecorder
  <2> HIDE DEF e
  <2>2. ~(rc.at < e.min)
    BY <1>0, <1>6, <1>7, <1>8
  <2> QED
    BY <2>1, <2>2
<1>11. sim' = [sim EXCEPT !.added = sim.added + extra, !.seen = seen, !.failed = FALSE]
  BY <1>t, <1>3, <1>10 DEF CR!Fails
<1> HIDE DEF bad, e
<1>m. /\ rc.at + e.post + extra \in Int /\ sim.added + extra \in Int /\ f + e.post \in Int
      /\ rc.at + e.post + extra - (sim.added + extra) = f + e.post
  BY <1>0, <1>a, <1>8
<1>12. /\ start \in Int /\ orig \in Int /\ seen \in Int
       /\ start < n /\ sim.seen <= seen /\ seen <= sim.added + extra
  BY <1>0, <1>a, <1>6, <1>8
<1>13. c \in Seq(ChainEvents) /\ (rc.st = "RUNNING" => c # <<>> /\ c[Len(c)] = rc.chain[Len(rc.chain)])
  <2>1. Len(rc.chain) \in Nat /\ Len(rc.chain) # 0
    BY <1>t, <1>2
  <2>2. c \in Seq(ChainEvents) /\ Len(c) = Len(rc.chain) - 1
        /\ \A i \in 1 .. Len(rc.chain) - 1 : c[i] = rc.chain[i + 1]
    BY <1>t, <1>2
  <2>3. ASSUME rc.st = "RUNNING" PROVE c # <<>> /\ c[Len(c)] = rc.chain[Len(rc.chain)]
    <3> DEFINE l == Len(rc.chain)
    <3>1. l \in Nat /\ l # 0 /\ l # 1
      BY <1>9, <2>1, <2>3
    <3> HIDE DEF l
    <3>2. l - 1 \in 1 .. l - 1 /\ l - 1 # 0 /\ (l - 1) + 1 = l
      BY <3>1
    <3>3. Len(c) = l - 1 /\ c[l - 1] = rc.chain[(l - 1) + 1]
      BY <2>2, <3>2 DEF l
    <3>4. c # <<>>
      BY <3>2, <3>3
    <3> QED
      BY <3>2, <3>3, <3>4 DEF l
  <2> QED
    BY <2>2, <2>3
<1>14. start - orig = seen /\ orig <= f + e.post
  <2>1. CASE e.kind = "core"
    BY <1>0, <1>7, <1>8, <2>1
  <2>2. CASE e.kind # "core"
    <3>1. Started(rc, sim)
      BY <1>5, <1>7, <2>2 DEF Fresh
    <3>2. rc.lastStart - rc.lastOrig = sim.seen /\ rc.lastOrig <= f
      BY <3>1 DEF Started
    <3> QED
      BY <1>0, <1>7, <1>8, <2>2, <3>2
  <2> QED
    BY <2>1, <2>2
<1>15. IsChain(c, f + e.post, end, seen)
  <2>1. end \in Int
    BY <1>0
  <2> HIDE DEF c, f, end, seen
  <2> QED
    BY <1>0, <1>m, <1>7, <1>12, <2>1, ChainLater
<1> HIDE DEF c, start, orig, seen
<1>16. /\ IsRecorder(rc') /\ rc'.st = rc.st /\ rc'.gap = rc.gap /\ rc'.halted = rc.halted
       /\ rc'.prevCycle = rc.prevCycle /\ rc'.chain = c /\ rc'.at = rc.at + e.post + extra /\ rc'.cur = rc.cur
       /\ rc'.lastStart = start /\ rc'.lastOrig = orig
  BY <1>t, <1>3, <1>m, <1>12, <1>13 DEF IsRecorder
<1>17. /\ IsAround(sim') /\ sim'.added = sim.added + extra /\ sim'.seen = seen /\ sim'.joined = sim.joined
       /\ sim'.work = sim.work /\ sim'.failed = FALSE /\ sim'.mode = sim.mode
       /\ sim'.glob = sim.glob /\ sim'.busy = sim.busy
  BY <1>t, <1>11, <1>m, <1>12 DEF IsAround
<1>18. Active(rc', sim')
  <2> HIDE DEF f, end
  <2>0. rc'.at - sim'.added = f + e.post
    <3>1. rc'.at = rc.at + e.post + extra /\ sim'.added = sim.added + extra
      BY <1>16, <1>17
    <3> QED
      BY <1>0, <1>a, <1>8, <1>m, <3>1
  <2>4. rc'.prevCycle - rc'.gap = end
    BY <1>16 DEF end
  <2>1. Started(rc', sim')
    BY <1>14, <1>16, <1>17, <2>0 DEF Started
  <2>2. IsChain(rc'.chain, rc'.at - sim'.added, rc'.prevCycle - rc'.gap, sim'.seen)
    BY <1>15, <1>16, <1>17, <2>0, <2>4
  <2>3. rc.gap <= seen
    BY <1>0, <1>6, <1>12
  <2> QED
    BY <1>4, <1>6, <1>12, <1>16, <1>17, <2>1, <2>2, <2>3 DEF Books, Active
<1> QED
  BY <1>2, <1>4, <1>12, <1>13, <1>16, <1>17, <1>18 DEF Books, RecorderTypes, Halted, InBound, InWeave

LEMMA EndKeeps ==
  ASSUME RecorderFit, Books(rc, sim), CR!cSimEnd
  PROVE  Books(rc', sim')
<1>0. /\ rc.gap \in Int /\ rc.prevCycle \in Int /\ rc.lastStart \in Int /\ rc.lastOrig \in Int
      /\ rc.unhalted \in Int /\ rc.halted \in Int /\ rc.cur \in Int /\ rc.at \in Int
      /\ sim.glob \in Int /\ sim.added \in Int /\ sim.seen \in Int
      /\ sim.joined \in Int /\ sim.busy \in Int /\ sim.work \in Int
  BY BooksFields
<1>t. IsRecorder(rc) /\ IsAround(sim) /\ sim.failed = FALSE /\ rc.chain \in Seq(ChainEvents)
  BY BooksFields
<1>1. PhaseLength \in Nat \ {0}
  BY DEF RecorderFit
<1> DEFINE n == sim.glob + PhaseLength
<1>2. sim.mode = "weave" /\ (rc.chain = <<>> \/ ~(rc.at < n))
  BY DEF CR!cSimEnd, CR!Due, CR!NextPhase
<1>n. n \in Int
  BY <1>0, <1>1
<1>3. rc.lastStart < n
  BY <1>2 DEF Books, InWeave
<1>4. rc.lastStart <= n /\ sim.glob <= n
  BY <1>0, <1>1, <1>n, <1>3
<1>5. CASE rc.st = "HALTED"
  <2>1. rc' = rc /\ sim' = [sim EXCEPT !.mode = "bound", !.glob = n, !.busy = sim.busy, !.failed = sim.failed \/ FALSE]
    BY <1>5 DEF CR!cSimEnd, CR!NextPhase, CR!Fails
  <2>2. /\ IsAround(sim') /\ sim'.mode = "bound" /\ sim'.failed = FALSE /\ sim'.glob = n /\ sim'.busy = sim.busy
    BY <1>t, <1>0, <1>n, <2>1 DEF IsAround
  <2>3. rc.unhalted <= sim.glob
    BY <1>5 DEF Books, Halted
  <2>4. rc.unhalted <= n
    BY <1>0, <1>n, <1>4, <2>3
  <2> QED
    BY <1>4, <1>5, <2>1, <2>2, <2>4 DEF Books, RecorderTypes, Halted, Active, InBound, InWeave
<1>6. CASE rc.st # "HALTED"
  <2> DEFINE f == rc.at - sim.added
             end == rc.prevCycle - rc.gap
             before == rc.lastOrig + rc.gap
             skew == rc.lastStart - before
  <2>1. Started(rc, sim)
    BY <1>2, <1>6 DEF Books, Active, Fresh
  <2>2. rc.lastStart - rc.lastOrig = sim.seen /\ rc.lastOrig <= f
    BY <2>1 DEF Started
  <2>c. IsChain(rc.chain, f, end, sim.seen)
    BY <1>6 DEF Books, Active
  <2>3. /\ sim.joined - rc.halted = sim.busy
        /\ 0 <= rc.gap /\ rc.gap <= sim.seen /\ sim.seen <= sim.added /\ rc.cur - rc.gap = sim.work
        /\ rc.prevCycle <= rc.cur /\ n <= rc.cur
    BY <1>2, <1>6 DEF Books, Active, InWeave
  <2>4. f \in Int /\ end \in Int /\ before \in Int /\ skew \in Int
    BY <1>0
  <2>5. f <= end
    <3> HIDE DEF f, end
    <3> QED
      BY <1>0, <2>c, <2>4, ChainOrdered
  <2>6. /\ before <= rc.cur /\ rc.lastStart <= rc.cur /\ before <= rc.lastStart /\ skew >= 0
        /\ rc.gap + skew = sim.seen
    BY <1>0, <1>n, <1>3, <2>2, <2>3, <2>5
  <2>7. rc.chain = <<>> => rc.st = "DRAINING"
    BY <1>2, <1>6, <1>t DEF Books, InWeave, IsRecorder
  <2>8. (sim.failed \/ (rc.st # "HALTED" /\ (before > rc.cur \/ rc.lastStart > rc.cur \/ before > rc.lastStart
                                      \/ (rc.chain = <<>> /\ rc.st # "DRAINING")))) = FALSE
    <3>1. ~(before > rc.cur) /\ ~(rc.lastStart > rc.cur) /\ ~(before > rc.lastStart)
      BY <1>0, <2>4, <2>6
    <3> HIDE DEF before
    <3> QED
      BY <1>t, <2>7, <3>1
  <2> DEFINE k == IF rc.chain = <<>> THEN rc.lastStart ELSE rc.unhalted
             st == IF rc.chain = <<>> THEN "HALTED" ELSE rc.st
             busy == IF rc.chain = <<>> THEN sim.busy + rc.lastStart - sim.joined ELSE sim.busy
  <2>9. /\ rc' = IF rc.chain = <<>> THEN [CR!Skew(rc, skew) EXCEPT !.st = "HALTED", !.unhalted = rc.lastStart]
                                    ELSE CR!Skew(rc, skew)
        /\ sim' = [sim EXCEPT !.mode = "bound", !.glob = n, !.busy = busy, !.failed = FALSE]
    <3> HIDE DEF skew
    <3>1. sim' = [sim EXCEPT !.mode = "bound", !.glob = n, !.busy = busy,
                    !.failed = sim.failed \/ (rc.st # "HALTED" /\ (before > rc.cur \/ rc.lastStart > rc.cur
                      \/ before > rc.lastStart \/ (rc.chain = <<>> /\ rc.st # "DRAINING")))]
      BY <1>6 DEF CR!cSimEnd, CR!NextPhase, CR!Fails
    <3>2. rc' = IF rc.chain = <<>> THEN [CR!Skew(rc, skew) EXCEPT !.st = "HALTED", !.unhalted = rc.lastStart]
                                    ELSE CR!Skew(rc, skew)
      BY <1>6 DEF CR!cSimEnd, skew
    <3> HIDE DEF before
    <3> QED
      BY <2>8, <3>1, <3>2
  <2> HIDE DEF skew, before
  <2>10. /\ rc.cur + skew \in Int /\ rc.gap + skew \in Int /\ rc.prevCycle + skew \in Int
         /\ k \in Int /\ busy \in Int /\ st \in {"HALTED", "DRAINING", "RUNNING"}
    <3>1. rc.st \in {"HALTED", "DRAINING", "RUNNING"}
      BY <1>t DEF IsRecorder
    <3>2. sim.busy + rc.lastStart - sim.joined \in Int
      BY <1>0
    <3>3. busy \in Int /\ k \in Int /\ st \in {"HALTED", "DRAINING", "RUNNING"}
      BY <1>0, <3>1, <3>2
    <3> HIDE DEF busy, k, st
    <3> QED
      BY <1>0, <2>4, <3>3
  <2>11. /\ IsRecorder(rc') /\ rc'.st = st /\ rc'.unhalted = k /\ rc'.gap = rc.gap + skew
         /\ rc'.halted = rc.halted /\ rc'.prevCycle = rc.prevCycle + skew /\ rc'.chain = rc.chain
         /\ rc'.at = rc.at /\ rc'.cur = rc.cur + skew
         /\ rc'.lastStart = rc.lastStart /\ rc'.lastOrig = rc.lastOrig
    <3>1. CASE rc.chain = <<>>
      BY <1>t, <2>9, <2>10, <3>1 DEF IsRecorder, CR!Skew
    <3>2. CASE rc.chain # <<>>
      BY <1>t, <2>9, <2>10, <3>2 DEF IsRecorder, CR!Skew
    <3> QED
      BY <3>1, <3>2
  <2> HIDE DEF busy, k
  <2>12. /\ IsAround(sim') /\ sim'.added = sim.added /\ sim'.seen = sim.seen /\ sim'.joined = sim.joined
         /\ sim'.work = sim.work /\ sim'.failed = FALSE /\ sim'.mode = "bound"
         /\ sim'.glob = n /\ sim'.busy = busy
    BY <1>t, <1>n, <2>9, <2>10 DEF IsAround
  <2>13. CASE rc.chain = <<>>
    <3>1. k = rc.lastStart /\ busy = sim.busy + rc.lastStart - sim.joined /\ st = "HALTED"
      BY <2>13 DEF k, busy
    <3>2. rc.lastStart - rc.halted = busy
      <4>1. busy = sim.busy + rc.lastStart - sim.joined /\ sim.joined - rc.halted = sim.busy
        BY <2>3, <3>1
      <4> QED
        BY <1>0, <4>1
    <3> QED
      BY <1>4, <2>11, <2>12, <2>13, <3>1, <3>2 DEF Books, RecorderTypes, Halted, Active, InBound, InWeave
  <2>14. CASE rc.chain # <<>>
    <3>1. st = rc.st /\ busy = sim.busy
      BY <2>14 DEF busy
    <3>2. /\ rc.prevCycle + skew - (rc.gap + skew) = end /\ rc.cur + skew - (rc.gap + skew) = sim.work
          /\ n <= rc.cur + skew /\ rc.prevCycle + skew <= rc.cur + skew
          /\ 0 <= rc.gap + skew /\ rc.gap + skew <= sim.seen
      BY <1>0, <1>n, <2>3, <2>4, <2>6
    <3>3. Active(rc', sim')
      <4>1. Started(rc', sim')
        BY <2>2, <2>11, <2>12 DEF Started
      <4>2. IsChain(rc'.chain, rc'.at - sim'.added, rc'.prevCycle - rc'.gap, sim'.seen)
        <5>1. rc'.at - sim'.added = f
          BY <2>11, <2>12
        <5>2. rc'.prevCycle - rc'.gap = end
          <6>1. rc'.prevCycle = rc.prevCycle + skew /\ rc'.gap = rc.gap + skew
            BY <2>11
          <6> QED
            BY <1>0, <2>4, <3>2, <6>1
        <5> HIDE DEF f, end
        <5> QED
          BY <2>c, <2>11, <2>12, <5>1, <5>2
      <4>3. n <= rc'.cur /\ rc'.prevCycle <= rc'.cur /\ rc'.cur - rc'.gap = sim'.work /\ 0 <= rc'.gap
            /\ rc'.gap <= sim'.seen /\ sim'.seen <= sim'.added /\ sim'.joined - rc'.halted = sim'.busy
        <5> HIDE DEF st, n
        <5>1. /\ rc'.cur = rc.cur + skew /\ rc'.prevCycle = rc.prevCycle + skew /\ rc'.gap = rc.gap + skew
              /\ rc'.halted = rc.halted /\ sim'.work = sim.work /\ sim'.seen = sim.seen
              /\ sim'.added = sim.added /\ sim'.joined = sim.joined /\ sim'.busy = sim.busy
          BY <2>11, <2>12, <3>1
        <5> QED
          BY <1>0, <1>n, <2>3, <2>4, <3>2, <5>1
      <4> QED
        BY <2>12, <4>1, <4>2, <4>3 DEF Active
    <3> QED
      BY <1>4, <1>6, <2>6, <2>11, <2>12, <2>14, <3>1, <3>3 DEF Books, RecorderTypes, Halted, InBound, InWeave
  <2> QED
    BY <2>13, <2>14
<1> QED
  BY <1>5, <1>6

(* Each cycle of contention delays an in-order core once, its clock counts *)
(* what it does and the contention it met, and its halted cycles are those *)
(* without a thread and without events; and no assertion of the recorder   *)
(* fails.  That is for any phase length, latencies, gaps and contention.   *)
THEOREM RecorderIsExact ==
  ASSUME RecorderFit
  PROVE  CR!Init /\ [][CR!Next]_CR!vars => []CR!RecorderExact
<1>1. CR!Init => Books(rc, sim)
  BY RecorderInit
<1>2. Books(rc, sim) /\ [CR!Next]_CR!vars => Books(rc, sim)'
  <2>1. ASSUME Books(rc, sim), UNCHANGED CR!vars PROVE Books(rc, sim)'
    BY <2>1 DEF CR!vars
  <2> QED
    BY <2>1, JoinKeeps, AccessKeeps, ComputeKeeps, LeaveKeeps, StartKeeps, SimulateKeeps, EndKeeps DEF CR!Next
<1>3. Books(rc, sim) => CR!RecorderExact
  BY DEF Books, Halted, Active, InBound, CR!RecorderExact, CR!GapExact, CR!ClockExact, CR!HaltedExact
<1> QED
  BY <1>1, <1>2, <1>3, PTL

=============================================================================
