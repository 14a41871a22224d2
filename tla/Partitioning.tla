------------------------------ MODULE Partitioning ------------------------------
(***************************************************************************)
(* How a partitioned cache sizes its partitions: a monitor per partition   *)
(* counts what LRU caches of every size would miss (utility_monitor.cpp,   *)
(* UMON), the miss curves are resampled into one array (monitor.cpp), and  *)
(* every interval the lookahead algorithm (lookahead.cpp) gives out the    *)
(* cache's buckets by marginal utility.  One set of each monitor, of       *)
(* lines that are sampled.                                                 *)
(***************************************************************************)
EXTENDS Integers, Sequences, SequencesExt, FiniteSetsExt

CONSTANTS NumParts,   \* numbers of partitions
          UmonBuckets, Buckets, \* ways of a monitor, buckets to give out
          Word,       \* 2^32: the miss counts of the array
          Addrs,
          MaxAccesses, MaxIntervals \* bounds

VARIABLES mon,   \* n partitions; of each, lines (a monitor's list), hits and misses;
                 \* allocs, of the last repartitioning
          hist   \* ghost: the accesses of each partition, those of this interval from
                 \* since on; the curves of the last repartitioning

vars == <<mon, hist>>

Parts == 1 .. mon.n

Init ==
  \E n \in NumParts :
    /\ mon = [n |-> n, lines |-> [p \in 1..n |-> [b \in 1..UmonBuckets |-> 0]],
              hits |-> [p \in 1..n |-> [b \in 1..UmonBuckets |-> 0]],
              misses |-> [p \in 1..n |-> 0], allocs |-> <<>>, intervals |-> 0]
    /\ hist = [acc |-> [p \in 1..n |-> <<>>], since |-> [p \in 1..n |-> 1], curve |-> <<>>]

-----------------------------------------------------------------------------
(* UMon::access: a hit or a miss, and to the head of the list.             *)
(* (Before it, a fault: a line that hits stays where it is.)               *)
HeadOnMiss(s, a, b) == IF s[b] = a THEN s ELSE <<a>> \o RemoveAt(s, b)
ToHead(s, a, b) == <<a>> \o RemoveAt(s, b)
access(p, a) ==
  LET s == mon.lines[p]
      at == {b \in DOMAIN s : s[b] = a}
      b == IF at = {} THEN UmonBuckets ELSE Min(at)
  IN /\ MapThenSumSet(LAMBDA q : Len(hist.acc[q]), Parts) < MaxAccesses
     /\ mon' = IF at = {} THEN [mon EXCEPT !.misses[p] = @ + 1, !.lines[p] = ToHead(s, a, b)]
               ELSE [mon EXCEPT !.hits[p][b] = @ + 1, !.lines[p] = ToHead(s, a, b)]
     /\ hist' = [hist EXCEPT !.acc[p] = Append(@, a)]

(* UMon::getMisses: by the number of ways.                                 *)
getMisses(p) ==
  [w \in 0 .. UmonBuckets |-> mon.misses[p] + MapThenSumSet(LAMBDA b : mon.hits[p][b], w + 1 .. UmonBuckets)]

(* getMissCurve: resampled; the code writes entry Buckets, too.            *)
getMissCurve(p) ==
  LET m == getMisses(p) IN
  [j \in 0 .. Buckets |->
     IF UmonBuckets >= Buckets THEN m[j * (UmonBuckets \div Buckets)]
     ELSE LET r == Buckets \div UmonBuckets
              k == j % r
          IN IF k = 0 THEN m[j \div r]
             ELSE (m[j \div r] * (r - k) + m[j \div r + 1] * k) \div r]

(* get(): the array has Buckets entries per partition; entry Buckets of    *)
(* one is entry 0 of the next, which is written after it, and of the last  *)
(* one it is behind the array.                                             *)
get(curve, p, b) == IF b = Buckets /\ p < mon.n THEN curve[p + 1][0] ELSE curve[p][b]

-----------------------------------------------------------------------------
(* The lookahead algorithm.  Utility is of 32 bits, without a sign.        *)
Utility(curve, p, alloc, i) == (get(curve, p, alloc) - get(curve, p, alloc + i)) % Word
Better(u, i, v, j) == u * j > v * i
getMaxMarginalUtility(curve, p, alloc, balance) ==
  LET u(i) == Utility(curve, p, alloc, i)
      i == Min({k \in 1 .. balance : \A j \in 1 .. balance : ~Better(u(j), j, u(k), k)})
  IN [u |-> u(i), i |-> i]

Given(curve, a) ==
  LET mu == [p \in Parts |-> getMaxMarginalUtility(curve, p, a.allocs[p], a.balance)]
      p == Min({q \in Parts : \A r \in Parts : ~Better(mu[r].u, mu[r].i, mu[q].u, mu[q].i)})
  IN [allocs |-> [a.allocs EXCEPT ![p] = @ + mu[p].i], balance |-> a.balance - mu[p].i]

(* partition() passes the minimum of all partitions together as that of    *)
(* each; what is left is what it should be.                                *)
computeBestPartitioning(curve, min) ==
  LET f[k \in 0 .. Buckets] ==
        IF k = 0 THEN [allocs |-> [p \in Parts |-> min], balance |-> Buckets - min]
        ELSE LET a == f[k - 1] IN IF a.balance = 0 THEN a ELSE Given(curve, a)
  IN f[Buckets]

(* The PartitionEvent: new sizes, and reset() of the monitors' counters.   *)
partition ==
  /\ mon.intervals < MaxIntervals
  /\ LET curve == [p \in Parts |-> getMissCurve(p)]
         best == computeBestPartitioning(curve, mon.n)
     IN /\ mon' = [mon EXCEPT !.hits = [p \in Parts |-> [b \in 1..UmonBuckets |-> 0]],
                      !.misses = [p \in Parts |-> 0], !.allocs = best.allocs, !.intervals = @ + 1]
        /\ hist' = [hist EXCEPT !.since = [p \in Parts |-> Len(hist.acc[p]) + 1], !.curve = curve]

Next == partition \/ \E p \in Parts, a \in Addrs : access(p, a)

-----------------------------------------------------------------------------
(* The miss curve is that of LRU caches: a w-way cache misses a line when  *)
(* at least w others were used since it was.  Counters are reset between   *)
(* intervals and the lines are not.                                        *)
Distance(s, i) ==  \* of access i of the sequence s; -1 if it is the first
  LET before == {j \in 1 .. i - 1 : s[j] = s[i]}
  IN IF before = {} THEN -1 ELSE Cardinality({s[j] : j \in Max(before) + 1 .. i - 1})
CurvesExact ==
  \A p \in Parts : \A w \in 0 .. UmonBuckets :
    getMisses(p)[w] =
      Cardinality({i \in hist.since[p] .. Len(hist.acc[p]) :
                     Distance(hist.acc[p], i) = -1 \/ Distance(hist.acc[p], i) >= w})

(* Everything is given out, and too much: n partitions get n times n       *)
(* buckets before the rest is divided, where n were meant (lookahead.cpp:  *)
(* 69, 91, 135), so that only one alone gets what there is.                *)
AllocsExact ==
  mon.allocs # <<>> =>
    /\ MapThenSumSet(LAMBDA p : mon.allocs[p], Parts) = Buckets + mon.n * mon.n - mon.n
    /\ \A p \in Parts : mon.allocs[p] \in mon.n .. Buckets

(* Of those allocations it finds the one with the fewest misses, if the    *)
(* curves are convex; and if the entry of a whole cache is right, which    *)
(* is the next partition's (monitor.cpp:38, 85): as soon as the next       *)
(* partition has more accesses than this one would miss with its minimum,  *)
(* this one gets everything.                                               *)
Convex(c) == \A i \in 1 .. Buckets - 1 : 2 * c[i] <= c[i - 1] + c[i + 1]
Misses(alloc) == MapThenSumSet(LAMBDA p : hist.curve[p][alloc[p]], Parts)
AllocsBest ==
  mon.allocs # <<>> =>
    /\ (\A p \in Parts : /\ Convex(hist.curve[p])
                         /\ get(hist.curve, p, Buckets) = hist.curve[p][Buckets]) =>
         \A alloc \in [Parts -> mon.n .. Buckets] :
           MapThenSumSet(LAMBDA p : alloc[p], Parts) = Buckets + mon.n * mon.n - mon.n
             => Misses(mon.allocs) <= Misses(alloc)
    /\ mon.n = 2 /\ hist.curve[2][0] > hist.curve[1][2] => mon.allocs[1] = Buckets

PartitioningExact == CurvesExact /\ AllocsExact /\ AllocsBest
=============================================================================
