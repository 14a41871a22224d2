-------------------------------- MODULE Vantage --------------------------------
(***************************************************************************)
(* Vantage partitioning (VantageReplPolicy, part_repl_policies.h): lines   *)
(* are demoted out of partitions over their targets into an unmanaged      *)
(* region, the last partition, and evicted from there; a setpoint per      *)
(* partition, adjusted as candidates are seen, says which are old enough.  *)
(* A miss is the ranking of candidates, replaced() and update(), under the *)
(* controller's lock.                                                      *)
(***************************************************************************)
EXTENDS Integers, Sequences, SequencesExt, FiniteSetsExt

CONSTANTS NumLines, NumParts,
          Managed,   \* targetManagedSize, 85% of the lines
          Granularity, \* buckets of the partitioner
          Wrap,      \* 256: timestamps of 8 bits
          Turn,      \* 16: of its size in hits, a partition's timestamp goes on
          Interval,  \* 256: candidates between adjustments
          MaxTime, MaxResizes \* bounds

VARIABLES vt,    \* of each line ts, bts, p and op; of each partition size, target, long
                 \* (longTermTargetSize), ext (extendedSize), bts, hits, set (setpointBts, below 0
                 \* when it has wrapped), dems, cands; smooth; failed, an assertion has
          ghost  \* resizes so far

vars == <<vt, ghost>>

Lines == 1..NumLines
Parts == 0 .. NumParts - 1
Unmanaged == NumParts
Info(size, target) ==
  [size |-> size, target |-> target, long |-> target, ext |-> size,
   bts |-> 0, hits |-> 0, set |-> 0, dems |-> 0, cands |-> 0]

Init ==
  /\ \E b \in BOOLEAN :
       vt = [smooth |-> b, failed |-> FALSE, timestamp |-> 1,
             line |-> [l \in Lines |-> [ts |-> 0, bts |-> 0, p |-> Unmanaged, op |-> Unmanaged]],
             part |-> [p \in 0 .. NumParts |->
                         IF p = Unmanaged THEN Info(NumLines, 0) ELSE Info(0, Managed \div NumParts)]]
  /\ ghost = 0

-----------------------------------------------------------------------------
(* takeOneLine(): a line of some partition's target that is over its long- *)
(* term target.  The results; none if the assertion fails.                 *)
takeOneLine(part) ==
  {[part EXCEPT ![p].target = @ - 1] : p \in {q \in Parts : part[q].target > part[q].long}}
TakeLines(part, n) ==
  LET f[i \in 0..n] ==
        IF i = 0 THEN {part} ELSE LET s == f[i - 1] IN UNION {takeOneLine(q) : q \in s}
  IN f[n]

(* The end of update(): the line gets its partition's timestamp, which     *)
(* goes on with the setpoint.                                              *)
Stamped(v, l) ==
  LET p == v.line[l].p
      i == v.part[p]
      turn == i.hits + 1 >= i.size \div Turn
  IN [v EXCEPT !.line[l].bts = i.bts,
               !.part[p] = IF turn THEN [i EXCEPT !.bts = @ + 1, !.set = @ + 1, !.hits = 0]
                           ELSE [i EXCEPT !.hits = @ + 1]]

(* update() of a hit: out of the unmanaged region, the line is promoted to *)
(* the partition of whoever uses it.                                       *)
Promoted(v, l, own) ==
  IF v.line[l].p # Unmanaged THEN v
  ELSE [v EXCEPT !.line[l].p = own, !.part[own].size = @ + 1, !.part[Unmanaged].size = @ - 1]

Hit(l, own) ==
  /\ ~vt.failed /\ vt.timestamp < MaxTime /\ vt.line[l].ts > 0
  /\ vt' = Stamped([Promoted(vt, l, own) EXCEPT !.line[l].ts = vt.timestamp, !.timestamp = @ + 1], l)
  /\ UNCHANGED ghost

-----------------------------------------------------------------------------
(* A candidate, before the eviction: it is demoted if it is as old as the  *)
(* setpoint, in a partition over its target.                               *)
Old(v, l) ==
  LET i == v.part[v.line[l].p] IN (i.bts - v.line[l].bts) % Wrap >= (i.bts - i.set) % Wrap

Demoted(v, l) ==
  LET p == v.line[l].p IN
  [v EXCEPT !.line[l].p = Unmanaged,
            !.part = [@ EXCEPT ![p].size = @ - 1, ![p].dems = @ + 1, ![Unmanaged].size = @ + 1]]

(* After Interval candidates, the setpoint follows the aperture: 50% with  *)
(* the partition 10% over its target, in proportion below.                 *)
(* (Before it, a fault: the setpoint falls behind without a limit.)        *)
Shrunk(i) == IF 10 * i.size >= 11 * i.target THEN 2 * i.dems - i.cands
             ELSE i.dems * i.target - 5 * (i.size - i.target) * i.cands
SetpointFree(i) ==
  IF i.size <= i.target THEN i.set
  ELSE IF Shrunk(i) < 0 THEN IF i.set >= 0 /\ i.set < i.bts THEN i.set + 1 ELSE i.set
  ELSE IF Shrunk(i) > 0 THEN i.set - 1 ELSE i.set
Setpoint(i) ==
  IF i.size <= i.target THEN i.set
  ELSE IF Shrunk(i) < 0 THEN IF i.set >= 0 /\ i.set < i.bts THEN i.set + 1 ELSE i.set
  ELSE IF Shrunk(i) > 0 THEN IF i.bts - i.set < Wrap - 1 THEN i.set - 1 ELSE i.set
  ELSE i.set

Adjusted(i) ==
  IF i.cands + 1 < Interval THEN [i EXCEPT !.cands = @ + 1]
  ELSE [i EXCEPT !.set = Setpoint([i EXCEPT !.cands = @ + 1]), !.cands = 0, !.dems = 0]

Seen(v, l) ==
  LET p == v.line[l].p IN
  IF v.line[l].ts = 0 \/ p = Unmanaged \/ v.part[p].size <= v.part[p].target THEN v
  ELSE LET d == IF Old(v, l) THEN Demoted(v, l) ELSE v
       IN [d EXCEPT !.part[p] = Adjusted(@)]

AllSeen(v, s) ==
  LET f[i \in 0 .. Len(s)] == IF i = 0 THEN v ELSE LET w == f[i - 1] IN Seen(w, s[i])
  IN f[Len(s)]

(* getBestCandidate(): an empty line, the oldest of the unmanaged region,  *)
(* or the oldest.                                                          *)
Oldest(v, c) == CHOOSE l \in c : \A k \in c : v.line[l].ts <= v.line[k].ts
Best(v, s) ==
  LET c == ToSet(s)
      empty == {i \in DOMAIN s : v.line[s[i]].ts = 0}
      unmanaged == {l \in c : v.line[l].p = Unmanaged}
  IN IF empty # {} THEN s[Min(empty)]
     ELSE IF unmanaged # {} THEN Oldest(v, unmanaged) ELSE Oldest(v, c)

(* replaced() and update() of a miss.  In smoothTransients mode, a target  *)
(* below its long-term one grows with it, and some other loses a line.     *)
Replaced(v, l, own) ==
  LET old == v.line[l] IN
  [v EXCEPT !.line[l] = [ts |-> v.timestamp, bts |-> 0, p |-> own, op |-> own], !.timestamp = @ + 1,
            !.part = [q \in 0 .. NumParts |->
              [@[q] EXCEPT !.size = @ - (IF q = old.p THEN 1 ELSE 0) + (IF q = own THEN 1 ELSE 0),
                           !.ext = @ - (IF q = old.op THEN 1 ELSE 0) + (IF q = own THEN 1 ELSE 0)]]]

Miss(s, own) ==
  /\ ~vt.failed /\ vt.timestamp < MaxTime
  /\ \E v \in {AllSeen(vt, s)} : \E l \in {Best(v, s)} : \E r \in {Replaced(v, l, own)} :
       IF r.part[own].target >= r.part[own].long THEN vt' = Stamped(r, l)
       ELSE LET grown == [r.part EXCEPT ![own].target = @ + 1]
            IN IF takeOneLine(grown) = {} THEN vt' = [vt EXCEPT !.failed = TRUE]
               ELSE \E q \in takeOneLine(grown) : vt' = Stamped([r EXCEPT !.part = q], l)
  /\ UNCHANGED ghost

-----------------------------------------------------------------------------
(* setPartitionSizes().                                                    *)
Resized(sizes) ==
  [p \in 0 .. NumParts |->
     IF p = Unmanaged THEN vt.part[p]
     ELSE LET i == vt.part[p]
              s == (NumLines * sizes[p]) \div Granularity
          IN [i EXCEPT !.long = s,
                       !.target = IF vt.smooth THEN Max({@, Min({s, i.size + 1})}) ELSE s]]

setPartitionSizes(sizes) ==
  /\ ~vt.failed /\ ghost < MaxResizes
  /\ LET n == MapThenSumSet(LAMBDA p : Resized(sizes)[p].target - vt.part[p].target, Parts)
     IN IF ~vt.smooth THEN vt' = [vt EXCEPT !.part = Resized(sizes)]
        ELSE IF TakeLines(Resized(sizes), n) = {}
             THEN vt' = [vt EXCEPT !.part = Resized(sizes), !.failed = TRUE]
        ELSE \E q \in TakeLines(Resized(sizes), n) : vt' = [vt EXCEPT !.part = q]
  /\ ghost' = ghost + 1

(* What the partitioner gives out: its share, and NumParts for each.       *)
Allocs ==
  LET share == (Granularity * 85) \div 100 IN
  {a \in [Parts -> NumParts .. share] :
     MapThenSumSet(LAMBDA p : a[p], Parts) = share + NumParts * NumParts - NumParts}

CandLists == {s \in [1..2 -> Lines] : s[1] < s[2]}

Next ==
  \/ \E own \in Parts : (\E l \in Lines : Hit(l, own)) \/ (\E s \in CandLists : Miss(s, own))
  \/ \E sizes \in Allocs : setPartitionSizes(sizes)

-----------------------------------------------------------------------------
(* The sizes are those of the partitions and of the unmanaged region, and  *)
(* the extended ones of where lines came from.  (A line promoted to        *)
(* another partition than it came from counts for each in one of them, so  *)
(* that a size may exceed its extended size, part_repl_policies.h:277.)    *)
SizesExact ==
  \A p \in 0 .. NumParts :
    /\ vt.part[p].size = Cardinality({l \in Lines : vt.line[l].p = p})
    /\ vt.part[p].ext = Cardinality({l \in Lines : vt.line[l].op = p})

(* A setpoint is never as far behind as timestamps wrap, where no line     *)
(* would be old enough or all would, nor ahead of the partition's time.    *)
SetpointBehind == \A p \in Parts : vt.part[p].bts - vt.part[p].set \in 0 .. Wrap - 1

(* Targets that move smoothly only change hands; and are not beyond what   *)
(* they were or are to be.  With targets set to more than was shared out   *)
(* before, the partition that grows last finds nobody to take a line from  *)
(* and an assertion fails (part_repl_policies.h:631).                      *)
Sum(f(_)) == MapThenSumSet(f, Parts)
TargetsMove ==
  /\ vt.smooth /\ ~vt.failed => Sum(LAMBDA p : vt.part[p].target) = NumParts * (Managed \div NumParts)
  /\ ~vt.smooth => \A p \in Parts : vt.part[p].target = vt.part[p].long
  /\ vt.failed => vt.smooth /\ Sum(LAMBDA p : vt.part[p].long) > NumParts * (Managed \div NumParts)

VantageExact == SizesExact /\ SetpointBehind /\ TargetsMove
=============================================================================
