-------------------------------- MODULE WayPart --------------------------------
(***************************************************************************)
(* Way partitioning (WayPartReplPolicy, part_repl_policies.h) over a set-  *)
(* associative array: each way belongs to a partition.  A miss is          *)
(* startReplacement(), recordCandidate() of each way, replaced() and       *)
(* update(), under the controller's lock.                                  *)
(***************************************************************************)
EXTENDS Integers, Sequences, FiniteSetsExt

CONSTANTS Sets, Ways,
          NumParts,  \* numbers of partitions
          MaxTime    \* bound: timestamps

VARIABLES wp,    \* parts and test; of each line p and ts; of each partition size and target;
                 \* of each way, way; timestamp; failed, an assertion has
          order  \* ghost: the lines used, the last one first

vars == <<wp, order>>

Lines == (1..Sets) \X (0 .. Ways - 1)
Parts == 0 .. wp.parts - 1

(* The constructor: the ways are dealt out evenly, and partition 0 has all *)
(* the lines.                                                              *)
Init ==
  /\ \E n \in NumParts, t \in BOOLEAN :
       LET way == [w \in 0 .. Ways - 1 |-> (w * n) \div Ways] IN
       wp = [parts |-> n, test |-> t, way |-> way, timestamp |-> 1, failed |-> FALSE,
             line |-> [l \in Lines |-> [p |-> 0, ts |-> 0]],
             size |-> [p \in 0 .. n - 1 |-> IF p = 0 THEN Sets * Ways ELSE 0],
             target |-> [p \in 0 .. n - 1 |-> Sets * Cardinality({w \in DOMAIN way : way[w] = p})]]
  /\ order = <<>>

-----------------------------------------------------------------------------
Use(l) == <<l>> \o SelectSeq(order, LAMBDA k : k # l)

(* update() of a hit.                                                      *)
Hit(l) ==
  /\ ~wp.failed /\ wp.timestamp < MaxTime
  /\ wp.line[l].ts > 0
  /\ wp' = [wp EXCEPT !.line[l].ts = wp.timestamp, !.timestamp = @ + 1]
  /\ order' = Use(l)

(* recordCandidate(): of the ways the partition may fill (all, in test     *)
(* mode), a line of another partition before one of its own, and among     *)
(* them the oldest.                                                        *)
(* (Before it, a fault: any way in test mode or out of it.)                *)
FillableAll(s, p) == {<<s, w>> : w \in 0 .. Ways - 1}
Fillable(s, p) == {<<s, w>> : w \in {v \in 0 .. Ways - 1 : wp.test \/ wp.way[v] = p}}
Older(l, k) == \/ wp.line[l].ts < wp.line[k].ts
               \/ wp.line[l].ts = wp.line[k].ts /\ l[2] <= k[2]
Candidate(s, p) ==
  LET c == Fillable(s, p)
      foreign == {l \in c : wp.line[l].p # p}
      from == IF ~wp.test /\ foreign # {} THEN foreign ELSE c
  IN {l \in from : \A k \in from : Older(l, k)}

(* replaced() and update(): the line changes partitions.                   *)
Miss(s, p) ==
  /\ ~wp.failed /\ wp.timestamp < MaxTime
  /\ IF Candidate(s, p) = {}
     THEN wp' = [wp EXCEPT !.failed = TRUE] /\ UNCHANGED order
     ELSE \E l \in Candidate(s, p) :
            /\ wp' = [wp EXCEPT !.line[l] = [p |-> p, ts |-> wp.timestamp], !.timestamp = @ + 1,
                        !.size = [q \in Parts |-> @[q] - (IF q = wp.line[l].p THEN 1 ELSE 0)
                                                       + (IF q = p THEN 1 ELSE 0)]]
            /\ order' = Use(l)

(* setPartitionSizes(), with the lookahead's n * n - n ways too many.  It  *)
(* writes past the ways and then asserts that it has not.                  *)
setPartitionSizes(ways) ==
  /\ ~wp.failed
  /\ LET sum(p) == MapThenSumSet(LAMBDA q : ways[q], 0 .. p)
         of(w) == Min({p \in Parts : w < sum(p)})
     IN wp' = [wp EXCEPT !.way = [w \in DOMAIN @ |-> of(w)],
                 !.target = [p \in Parts |-> (Sets * Ways * ways[p]) \div Ways],
                 !.failed = sum(wp.parts - 1) # Ways]
  /\ UNCHANGED order
Allocs ==
  {a \in [Parts -> wp.parts .. Ways] :
     MapThenSumSet(LAMBDA p : a[p], Parts) = Ways + wp.parts * wp.parts - wp.parts}

Next ==
  \/ \E l \in Lines : Hit(l)
  \/ \E s \in 1..Sets, p \in Parts : Miss(s, p)
  \/ \E ways \in Allocs : setPartitionSizes(ways)

-----------------------------------------------------------------------------
(* The sizes are those of the partitions.                                  *)
SizesExact ==
  \A p \in Parts : wp.size[p] = Cardinality({l \in Lines : wp.line[l].p = p})

(* A partition fills its own ways only: lines that have been filled are    *)
(* where their partition may be, and so none exceeds its target.           *)
Filled(p) == {l \in Lines : wp.line[l].ts > 0 /\ wp.line[l].p = p}
Isolated ==
  ~wp.test /\ ~wp.failed =>
    \A p \in Parts :
      /\ \A l \in Filled(p) : wp.way[l[2]] = p
      /\ Cardinality(Filled(p)) <= wp.target[p]

(* In its ways a partition keeps the lines it used last.                   *)
KeepsRecent ==
  \A s \in 1..Sets, p \in Parts :
    LET used == SelectSeq(order, LAMBDA l : l[1] = s /\ (wp.test \/ wp.way[l[2]] = p))
    IN ~wp.failed /\ Len(used) = Cardinality(Fillable(s, p)) =>
         \A l \in Candidate(s, p) : wp.line[l].p = p \/ wp.test => l = used[Len(used)]

(* No miss finds a partition without a way; but the first repartitioning   *)
(* among several fails (part_repl_policies.h:231), see Partitioning.       *)
FailsOnlyShared == wp.failed => wp.parts > 1

WayPartExact == SizesExact /\ Isolated /\ KeepsRecent /\ FailsOnlyShared
=============================================================================
