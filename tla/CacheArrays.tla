------------------------------ MODULE CacheArrays ------------------------------
(***************************************************************************)
(* Where a cache keeps its lines (cache_arrays.cpp, ideal_arrays.h): the   *)
(* set-associative array, the zcache and the fully associative LRU array.  *)
(* The candidate that is evicted is any of those offered to the            *)
(* replacement policy.  The coherence controller holds its lock from       *)
(* preinsert() to postinsert(), and only lookups that update nothing come  *)
(* between: an insertion is one step.                                      *)
(***************************************************************************)
EXTENDS Integers, Sequences, SequencesExt, FiniteSetsExt

CONSTANTS NumSets, Ways,
          Cands,     \* candidates of a zcache's walk
          Addrs,     \* lines; 0 is none
          Hashes     \* the hash functions: <<way, line>> to a set

VARIABLES ca,    \* the array: kind; hash; line[id], its address; at[pos], the id at a
                 \* position of the zcache (lookupArray); lru and map of the ideal array
          seen   \* the lines inserted in an ideal array or used, the last one first

vars == <<ca, seen>>

Ids == 0 .. NumSets * Ways - 1
Kinds == {"setassoc", "z", "ideal"}

Init ==
  /\ \E k \in Kinds : \E h \in IF k = "ideal" THEN {<<>>} ELSE Hashes :
       ca = [kind |-> k, hash |-> h, line |-> [i \in Ids |-> 0], at |-> [i \in Ids |-> i],
             lru |-> Reverse([i \in 1 .. Cardinality(Ids) |-> i - 1]), map |-> <<>>]
  /\ seen = <<>>

-----------------------------------------------------------------------------
(* Set-associative: the lines of a set are next to each other.             *)
Set(c, a) == {i \in Ids : i \div Ways = c.hash[<<0, a>>]}

(* Zcache: a line is at one position of each way.                          *)
Pos(c, w, a) == w * NumSets + c.hash[<<w, a>>]

(* lookup() of each array: the ids under which a is found.                 *)
Lookup(c, a) ==
  CASE c.kind = "setassoc" -> {i \in Set(c, a) : c.line[i] = a}
    [] c.kind = "z" -> {i \in {c.at[Pos(c, w, a)] : w \in 0 .. Ways - 1} : c.line[i] = a}
    [] c.kind = "ideal" -> IF a \in DOMAIN c.map THEN {c.map[a]} ELSE {}

(* preinsert() of the zcache: the candidates, breadth first, each with its *)
(* position and the index of the one whose line could move there (0: the   *)
(* new line could).  The walk stops at an empty line.                      *)
Seeds(c, a) == [w \in 1 .. Ways |-> [pos |-> Pos(c, w - 1, a), parent |-> 0]]
Expand(c, q, n) ==
  q \o SelectSeq([w \in 1 .. Ways |-> [pos |-> Pos(c, w - 1, c.line[c.at[q[n].pos]]), parent |-> n]],
                 LAMBDA z : z.pos # q[n].pos)
Walk(c, a) ==
  LET f[n \in 0 .. Cands] ==
        IF n = 0 THEN Seeds(c, a)
        ELSE LET q == f[n - 1] IN
             IF Len(q) < Cands /\ \A i \in DOMAIN q : c.line[c.at[q[i].pos]] # 0
             THEN Expand(c, q, n) ELSE q
      q == f[Cands]
  IN SubSeq(q, 1, Min({Cands, Len(q)}))

(* The positions to shift, from the victim's up to a seed's: of the first  *)
(* candidate that is the victim.                                           *)
(* (Before it, a fault: of the last one, which may be reached in a loop.)  *)
IndexLast(c, q, v) == Max({i \in DOMAIN q : c.at[q[i].pos] = v})
Index(c, q, v) == Min({i \in DOMAIN q : c.at[q[i].pos] = v})
SwapArray(c, q, v) ==
  LET f[i \in DOMAIN q] == IF q[i].parent = 0 THEN <<q[i].pos>> ELSE <<q[i].pos>> \o f[q[i].parent]
  IN f[Index(c, q, v)]

(* postinsert(): the ids move, the lines stay; the victim's id goes where  *)
(* the new line belongs.                                                   *)
Shift(at, swaps, v) ==
  LET f[i \in 1 .. Len(swaps)] ==
        IF i = 1 THEN at ELSE LET g == f[i - 1] IN [g EXCEPT ![swaps[i - 1]] = g[swaps[i]]]
  IN [f[Len(swaps)] EXCEPT ![swaps[Len(swaps)]] = v]

-----------------------------------------------------------------------------
ToFront(s, e) == <<e>> \o SelectSeq(s, LAMBDA f : f # e)

(* A hit.  Gets update the replacement state, puts do not.                 *)
Hit(a, gets) ==
  /\ Lookup(ca, a) # {}
  /\ IF ca.kind = "ideal" /\ gets
     THEN /\ ca' = [ca EXCEPT !.lru = ToFront(@, ca.map[a])]
          /\ seen' = ToFront(seen, a)
     ELSE UNCHANGED vars

(* A miss: line a replaces the victim.                                     *)
InsertSet(a) ==
  /\ ca.kind = "setassoc"
  /\ \E v \in Set(ca, a) : ca' = [ca EXCEPT !.line[v] = a]

InsertZ(a) ==
  /\ ca.kind = "z"
  /\ LET q == Walk(ca, a) IN
     \E v \in {ca.at[q[i].pos] : i \in DOMAIN q} :
       ca' = [ca EXCEPT !.line[v] = a, !.at = Shift(@, SwapArray(ca, q, v), v)]

InsertIdeal(a) ==
  /\ ca.kind = "ideal"
  /\ LET v == Last(ca.lru) IN
     ca' = [ca EXCEPT !.line[v] = a, !.lru = ToFront(@, v),
                      !.map = [b \in (DOMAIN @ \ {ca.line[v]}) \cup {a} |-> IF b = a THEN v ELSE @[b]]]

Insert(a) ==
  /\ Lookup(ca, a) = {}
  /\ InsertSet(a) \/ InsertZ(a) \/ InsertIdeal(a)
  /\ seen' = IF ca.kind = "ideal" THEN ToFront(seen, a) ELSE seen

Next == \E a \in Addrs : Insert(a) \/ \E gets \in BOOLEAN : Hit(a, gets)

-----------------------------------------------------------------------------
(* A line is found where it is, and only there: whatever was shifted to    *)
(* make room, the next access of a line in the array hits, under the id    *)
(* that its directory entry and its state are kept at.                     *)
Found == \A a \in Addrs : Lookup(ca, a) = {i \in Ids : ca.line[i] = a}

(* No position of the zcache holds two ids, or none.                       *)
Permuted == {ca.at[i] : i \in Ids} = Ids

(* The ideal array holds exactly the lines used last.                      *)
MostRecent ==
  ca.kind = "ideal" =>
    {ca.line[i] : i \in Ids} \ {0} = {seen[i] : i \in 1 .. Min({Len(seen), Cardinality(Ids)})}

ArraysExact == Found /\ Permuted /\ MostRecent
=============================================================================
