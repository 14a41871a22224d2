------------------------------- MODULE PrioQueue -------------------------------
(***************************************************************************)
(* The event queue of a weave domain (prio_queue.h): a ring of B blocks of *)
(* K cycles each (64 in the code) for the near future, and an ordered map  *)
(* for what lies further ahead.  Dequeuing moves the ring forward and,     *)
(* every half turn, brings in the far elements the ring now reaches.       *)
(* An element is the cycle it was queued for, so that a misplaced one      *)
(* shows.  A domain queues nothing before the cycle it is simulating       *)
(* (contention_sim.cpp:203), which is that of the last element dequeued.   *)
(***************************************************************************)
EXTENDS Integers, Sequences, Bags, FiniteSetsExt

CONSTANTS B, K,          \* blocks in the ring (even), cycles in a block
          MaxElems,      \* bound: elements queued at once
          Ahead,         \* bound: how far ahead of the present an element lies
          MaxCycle       \* bound: last cycle queued for

VARIABLES pq,            \* curBlock, blocks, and the far map as a bag
          seen           \* the last dequeue: its cycle, its element, the least there was

vars == <<pq, seen>>

Cur == 0 .. B - 1
Near == Cur \X (0 .. K - 1)

Init ==
  /\ pq = [cur |-> 0, at |-> [s \in Near |-> <<>>], far |-> EmptyBag]
  /\ seen = [cycle |-> 0, elem |-> 0, least |-> 0]

Slot(c) == <<(c \div K) % B, c % K>>
Push(at, c) == [at EXCEPT ![Slot(c)] = <<c>> \o @]

Elems == UNION {{pq.at[s][i] : i \in 1..Len(pq.at[s])} : s \in Near} \cup BagToSet(pq.far)
Size == FoldSet(LAMBDA s, n : n + Len(pq.at[s]), 0, Near) + BagCardinality(pq.far)

(* enqueue()                                                               *)
Enqueue(c) ==
  /\ Size < MaxElems /\ c >= seen.cycle /\ c <= MaxCycle
  /\ pq' = IF c \div K < pq.cur + B
           THEN [pq EXCEPT !.at = Push(@, c)]
           ELSE [pq EXCEPT !.far = @ (+) SetToBag({c})]
  /\ UNCHANGED seen

-----------------------------------------------------------------------------
(* dequeue(): to the first block with an element in it, ...                *)
Occupied(q, b) == \E k \in 0 .. K - 1 : q.at[<<b % B, k>>] # <<>>

(* ... bringing in what is less than a turn ahead at every half turn.      *)
Reached(q) == {c \in BagToSet(q.far) : c < (q.cur + B) * K}
BringIn(q) ==
  LET cs == Reached(q)
      copies[s \in SUBSET cs] ==
        IF s = {} THEN q.at
        ELSE LET c == Max(s) IN
             [copies[s \ {c}] EXCEPT ![Slot(c)] = [i \in 1..CopiesIn(c, q.far) |-> c] \o @]
  IN [q EXCEPT !.at = copies[cs],
               !.far = [c \in DOMAIN q.far \ cs |-> q.far[c]]]

(* (Before it, a fault: every full turn.)                                  *)
NextBlockFullTurn(q) ==
  LET n == [q EXCEPT !.cur = @ + 1]
  IN IF n.cur % B = 0 THEN BringIn(n) ELSE n
NextBlock(q) ==
  LET n == [q EXCEPT !.cur = @ + 1]
  IN IF n.cur % (B \div 2) = 0 THEN BringIn(n) ELSE n

(* The loop of dequeue(): it ends, for there is an element.                *)
Advanced ==
  LET f[i \in 0 .. MaxCycle \div K + 1] ==
        IF i = 0 THEN pq
        ELSE LET q == f[i - 1] IN IF Occupied(q, q.cur) THEN q ELSE NextBlock(q)
  IN f[MaxCycle \div K + 1]

Dequeue ==
  /\ Size > 0
  /\ LET q == Advanced
         off == Min({k \in 0 .. K - 1 : q.at[<<q.cur % B, k>>] # <<>>})
         s == <<q.cur % B, off>>
     IN /\ pq' = [q EXCEPT !.at[s] = Tail(@)]
        /\ seen' = [cycle |-> q.cur * K + off, elem |-> Head(q.at[s]), least |-> Min(Elems)]

(* firstCycle(): the near half of the ring; beyond it a far element may    *)
(* come earlier.                                                           *)
FirstIn(b) == (pq.cur + b) * K + Min({k \in 0 .. K - 1 : pq.at[<<(pq.cur + b) % B, k>>] # <<>>})
firstCycle ==
  LET occ == {b \in Cur : Occupied(pq, pq.cur + b)}
      far == BagToSet(pq.far)
  IN IF occ = {} THEN Min(far)
     ELSE IF Min(occ) < B \div 2 THEN FirstIn(Min(occ))
     ELSE Min({FirstIn(Min(occ))} \cup far)

Next == Dequeue \/ \E d \in 0..Ahead : Enqueue(seen.cycle + d)

-----------------------------------------------------------------------------
(* Elements leave in the order of their cycles, each at its own, however   *)
(* the ring has turned, and the weave threads' look at the first cycle is  *)
(* right: a far element is never passed by.                                *)
InOrder ==
  /\ seen.elem = seen.cycle /\ seen.cycle = seen.least
  /\ Size > 0 => firstCycle = Min(Elems)
=============================================================================
