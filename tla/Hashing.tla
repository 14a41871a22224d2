-------------------------------- MODULE Hashing --------------------------------
(***************************************************************************)
(* H3HashFamily (hash.cpp): a random matrix of words, each ANDed with the  *)
(* value, rotated and XORed, and the result folded to the output's width.  *)
(* Every bit of the result is an XOR of products of an input bit and a     *)
(* matrix bit; it is kept as the set of those products, so one behaviour   *)
(* stands for all values and matrices.                                     *)
(***************************************************************************)
EXTENDS Integers, FiniteSets, FiniteSetsExt

CONSTANTS Width,    \* of a word, 64
          Unroll    \* words taken in one turn of the loop, 8

VARIABLES fn,   \* outputBits asked for, resShift, x, fold (the next), ended
          res   \* of each bit of the result, the set of <<input bit, matrix word>> XORed into it

vars == <<fn, res>>

Bits == 0 .. Width - 1
Xor(s, t) == (s \ t) \cup (t \ s)
RotateLeft(w, k) == [b \in Bits |-> w[(b - k) % Width]]
ShiftRight(w, k) == [b \in Bits |-> IF b + k < Width THEN w[b + k] ELSE {}]
Both(v, w) == [b \in Bits |-> Xor(v[b], w[b])]

(* The constructor: as many halvings of the word as the output allows, at  *)
(* most three.                                                             *)
Shift(bits) == Cardinality({k \in 1..3 : bits <= Width \div 2^k})
Init ==
  /\ \E bits \in 1 .. Width : fn = [bits |-> bits, shift |-> Shift(bits), x |-> 0, fold |-> 1]
  /\ res = [b \in Bits |-> {}]

MaxBits == Width \div 2^fn.shift

(* One turn of the loop: word x + k is rotated by k, and then all by       *)
(* Unroll more.                                                            *)
(* (Before it, a fault: a word is rotated by one too few.)                 *)
ProductLess(k) == RotateLeft([b \in Bits |-> {<<b, fn.x + k>>}], IF k = 0 THEN 0 ELSE k - 1)
Product(k) == RotateLeft([b \in Bits |-> {<<b, fn.x + k>>}], k)
Block ==
  /\ fn.x < MaxBits
  /\ res' = RotateLeft(FoldSet(LAMBDA k, w : Both(w, Product(k)), res, 0 .. Unroll - 1), Unroll)
  /\ fn' = [fn EXCEPT !.x = @ + Unroll]

Fold ==
  /\ fn.x >= MaxBits /\ fn.fold <= fn.shift
  /\ res' = Both(ShiftRight(res, Width \div 2^fn.fold), res)
  /\ fn' = [fn EXCEPT !.fold = @ + 1]

Next == Block \/ Fold

(* The caller masks the result to the bits it asked for.  Each of these is *)
(* the XOR of every input bit with a matrix bit, and no two of them use    *)
(* the same matrix bit: with random bits, the function is drawn uniformly  *)
(* from the linear functions (the H3 family), as with the "original,       *)
(* simpler code" hash.cpp's comment quotes.                                *)
UsesEveryBitOnce ==
  fn.fold > fn.shift /\ fn.x >= MaxBits =>
    LET out == 0 .. fn.bits - 1 IN
    /\ \A b \in out, i \in Bits : Cardinality({p \in res[b] : p[1] = i}) = 1
    /\ \A b, c \in out : b # c => res[b] \cap res[c] = {}

(* Enough words are drawn for the loop.                                    *)
InsideMatrix == \A b \in Bits : \A p \in res[b] : p[2] < MaxBits
================================================================================
