---------------------------- MODULE MCCoherence ----------------------------
(* Instance of Coherence for TLC: below the last-level cache, a            *)
(* second-level cache shared by a data and an instruction cache, and a     *)
(* data cache of another core.                                             *)
EXTENDS Coherence, TLC

CONSTANTS l3, l2a, l1d, l1i, l1b

TreeCaches == {l3, l2a, l1d, l1i, l1b}
TreeParent == (l2a :> l3) @@ (l1d :> l2a) @@ (l1i :> l2a) @@ (l1b :> l3)
TreeLines  == [n \in TreeCaches |-> 1]
(* Each line is of a process of its own, at the same virtual address.      *)
TreeProc == [a \in Addrs |-> a]
TreeVirt == [a \in Addrs |-> 0]
Symmetry == Permutations(Addrs)
=============================================================================
