---------------------------- MODULE MCScheduler ------------------------------
(* The scheduler on small instances: all threads but one run anywhere, and *)
(* that one, pinned to a core, is the only thread of a second process.     *)
EXTENDS Scheduler, TLC

CONSTANTS Other, OtherCore

MCMask == [t \in Threads |-> IF t = Other THEN {OtherCore} ELSE Ctxs]
MCPid  == [t \in Threads |-> IF t = Other THEN 2 ELSE 1]

(* The threads that run anywhere are alike, and no CHOOSE of Scheduler has *)
(* more than one answer.                                                   *)
Symmetry == Permutations(Threads \ {Other})
==============================================================================
