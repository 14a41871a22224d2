------------------------------ MODULE MCWeave ------------------------------
(* Instance of Weave for TLC: two domains, each with a thread of its own   *)
(* or both with the same one.                                              *)
EXTENDS Weave

CONSTANTS t1, t2

Homes == [c \in Cores |-> c]
Apart == {[d \in Domains |-> IF d = 1 THEN t1 ELSE t2]}
Both  == Apart \cup {[d \in Domains |-> t1]}
(* The second phase is explored if core 2 stayed out of the first, and     *)
(* with two accesses while core 1 runs.                                    *)
SecondPhaseAlone == phases > 0 => rec[2] = Recorder /\ (rec[1].st # "RUNNING" => accesses < 2)
=============================================================================
