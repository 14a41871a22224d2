------------------------------- MODULE BankBuild -------------------------------
(***************************************************************************)
(* BuildCacheBank() (init.cpp) and the constructors it calls: which cache  *)
(* banks a configuration can ask for, and what is built.  An action is a   *)
(* stage of the function; the first check that fails ends it.              *)
(***************************************************************************)
EXTENDS Integers, FiniteSets

CONSTANTS Asked  \* what is asked for: size in lines (odd: not a whole number of them), terminal,
                 \* type, array, ways, cands, hash, repl, mapper, buckets, nonInclusive, mshrs;
                 \* cands, hash and repl may be "default" (0 for cands)

VARIABLES q,    \* what is asked for
          bank  \* at, the stage (or how it ended); the array's ways, cands, sets and hashes; hash;
                \* repl, whether it asks for sharers, and buckets; inclusive; kind of cache

vars == <<q, bank>>

Stop(how) == bank' = [bank EXCEPT !.at = how] /\ UNCHANGED q
To(b, stage) == bank' = [b EXCEPT !.at = stage] /\ UNCHANGED q
IsPow2(n) == n \in {2^k : k \in 0..20}

Init ==
  /\ q \in Asked
  /\ bank = [at |-> "array", ways |-> 0, cands |-> 0, sets |-> 0, hashes |-> 0, hash |-> "none",
             repl |-> "none", sharers |-> FALSE, buckets |-> 0, inclusive |-> TRUE,
             kind |-> "none"]

-----------------------------------------------------------------------------
Ideal == q.array \in {"IdealLRU", "IdealLRUPart"}
Ways == IF Ideal THEN q.lines ELSE q.ways
Array ==
  /\ bank.at = "array"
  /\ IF q.odd \/ q.array \notin {"SetAssoc", "Z", "IdealLRU", "IdealLRUPart"} THEN Stop("panic")
     ELSE IF q.array = "Z" /\ q.ways <= 1 THEN Stop("assert")
     ELSE IF Ways = 0 THEN Stop("undefined")  \* a division by zero
     ELSE To([bank EXCEPT !.ways = Ways, !.sets = q.lines \div Ways,
                          !.hashes = IF Ideal THEN 0 ELSE IF q.array = "Z" THEN q.ways ELSE 1,
                          !.cands = IF q.array # "Z" THEN q.ways ELSE IF q.cands = 0 THEN 16 ELSE q.cands],
             "sets")

(* __builtin_clz(0) is undefined: any number of set bits; (1u << setBits)  *)
(* is not 0, so the check fails, unless the shift is undefined too.        *)
(* (Before it, a fault: the number of sets may be any.)                    *)
AnySets(n) == TRUE
GoodSets(n) == IsPow2(n)
Sets ==
  /\ bank.at = "sets"
  /\ IF bank.sets = 0 THEN Stop("panic") \/ Stop("undefined")
     ELSE IF ~GoodSets(bank.sets) THEN Stop("panic") ELSE To(bank, "hash")

Hash ==
  /\ bank.at = "hash"
  /\ \E h \in {IF q.hash # "default" THEN q.hash ELSE IF q.array = "Z" THEN "H3" ELSE "None"} :
       IF bank.hashes = 0 THEN To([bank EXCEPT !.hash = "ideal"], "repl")
       ELSE IF h = "None" /\ q.array = "Z" THEN Stop("panic")
       ELSE IF h \notin {"None", "H3"} THEN Stop("panic")  \* SHA1: not compiled in
       ELSE To([bank EXCEPT !.hash = h], "repl")

(* Each policy's constructor checks what it needs.                         *)
Partitioned == {"WayPart", "Vantage", "IdealLRUPart"}
Mappers == {"Core", "InstrData", "InstrDataCore", "Process", "InstrDataProcess", "ProcessGroup"}
Repl ==
  /\ bank.at = "repl"
  /\ \E r \in {IF q.repl # "default" THEN q.repl
               ELSE IF q.array = "IdealLRUPart" THEN "IdealLRUPart" ELSE "LRU"} :
       IF r \in Partitioned
       THEN IF (r = "WayPart" /\ q.array # "SetAssoc") \/ q.mapper \notin Mappers THEN Stop("panic")
            ELSE IF r = "WayPart" /\ bank.ways * bank.sets # q.lines THEN Stop("assert")
            ELSE To([bank EXCEPT !.repl = r, !.buckets = IF r = "WayPart" THEN bank.ways ELSE q.buckets], "build")
       ELSE IF r \notin {"LRU", "LRUNoSh", "LFU", "LRUProfViol", "TreeLRU", "NRU", "Rand"}
                 \/ (r = "TreeLRU" /\ bank.cands # 0 /\ ~IsPow2(bank.cands)) THEN Stop("panic")
       ELSE To([bank EXCEPT !.repl = r, !.sharers = r \in {"LRUProfViol", "TreeLRU"} \/ (r = "LRU" /\ ~q.terminal)],
               "build")

Build ==
  /\ bank.at = "build"
  /\ IF q.array = "Z" /\ (bank.cands < bank.ways \/ bank.ways * bank.sets # q.lines) THEN Stop("assert")
     ELSE IF q.array = "IdealLRU" /\ bank.repl # "LRU" THEN Stop("assert")
     ELSE IF q.array = "IdealLRUPart" /\ bank.repl # "IdealLRUPart" THEN Stop("panic")
     ELSE To(bank, "cache")

CacheStage ==
  /\ bank.at = "cache"
  /\ IF q.nonInclusive /\ ~(q.type = "Simple" /\ ~q.terminal) THEN Stop("assert")
     ELSE IF ~q.terminal
     THEN IF q.type # "Timing" THEN Stop("panic")
          ELSE IF q.mshrs = 0 THEN Stop("assert")
          ELSE To([bank EXCEPT !.kind = "TimingCache", !.inclusive = ~q.nonInclusive], "built")
     ELSE IF q.type # "Simple" \/ q.array # "SetAssoc" \/ bank.hash # "None" \/ bank.repl # "LRU"
            THEN Stop("panic")
            ELSE To([bank EXCEPT !.kind = "FilterCache"], "built")

Next == Array \/ Sets \/ Hash \/ Repl \/ Build \/ CacheStage

-----------------------------------------------------------------------------
(* What a bank that is built can be relied on for:                         *)
(* - its sets are indexed by masking, so all are reached and none that is  *)
(*   not there; only a SetAssoc array may leave lines over that no address *)
(*   maps to;                                                              *)
(* - an array of its own kind has its own policy;                          *)
(* - a policy that asks which lines are shared is not over a controller    *)
(*   that knows no sharers, and a filter cache, which answers hits on its  *)
(*   own, is set-associative, unhashed and LRU;                            *)
(* - it is inclusive: nonInclusiveHack asks for type Simple, which only a  *)
(*   terminal cache can have, and is refused to those.                     *)
BankSound ==
  (bank.at = "built") =>
    /\ IsPow2(bank.sets) /\ bank.sets * bank.ways <= q.lines
    /\ (q.array # "SetAssoc") => bank.sets * bank.ways = q.lines
    /\ Ideal => bank.repl = IF q.array = "IdealLRU" THEN "LRU" ELSE "IdealLRUPart"
    /\ (bank.repl = "WayPart") => bank.sets * bank.ways = q.lines /\ bank.buckets = bank.ways
    /\ bank.sharers => bank.kind = "TimingCache"
    /\ (bank.kind = "FilterCache") = q.terminal
    /\ (bank.kind = "FilterCache") => bank.repl = "LRU" /\ bank.hash = "None" /\ bank.hashes = 1
    /\ (bank.hashes > 1) => bank.hash = "H3"
    /\ bank.inclusive
================================================================================
