---------------------------------- MODULE Tage ----------------------------------
(***************************************************************************)
(* The branch predictor (BranchPredictorTage, tage.cpp) of the fetch       *)
(* model: a table of counters, and tables tagged with longer and longer    *)
(* parts of the history.  A step is predict() of a branch, whole.          *)
(***************************************************************************)
EXTENDS Integers, Sequences, SequencesExt, FiniteSetsExt

CONSTANTS Tables, IndexSize, TagSize, Base, Top,  \* Top: of the three kinds of counters
          HistLength,  \* of the history a table is tagged with
          Programs,    \* sets of branches
          Mixed, Same, \* bounds: branches of a program, and how long the last one repeats
          Enough       \* how often it does before it is predicted right

VARIABLES tg,   \* pcs; base; of each table and index, counter, tag and useful; hist; useAlt; n
          last  \* ghost: pc, taken and hit, predicted right; run, how often in a row this branch
                \* alone has gone this way; lost, useful entries of other tables the step
                \* changed; learned, from a misprediction something was

vars == <<tg, last>>

Entry == [counter |-> 0, tag |-> 0, useful |-> FALSE]
Init ==
  /\ \E p \in Programs :
       tg = [pcs |-> p, base |-> [i \in 0 .. Base - 1 |-> Top \div 2], useAlt |-> 0, n |-> 0,
             tage |-> [t \in 1 .. Tables |-> [i \in 0 .. 2^IndexSize - 1 |-> Entry]],
             hist |-> [k \in 0 .. HistLength[Tables] - 1 |-> 0]]
  /\ last = [pc |-> -1, taken |-> FALSE, hit |-> TRUE, run |-> 0, lost |-> {}, learned |-> TRUE]

-----------------------------------------------------------------------------
(* The history of a table, folded from both ends into n bits, XORed with   *)
(* the branch.                                                             *)
Flip(a, b) == (a + b) % 2
Bit(v, k) == (v \div 2^k) % 2
Value(b) == MapThenSumSet(LAMBDA k : b[k] * 2^k, DOMAIN b)
Folded(put, t, n) ==
  FoldLeft(LAMBDA b, j : [k \in 0 .. n - 1 |->
                            IF k = 0 THEN put[Flip(b[n - 1], tg.hist[j - 1])]
                            ELSE IF k = n \div 2 THEN put[Flip(b[n \div 2 - 1], tg.hist[HistLength[t] - j])]
                            ELSE b[k - 1]],
           [k \in 0 .. n - 1 |-> 0], [j \in 1 .. (HistLength[t] + 1) \div 2 |-> j])
With(b, pc) == Value([k \in DOMAIN b |-> Flip(b[k], Bit(pc, k))])

(* mybitset::set() sets the bit whatever the value; std::bitset does not.  *)
SetAlways == [v \in {0, 1} |-> 1]
SetTo == [v \in {0, 1} |-> v]
Index(pc, t) == With(Folded(SetAlways, t, IndexSize), pc)
Tag(pc, t) == With(Folded(SetTo, t, TagSize), pc)

(* GetTagePredictions(): the two longest histories that hit; the base      *)
(* table, 0, if there are not so many.  The alternative counts as taken    *)
(* from Top / 2 on, all others above it.  k has the branch's index and tag *)
(* of each table.                                                          *)
Keys(pc) == [t \in 1 .. Tables |-> [index |-> Index(pc, t), tag |-> Tag(pc, t)]]
At(k, t) == tg.tage[t][k[t].index]
Look(pc, k) ==
  LET hits == {t \in 1 .. Tables : At(k, t).tag = k[t].tag}
      provider == Max({0} \cup hits)
      alt == Max({0} \cup (hits \ {provider}))
      counter(t) == IF t = 0 THEN tg.base[pc % Base] ELSE At(k, t).counter
  IN [provider |-> provider,
      taken |-> counter(provider) > Top \div 2,
      altTaken |-> IF alt = 0 THEN counter(0) > Top \div 2 ELSE counter(alt) >= Top \div 2,
      unsure |-> provider > 0 /\ ~At(k, provider).useful]
Prediction(l) == IF l.unsure /\ tg.useAlt > Top \div 2 THEN l.altTaken ELSE l.taken

Up(c) == IF c < Top THEN c + 1 ELSE c
Down(c) == IF c > 0 THEN c - 1 ELSE c
Train(c, taken) == IF taken THEN Up(c) ELSE Down(c)

(* AllocateNewEntries(): the first table with a longer history whose entry *)
(* is not useful; on the way there, entries are so no longer.              *)
(* (Before it, a fault: whether an entry is useful is not looked at.)      *)
FreeAny(k, t) == TRUE
Free(k, t) == ~At(k, t).useful
Longer(l) == l.provider + 1 .. Tables
Allocated(l, k) == Min({t \in Longer(l) : Free(k, t)} \cup {Tables + 1})

(* A table's entry after a step: the provider's is trained, and is useful  *)
(* or not if the alternative said otherwise.                               *)
Updated(l, k, t, taken) ==
  LET e == At(k, t) IN
  IF t = l.provider
    THEN [e EXCEPT !.counter = Train(@, taken),
                   !.useful = IF l.altTaken # l.taken THEN l.taken = taken ELSE @]
  ELSE IF Prediction(l) = taken \/ t < l.provider \/ t > Allocated(l, k) THEN e
  ELSE IF t = Allocated(l, k) THEN [counter |-> Top \div 2, tag |-> k[t].tag, useful |-> FALSE]
  ELSE [e EXCEPT !.useful = FALSE]

Step(pc, taken, k, l) ==
  /\ tg' = [tg EXCEPT
       !.n = @ + 1,
       !.base = IF l.provider = 0 THEN [@ EXCEPT ![pc % Base] = Train(@, taken)] ELSE @,
       !.tage = [t \in 1 .. Tables |-> [@[t] EXCEPT ![k[t].index] = Updated(l, k, t, taken)]],
       !.useAlt = IF l.altTaken = l.taken THEN @ ELSE IF l.altTaken = taken THEN Up(@) ELSE Down(@),
       !.hist = [j \in DOMAIN @ |-> IF j > 0 THEN @[j - 1] ELSE IF taken THEN 1 ELSE 0]]
  /\ \E now \in {[t \in 1 .. Tables |-> tg'.tage[t][k[t].index]]} :
       last' = [pc |-> pc, taken |-> taken, hit |-> Prediction(l) = taken,
                run |-> IF last.pc = pc /\ last.taken = taken THEN last.run + 1 ELSE 1,
                lost |-> {t \in (1 .. Tables) \ {l.provider} :
                            At(k, t).useful /\ [now[t] EXCEPT !.useful = TRUE] # At(k, t)},
                learned |-> \/ Prediction(l) = taken
                            \/ \E t \in Longer(l) : now[t].tag = k[t].tag
                            \/ \A t \in Longer(l) : ~now[t].useful]

(* Any few branches, and then the last one the same way for long.          *)
Predict(pc, taken) ==
  /\ tg.n < Mixed \/ (tg.n < Mixed + Same /\ pc = last.pc /\ taken = last.taken)
  /\ \E k \in {Keys(pc)} : \E l \in {Look(pc, k)} : Step(pc, taken, k, l)

Next == \E pc \in tg.pcs, taken \in BOOLEAN : Predict(pc, taken)

-----------------------------------------------------------------------------
(* An entry that is useful is not given away nor trained by another's      *)
(* branch.                                                                 *)
UsefulKept == last.lost = {}

(* A misprediction leaves an entry with a longer history for the next time *)
(* there is this history, or room for one.                                 *)
Learns == last.learned

(* A branch that keeps going one way is predicted right in the end.        *)
Settles == (last.run > Enough) => last.hit

TageExact == UsefulKept /\ Learns /\ Settles
================================================================================
