-------------------------- MODULE FutexMatchingProofs --------------------------
(***************************************************************************)
(* Wakes are matched exactly, for any number of threads and any counts.    *)
(***************************************************************************)
EXTENDS FutexMatching, FiniteSetTheorems, TLAPS

Pcs == {"out", "waking", "woke", "joining", "polling", "giving up", "waiting", "woken", "waited"}
Thread == [pc : Pcs, val : Asks \cup {0}, res : 0..Cap, maxWakes : 0..Cap, wokenUp : 0..(Word - 1)]
Shared == [allowed : Int, unmatched : Nat, foreign : BOOLEAN, leaked : Nat, steps : 0..MaxSteps,
           fail : {"none", "allowance", "woken up", "unmatched"}]

(* The inductive invariant: what the two ends of a call have made of its   *)
(* count, that one who has joined had asked for what an int holds, and     *)
(* that each failed call has left its allowance once.                      *)
Types == th \in [Threads -> Thread] /\ sh \in Shared
Honest(r, fail) ==
  /\ r.pc \in {"waking", "woke", "joining"} => r.maxWakes = Min({Cast(r.val), Cap})
  /\ r.pc \in {"joining", "polling", "giving up"} => r.wokenUp = Cast(Min({r.res, r.val}))
  /\ r.pc \in {"polling", "giving up"} /\ r.val < 0 => r.pc = "polling" /\ fail = "woken up"
AllHonest == \A t \in Threads : Honest(th[t], sh.fail)
LeaksFew == sh.leaked <= sh.steps * Cap
IInv == Types /\ AllHonest /\ LeaksFew /\ MatchingExact

LEMMA RowCount ==
  ASSUME NEW t, NEW n \in Nat
  PROVE  IsFiniteSet({t} \X (1..n)) /\ Cardinality({t} \X (1..n)) = n
<1> DEFINE f == [k \in 1..n |-> <<t, k>>]
<1>1. f \in Bijection(1..n, {t} \X (1..n))
  <2>1. f \in [1..n -> {t} \X (1..n)]
    OBVIOUS
  <2>2. \A j, k \in 1..n : f[j] = f[k] => j = k
    OBVIOUS
  <2>3. \A w \in {t} \X (1..n) : \E k \in 1..n : f[k] = w
    OBVIOUS
  <2> HIDE DEF f
  <2> QED
    BY <2>1, <2>2, <2>3 DEF Bijection, Injection, Surjection, IsInjective
<1>2. IsFiniteSet(1..n) /\ Cardinality(1..n) = n
  BY FS_Interval
<1>3. ExistsBijection(1..n, {t} \X (1..n))
  BY <1>1 DEF ExistsBijection
<1> QED
  BY <1>2, <1>3, FS_Bijection

LEMMA WakesAreFinite ==
  ASSUME ConstantsFit
  PROVE  IsFiniteSet(Threads \X (1..Cap))
<1>1. IsFiniteSet(1..Cap)
  BY FS_Interval DEF ConstantsFit
<1> QED
  BY <1>1, FS_Product DEF ConstantsFit

(* A sum of which one term changes.                                        *)
LEMMA TotalFollows ==
  ASSUME ConstantsFit, NEW t \in Threads,
         NEW f \in [Threads -> 0..Cap], NEW g \in [Threads -> 0..Cap],
         \A u \in Threads \ {t} : g[u] = f[u]
  PROVE  Total(f) \in Nat /\ Total(g) = Total(f) - f[t] + g[t]
<1> DEFINE Rest == {w \in Threads \X (1..Cap) : w[1] # t /\ w[2] <= f[w[1]]}
           Row(n) == {t} \X (1..n)
<1>1. IsFiniteSet(Threads \X (1..Cap))
  BY WakesAreFinite
<1>2. IsFiniteSet(Rest) /\ Cardinality(Rest) \in Nat
  BY <1>1, FS_Subset, FS_CardinalityType
<1>3. f[t] \in Nat /\ f[t] <= Cap /\ g[t] \in Nat /\ g[t] <= Cap /\ Cap \in Nat
  BY DEF ConstantsFit
<1>4. Wakes(f) = Rest \cup Row(f[t]) /\ Wakes(g) = Rest \cup Row(g[t])
  BY <1>3 DEF Wakes
<1>5. Rest \cap Row(f[t]) = {} /\ Rest \cap Row(g[t]) = {}
  OBVIOUS
<1>6. /\ IsFiniteSet(Row(f[t])) /\ Cardinality(Row(f[t])) = f[t]
      /\ IsFiniteSet(Row(g[t])) /\ Cardinality(Row(g[t])) = g[t]
  BY <1>3, RowCount
<1> HIDE DEF Rest, Row
<1>7. Total(f) = Cardinality(Rest) + f[t] /\ Total(g) = Cardinality(Rest) + g[t]
  <2>1. Cardinality({}) = 0
    BY FS_EmptySet
  <2>2. ASSUME NEW n \in Nat, Rest \cap Row(n) = {}, IsFiniteSet(Row(n)), Cardinality(Row(n)) = n
        PROVE  Cardinality(Rest \cup Row(n)) = Cardinality(Rest) + n
    <3>1. Cardinality(Rest \cup Row(n))
            = Cardinality(Rest) + Cardinality(Row(n)) - Cardinality(Rest \cap Row(n))
      BY <1>2, <2>2, FS_Union
    <3> QED
      BY <1>2, <2>1, <2>2, <3>1
  <2> QED
    BY <1>3, <1>4, <1>5, <1>6, <2>2 DEF Total
<1> QED
  BY <1>2, <1>3, <1>7

LEMMA TotalBounds ==
  ASSUME ConstantsFit, NEW f \in [Threads -> 0..Cap], NEW g \in [Threads -> 0..Cap],
         \A u \in Threads : f[u] <= g[u]
  PROVE  Total(f) \in Nat /\ Total(g) \in Nat /\ Total(f) <= Total(g)
<1>1. IsFiniteSet(Threads \X (1..Cap))
  BY WakesAreFinite
<1>2. Wakes(f) \subseteq Wakes(g) /\ Wakes(g) \subseteq Threads \X (1..Cap)
  BY DEF Wakes, ConstantsFit
<1> QED
  BY <1>1, <1>2, FS_Subset, FS_CardinalityType DEF Total

LEMMA LesserOfTwo ==
  ASSUME NEW a \in Int, NEW b \in Int
  PROVE  Min({a, b}) = IF a <= b THEN a ELSE b
BY DEF Min

(* An int as an unsigned one.                                              *)
LEMMA Casts ==
  ASSUME ConstantsFit, NEW v \in (-Half)..(Half - 1)
  PROVE  Cast(v) = (IF v < 0 THEN Word + v ELSE v) /\ Cast(v) \in 0..(Word - 1)
BY DEF Cast, Word, ConstantsFit

LEMMA TypedRecord ==
  ASSUME ConstantsFit, NEW r \in Thread
  PROVE  /\ r.pc \in Pcs /\ r.val \in Int /\ r.val \in (-Half)..(Half - 1)
         /\ r.res \in Nat /\ r.res <= Cap /\ r.maxWakes \in Nat /\ r.maxWakes <= Cap
         /\ r.wokenUp \in Nat /\ Cap \in Nat /\ Half \in Nat
<1>1. Cap \in Nat /\ Half \in Nat /\ Cap < Half /\ Asks \subseteq (-Half)..(Half - 1)
  BY DEF ConstantsFit
<1>2. /\ r.pc \in Pcs /\ r.val \in Asks \cup {0} /\ r.res \in 0..Cap /\ r.maxWakes \in 0..Cap
      /\ r.wokenUp \in 0..(Word - 1)
  BY DEF Thread
<1>3. r.val \in (-Half)..(Half - 1)
  <2>1. CASE r.val = 0
    BY <1>1, <2>1
  <2>2. CASE r.val \in Asks
    BY <1>1, <2>2
  <2> QED
    BY <1>2, <2>1, <2>2
<1> QED
  BY <1>1, <1>2, <1>3 DEF Word

(* What a call has woken is within its allowance, and is the count that    *)
(* ends it if it has asked for what an int holds; else that is above the   *)
(* cap.                                                                    *)
LEMMA WithinAllowance ==
  ASSUME ConstantsFit, NEW r \in Thread
  PROVE  /\ Woken(r) \in 0..Cap
         /\ r.maxWakes = Min({Cast(r.val), Cap}) => Woken(r) <= r.maxWakes
         /\ r.wokenUp = Cast(Min({r.res, r.val})) =>
              IF r.val < 0 THEN r.wokenUp > Cap ELSE r.wokenUp = Woken(r)
<1>1. /\ r.val \in Int /\ r.val \in (-Half)..(Half - 1) /\ r.res \in Nat /\ r.res <= Cap
      /\ Cap \in Nat /\ Half \in Nat /\ Cap < Half
  BY TypedRecord DEF ConstantsFit
<1>2. Woken(r) = IF r.val < 0 \/ r.res <= r.val THEN r.res ELSE r.val
  BY <1>1, LesserOfTwo DEF Woken
<1>3. Cast(r.val) = (IF r.val < 0 THEN Word + r.val ELSE r.val) /\ Cast(r.val) \in Int
  BY <1>1, Casts DEF Word
<1>4. Min({r.res, r.val}) = IF r.res <= r.val THEN r.res ELSE r.val
  BY <1>1, LesserOfTwo
<1>5. Min({Cast(r.val), Cap}) = IF Cast(r.val) <= Cap THEN Cast(r.val) ELSE Cap
  BY <1>1, <1>3, LesserOfTwo
<1>6. Min({r.res, r.val}) \in (-Half)..(Half - 1)
  BY <1>1, <1>4
<1>7. LET v == Min({r.res, r.val}) IN Cast(v) = IF v < 0 THEN Word + v ELSE v
  BY <1>6, Casts
<1>8. Woken(r) \in 0..Cap
  BY <1>1, <1>2
<1>9. r.maxWakes = Min({Cast(r.val), Cap}) => Woken(r) <= r.maxWakes
  BY <1>1, <1>2, <1>3, <1>5 DEF Word
<1>10. r.wokenUp = Cast(Min({r.res, r.val})) =>
         IF r.val < 0 THEN r.wokenUp > Cap ELSE r.wokenUp = Woken(r)
  BY <1>1, <1>2, <1>4, <1>7 DEF Word
<1> QED
  BY <1>8, <1>9, <1>10

LEMMA Typed ==
  ASSUME ConstantsFit, NEW r \in Thread
  PROVE  /\ Claim(r) \in 0..Cap /\ Counts(r) \in 0..Cap
         /\ Claim(r) \in Nat /\ Counts(r) \in Nat
<1>1. 0 \in 0..Cap /\ r.maxWakes \in 0..Cap /\ Woken(r) \in 0..Cap /\ Cap \in Nat
  <2>1. r.maxWakes \in Nat /\ r.maxWakes <= Cap /\ Cap \in Nat
    BY TypedRecord
  <2>2. Woken(r) \in 0..Cap
    BY WithinAllowance
  <2> QED
    BY <2>1, <2>2
<1>2. Counts(r) \in 0..Cap
  BY <1>1 DEF Counts
<1>3. Claim(r) \in 0..Cap
  BY <1>1, <1>2 DEF Claim
<1> QED
  BY <1>1, <1>2, <1>3

(* The counted wakes are within the allowance.                             *)
LEMMA EachWithin ==
  ASSUME ConstantsFit, NEW r \in Thread, NEW fail, Honest(r, fail)
  PROVE  Counts(r) <= Claim(r)
<1>1. Claim(r) \in Nat /\ Counts(r) \in Nat
  BY Typed
<1>2. CASE r.pc \in {"woke", "joining"}
  <2>1. Woken(r) <= r.maxWakes
    BY <1>2, WithinAllowance DEF Honest
  <2> QED
    BY <1>2, <2>1 DEF Counts, Claim
<1>3. CASE r.pc = "waking"
  <2>1. Counts(r) = 0
    BY <1>3 DEF Counts
  <2> QED
    BY <1>1, <2>1
<1>4. CASE r.pc \notin {"waking", "woke", "joining"}
  <2>1. Claim(r) = Counts(r)
    BY <1>4 DEF Claim
  <2> QED
    BY <1>1, <2>1
<1> QED
  BY <1>2, <1>3, <1>4

LEMMA Within ==
  ASSUME ConstantsFit, Types, AllHonest
  PROVE  Total(Tallies) \in Nat /\ Total(Claims) \in Nat /\ Total(Tallies) <= Total(Claims)
<1>1. \A t \in Threads : th[t] \in Thread /\ Honest(th[t], sh.fail)
  BY DEF Types, AllHonest
<1>2. Tallies \in [Threads -> 0..Cap] /\ Claims \in [Threads -> 0..Cap]
  BY <1>1, Typed DEF Tallies, Claims
<1>3. \A t \in Threads : Tallies[t] <= Claims[t]
  BY <1>1, EachWithin DEF Tallies, Claims
<1> QED
  BY <1>2, <1>3, TotalBounds

(* All that is allowed is less than a word.                                *)
LEMMA NoWrap ==
  ASSUME ConstantsFit, NEW f \in [Threads -> 0..Cap], NEW leaked \in Nat,
         NEW steps \in 0..MaxSteps, leaked <= steps * Cap
  PROVE  Total(f) + leaked < Word
<1> DEFINE n == Cardinality(Threads)
<1>1. Wakes(f) \subseteq Threads \X (1..Cap)
  BY DEF Wakes
<1>2. /\ IsFiniteSet(Threads) /\ n \in Nat /\ IsFiniteSet(1..Cap) /\ Cardinality(1..Cap) = Cap
      /\ Cap \in Nat /\ MaxSteps \in Nat
  BY FS_CardinalityType, FS_Interval DEF ConstantsFit
<1>3. Cardinality(Threads \X (1..Cap)) = n * Cap
  BY <1>2, FS_Product
<1>4. Total(f) \in Nat /\ Total(f) <= n * Cap
  BY <1>1, <1>3, WakesAreFinite, FS_Subset, FS_CardinalityType DEF Total
<1>5. (n + MaxSteps) * Cap < Word /\ Word \in Int
  BY DEF ConstantsFit, Word
<1> HIDE DEF n
<1>6. steps * Cap <= MaxSteps * Cap
  BY <1>2
<1>7. (n + MaxSteps) * Cap = n * Cap + MaxSteps * Cap
  BY <1>2
<1> QED
  BY <1>2, <1>4, <1>5, <1>6, <1>7

(* A step of t, and of threads of which nothing is counted.                *)
LEMMA Follows ==
  ASSUME ConstantsFit, Types, Types', NEW t \in Threads,
         \A u \in Threads \ {t} : Claim(th'[u]) = Claim(th[u]) /\ Counts(th'[u]) = Counts(th[u])
  PROVE  /\ Total(Claims') = Total(Claims) - Claim(th[t]) + Claim(th'[t])
         /\ Total(Tallies') = Total(Tallies) - Counts(th[t]) + Counts(th'[t])
<1>1. \A u \in Threads : th[u] \in Thread /\ th'[u] \in Thread
  BY DEF Types
<1>2. /\ Tallies \in [Threads -> 0..Cap] /\ Claims \in [Threads -> 0..Cap]
      /\ Tallies' \in [Threads -> 0..Cap] /\ Claims' \in [Threads -> 0..Cap]
  BY <1>1, Typed DEF Tallies, Claims
<1>3. /\ Claims[t] = Claim(th[t]) /\ Claims'[t] = Claim(th'[t])
      /\ Tallies[t] = Counts(th[t]) /\ Tallies'[t] = Counts(th'[t])
      /\ \A u \in Threads \ {t} : Claims'[u] = Claims[u] /\ Tallies'[u] = Tallies[u]
  BY DEF Claims, Tallies
<1> QED
  BY <1>2, <1>3, TotalFollows

(* The threads that return from a wait.                                    *)
LEMMA Returns ==
  ASSUME ConstantsFit
  PROVE  /\ IsFiniteSet(Returning) /\ Cardinality(Returning) \in Nat
         /\ IsFiniteSet(Waiting) /\ Cardinality(Waiting) \in Nat
<1>1. Returning \subseteq Threads /\ Waiting \subseteq Threads
  BY DEF Returning, Waiting
<1> QED
  BY <1>1, FS_Subset, FS_CardinalityType DEF ConstantsFit

One(b) == IF b THEN 1 ELSE 0
Back(pc) == pc \in {"woken", "waited"}

(* What is known of a thread and of the totals: every wake counted is of a *)
(* thread that returns or is matched, as long as nothing foreign has come. *)
LEMMA Sums ==
  ASSUME ConstantsFit, IInv, NEW t \in Threads
  PROVE  /\ sh \in Shared /\ th \in [Threads -> Thread] /\ th[t] \in Thread
         /\ Honest(th[t], sh.fail)
         /\ Claim(th[t]) \in Nat /\ Counts(th[t]) \in Nat /\ Counts(th[t]) <= Claim(th[t])
         /\ Total(Claims) \in Nat /\ Total(Tallies) \in Nat /\ Total(Tallies) <= Total(Claims)
         /\ Cardinality(Returning) \in Nat
         /\ th[t].maxWakes \in Nat /\ th[t].wokenUp \in Nat
         /\ sh.allowed \in Int /\ sh.unmatched \in Nat /\ sh.leaked \in Nat
         /\ sh.steps \in Nat /\ sh.leaked <= sh.steps * Cap
         /\ sh.fail = "none" => sh.allowed = Total(Claims) + sh.leaked
         /\ ~sh.foreign => Total(Tallies) = sh.unmatched + Cardinality(Returning)
<1>1. /\ sh \in Shared /\ th \in [Threads -> Thread] /\ th[t] \in Thread
      /\ Honest(th[t], sh.fail) /\ Types /\ AllHonest
  BY DEF IInv, Types, AllHonest
<1>2. Claim(th[t]) \in Nat /\ Counts(th[t]) \in Nat /\ Counts(th[t]) <= Claim(th[t])
  BY <1>1, Typed, EachWithin
<1>3. Total(Tallies) \in Nat /\ Total(Claims) \in Nat /\ Total(Tallies) <= Total(Claims)
  BY <1>1, Within
<1>4. Cardinality(Returning) \in Nat
  BY Returns
<1>5. th[t].maxWakes \in Nat /\ th[t].wokenUp \in Nat
  BY <1>1, TypedRecord
<1>6. sh.allowed \in Int /\ sh.unmatched \in Nat /\ sh.leaked \in Nat /\ sh.steps \in Nat
  <2>1. sh.allowed \in Int /\ sh.unmatched \in Nat /\ sh.leaked \in Nat /\ sh.steps \in 0..MaxSteps
    BY <1>1 DEF Shared
  <2> QED
    BY <2>1
<1>7. sh.leaked <= sh.steps * Cap
  BY DEF IInv, LeaksFew
<1> QED
  BY <1>1, <1>2, <1>3, <1>4, <1>5, <1>6, <1>7 DEF IInv, MatchingExact, AllowanceExact, NoWakeLost

(* A step of t alone.                                                      *)
LEMMA Acts ==
  ASSUME ConstantsFit, IInv, sh.fail = "none", NEW t \in Threads, NEW r \in Thread,
         th' = [th EXCEPT ![t] = r], sh' \in Shared, Honest(r, sh'.fail)
  PROVE  /\ Types' /\ AllHonest' /\ th'[t] = r
         /\ Total(Claims') = Total(Claims) - Claim(th[t]) + Claim(r)
         /\ Total(Tallies') = Total(Tallies) - Counts(th[t]) + Counts(r)
         /\ Cardinality(Returning') = Cardinality(Returning) - One(Back(th[t].pc)) + One(Back(r.pc))
         /\ Claim(r) \in Nat /\ Counts(r) \in Nat
<1>1. th \in [Threads -> Thread] /\ sh \in Shared /\ Types /\ AllHonest
  BY DEF IInv, Types
<1>2. th'[t] = r /\ \A u \in Threads \ {t} : th'[u] = th[u]
  BY <1>1
<1>3. Types'
  BY <1>1 DEF Types
<1>4. AllHonest'
  <2> SUFFICES ASSUME NEW u \in Threads PROVE Honest(th'[u], sh'.fail)
    BY DEF AllHonest
  <2>1. CASE u = t
    BY <1>2, <2>1
  <2>2. CASE u # t
    <3>1. th'[u] = th[u] /\ Honest(th[u], sh.fail)
      BY <1>1, <1>2, <2>2 DEF AllHonest
    <3> QED
      BY <3>1 DEF Honest
  <2> QED
    BY <2>1, <2>2
<1>5. \A u \in Threads \ {t} : Claim(th'[u]) = Claim(th[u]) /\ Counts(th'[u]) = Counts(th[u])
  BY <1>2
<1>6. /\ Total(Claims') = Total(Claims) - Claim(th[t]) + Claim(r)
      /\ Total(Tallies') = Total(Tallies) - Counts(th[t]) + Counts(r)
  BY <1>1, <1>2, <1>3, <1>5, Follows
<1>7. Cardinality(Returning') = Cardinality(Returning) - One(Back(th[t].pc)) + One(Back(r.pc))
  <2> DEFINE Others == Returning \ {t}
  <2>1. Returning' \ {t} = Others
    BY <1>2 DEF Returning
  <2>2. /\ IsFiniteSet(Others) /\ Cardinality(Others) \in Nat /\ t \notin Others
        /\ Cardinality(Others) = Cardinality(Returning) - One(t \in Returning)
        /\ Cardinality(Returning) \in Nat
    BY Returns, FS_RemoveElement, FS_CardinalityType DEF One
  <2>3. /\ t \in Returning <=> Back(th[t].pc)
        /\ t \in Returning' <=> Back(r.pc)
    BY <1>2 DEF Returning, Back
  <2>4. Returning' = IF Back(r.pc) THEN Others \cup {t} ELSE Others
    BY <2>1, <2>3
  <2> HIDE DEF Others
  <2> QED
    <3>1. One(t \in Returning) = One(Back(th[t].pc)) /\ One(t \in Returning) \in {0, 1}
      BY <2>3 DEF One
    <3>2. CASE Back(r.pc)
      <4>1. Returning' = Others \cup {t} /\ One(Back(r.pc)) = 1
        BY <2>4, <3>2 DEF One
      <4>2. Cardinality(Others \cup {t}) = Cardinality(Others) + 1
        BY <2>2, FS_AddElement
      <4> QED
        BY <2>2, <3>1, <4>1, <4>2
    <3>3. CASE ~Back(r.pc)
      <4>1. Returning' = Others /\ One(Back(r.pc)) = 0
        BY <2>4, <3>3 DEF One
      <4> QED
        BY <2>2, <3>1, <4>1
    <3> QED
      BY <3>2, <3>3
<1>8. Claim(r) \in Nat /\ Counts(r) \in Nat
  BY Typed
<1> QED
  BY <1>2, <1>3, <1>4, <1>6, <1>7, <1>8

(* A step of t whose books balance.                                        *)
LEMMA Balances ==
  ASSUME ConstantsFit, IInv, sh.fail = "none", NEW t \in Threads, NEW r \in Thread,
         th' = [th EXCEPT ![t] = r], sh' \in Shared, Honest(r, sh'.fail),
         sh'.fail = "none" \/ Asserted',
         sh'.leaked <= sh'.steps * Cap,
         sh'.fail = "none" =>
           sh'.allowed - sh'.leaked = (sh.allowed - sh.leaked) - Claim(th[t]) + Claim(r),
         ~sh'.foreign =>
           /\ ~sh.foreign
           /\ sh'.unmatched = sh.unmatched - Counts(th[t]) + Counts(r)
                                           + One(Back(th[t].pc)) - One(Back(r.pc))
  PROVE  IInv'
<1>1. /\ Types' /\ AllHonest' /\ th'[t] = r
      /\ Total(Claims') = Total(Claims) - Claim(th[t]) + Claim(r)
      /\ Total(Tallies') = Total(Tallies) - Counts(th[t]) + Counts(r)
      /\ Cardinality(Returning') = Cardinality(Returning) - One(Back(th[t].pc)) + One(Back(r.pc))
      /\ Claim(r) \in Nat /\ Counts(r) \in Nat
  BY Acts
<1>2. /\ Claim(th[t]) \in Nat /\ Counts(th[t]) \in Nat
      /\ Total(Claims) \in Nat /\ Total(Tallies) \in Nat /\ Cardinality(Returning) \in Nat
      /\ sh.allowed \in Int /\ sh.unmatched \in Nat /\ sh.leaked \in Nat
      /\ sh.allowed = Total(Claims) + sh.leaked
      /\ ~sh.foreign => Total(Tallies) = sh.unmatched + Cardinality(Returning)
  BY Sums
<1>3. /\ sh'.allowed \in Int /\ sh'.unmatched \in Nat /\ sh'.leaked \in Nat
      /\ sh'.steps \in 0..MaxSteps
  BY DEF Shared
<1>4. One(Back(th[t].pc)) \in Nat /\ One(Back(r.pc)) \in Nat
  BY DEF One
<1>5. AllowanceExact'
  <2> SUFFICES ASSUME sh'.fail = "none"
               PROVE  sh'.allowed = Total(Claims') + sh'.leaked /\ sh'.allowed < Word
    BY DEF AllowanceExact
  <2>1. sh'.allowed = Total(Claims') + sh'.leaked
    BY <1>1, <1>2, <1>3
  <2>2. Claims' \in [Threads -> 0..Cap]
    BY <1>1, Typed DEF Claims, Types
  <2>3. Total(Claims') + sh'.leaked < Word
    BY <1>3, <2>2, NoWrap
  <2> QED
    BY <2>1, <2>3
<1>6. NoWakeLost'
  <2> SUFFICES ASSUME ~sh'.foreign
               PROVE  Total(Tallies') = sh'.unmatched + Cardinality(Returning')
    BY DEF NoWakeLost
  <2> QED
    BY <1>1, <1>2, <1>3, <1>4
<1>7. Asserted'
  <2> SUFFICES ASSUME sh'.fail = "none" PROVE Asserted'
    OBVIOUS
  <2>1. ~\E u \in Threads : th'[u].pc = "polling" /\ th'[u].val < 0
    BY <1>1 DEF AllHonest, Honest
  <2> QED
    BY <2>1 DEF Asserted
<1> QED
  BY <1>1, <1>5, <1>6, <1>7 DEF IInv, MatchingExact, LeaksFew

(* A thread goes on, and counts what it counted.                           *)
LEMMA Unchanged ==
  ASSUME ConstantsFit, IInv, sh.fail = "none", NEW t \in Threads, NEW r \in Thread,
         th' = [th EXCEPT ![t] = r], sh' = sh, Honest(r, sh.fail),
         Claim(r) = Claim(th[t]), Counts(r) = Counts(th[t]), Back(r.pc) <=> Back(th[t].pc)
  PROVE  IInv'
<1>1. /\ sh \in Shared /\ Claim(th[t]) \in Nat /\ Counts(th[t]) \in Nat
      /\ sh.allowed \in Int /\ sh.unmatched \in Nat /\ sh.leaked \in Nat
      /\ sh.leaked <= sh.steps * Cap
  BY Sums
<1>2. One(Back(th[t].pc)) = One(Back(r.pc)) /\ One(Back(r.pc)) \in Nat
  BY DEF One
<1>3. sh.allowed - sh.leaked = (sh.allowed - sh.leaked) - Claim(th[t]) + Claim(r)
  BY <1>1
<1>4. sh.unmatched = sh.unmatched - Counts(th[t]) + Counts(r) + One(Back(th[t].pc)) - One(Back(r.pc))
  BY <1>1, <1>2
<1> QED
  BY <1>1, <1>3, <1>4, Balances

LEMMA Changes ==
  ASSUME IInv, NEW t \in Threads, NEW pc \in Pcs, Goto(t, pc)
  PROVE  LET r == [th[t] EXCEPT !.pc = pc]
         IN /\ r \in Thread /\ th' = [th EXCEPT ![t] = r]
            /\ r.pc = pc /\ r.maxWakes = th[t].maxWakes /\ r.wokenUp = th[t].wokenUp
            /\ r.val = th[t].val /\ r.res = th[t].res
<1>1. th \in [Threads -> Thread] /\ th[t] \in Thread
  BY DEF IInv, Types
<1> QED
  BY <1>1 DEF Goto, Thread

LEMMA WakeEndKeeps ==
  ASSUME ConstantsFit, IInv, NEW t \in Threads, WakeEnd(t)
  PROVE  IInv'
<1> DEFINE k == Cast(Min({th[t].res, th[t].val}))
           r == [th[t] EXCEPT !.pc = "joining", !.wokenUp = k]
<1>1. th[t].pc = "woke" /\ sh' = sh /\ sh.fail = "none" /\ th' = [th EXCEPT ![t] = r]
  BY DEF WakeEnd, At
<1>2. th[t] \in Thread /\ Honest(th[t], sh.fail)
  BY Sums
<1>3. k \in 0..(Word - 1)
  <2>1. /\ th[t].val \in Int /\ th[t].val \in (-Half)..(Half - 1)
        /\ th[t].res \in Nat /\ th[t].res <= Cap /\ Cap \in Nat /\ Half \in Nat /\ Cap < Half
    BY <1>2, TypedRecord DEF ConstantsFit
  <2>2. Min({th[t].res, th[t].val}) = IF th[t].res <= th[t].val THEN th[t].res ELSE th[t].val
    BY <2>1, LesserOfTwo
  <2>3. Min({th[t].res, th[t].val}) \in (-Half)..(Half - 1)
    BY <2>1, <2>2
  <2> QED
    BY <2>3, Casts
<1> HIDE DEF k
<1>4. /\ r \in Thread /\ r.pc = "joining" /\ r.wokenUp = k /\ r.val = th[t].val
      /\ r.res = th[t].res /\ r.maxWakes = th[t].maxWakes
  BY <1>2, <1>3 DEF Thread, Pcs
<1> HIDE DEF r
<1>5. Honest(r, sh.fail)
  BY <1>1, <1>2, <1>4 DEF Honest, k
<1>6. Claim(r) = Claim(th[t]) /\ Counts(r) = Counts(th[t]) /\ (Back(r.pc) <=> Back(th[t].pc))
  BY <1>1, <1>4 DEF Claim, Counts, Woken, Back
<1> QED
  BY <1>1, <1>4, <1>5, <1>6, Unchanged

LEMMA GoesOnKeeps ==
  ASSUME ConstantsFit, IInv, NEW t \in Threads,
         Wait(t) \/ WaitWoken(t) \/ Interrupted(t) \/ WakeTimeout(t)
  PROVE  IInv'
<1>1. ASSUME NEW pc \in Pcs, Goto(t, pc), sh' = sh, sh.fail = "none",
             \/ th[t].pc = "out" /\ pc = "waiting"
             \/ th[t].pc = "waiting" /\ pc = "out"
             \/ th[t].pc = "woken" /\ pc = "waited"
             \/ th[t].pc = "polling" /\ pc = "giving up"
      PROVE  IInv'
  <2> DEFINE r == [th[t] EXCEPT !.pc = pc]
  <2>1. /\ r \in Thread /\ th' = [th EXCEPT ![t] = r]
        /\ r.pc = pc /\ r.maxWakes = th[t].maxWakes /\ r.wokenUp = th[t].wokenUp
        /\ r.val = th[t].val /\ r.res = th[t].res
    BY <1>1, Changes
  <2>2. Honest(th[t], sh.fail)
    BY Sums
  <2> HIDE DEF r
  <2>3. Claim(r) = Claim(th[t]) /\ Counts(r) = Counts(th[t]) /\ (Back(r.pc) <=> Back(th[t].pc))
    BY <1>1, <2>1 DEF Claim, Counts, Woken, Back
  <2>4. Honest(r, sh.fail)
    BY <1>1, <2>1, <2>2 DEF Honest
  <2> QED
    BY <1>1, <2>1, <2>3, <2>4, Unchanged
<1>2. {"waiting", "waited", "out", "giving up"} \subseteq Pcs
  BY DEF Pcs
<1> QED
  BY <1>1, <1>2 DEF Wait, WaitWoken, Interrupted, WakeTimeout, At

LEMMA WakeStartKeeps ==
  ASSUME ConstantsFit, IInv, NEW t \in Threads, NEW v \in Asks, WakeStart(t, v)
  PROVE  IInv'
<1> DEFINE n == Min({Cast(v), Cap})
           r == [th[t] EXCEPT !.pc = "waking", !.val = v, !.maxWakes = n]
<1>1. /\ sh.fail = "none" /\ th[t].pc = "out" /\ th' = [th EXCEPT ![t] = r] /\ sh.steps < MaxSteps
      /\ sh' = [[sh EXCEPT !.allowed = @ + n] EXCEPT !.steps = @ + 1]
  BY DEF WakeStart, At, Bounded, Counted
<1>2. /\ th[t] \in Thread /\ sh \in Shared
      /\ sh.allowed \in Int /\ sh.unmatched \in Nat /\ sh.leaked \in Nat /\ sh.steps \in Nat
      /\ sh.leaked <= sh.steps * Cap
  BY Sums
<1>3. n \in 0..Cap /\ n \in Nat /\ Cap \in Nat /\ MaxSteps \in Nat
  <2>1. v \in (-Half)..(Half - 1) /\ Cap \in Nat /\ MaxSteps \in Nat /\ Word \in Int
    BY DEF ConstantsFit, Word
  <2>2. Cast(v) \in Nat
    BY <2>1, Casts
  <2>3. n = IF Cast(v) <= Cap THEN Cast(v) ELSE Cap
    BY <2>1, <2>2, LesserOfTwo
  <2> QED
    BY <2>1, <2>2, <2>3
<1> HIDE DEF n
<1>4. r \in Thread /\ r.pc = "waking" /\ r.maxWakes = n /\ r.val = v
  BY <1>2, <1>3 DEF Thread, Pcs
<1> HIDE DEF r
<1>5. Honest(r, "none")
  BY <1>4 DEF Honest, n
<1>6. Claim(th[t]) = 0 /\ Claim(r) = n /\ Counts(th[t]) = 0 /\ Counts(r) = 0
  BY <1>1, <1>4 DEF Claim, Counts
<1>7. /\ sh' \in Shared /\ sh'.allowed = sh.allowed + n /\ sh'.unmatched = sh.unmatched
      /\ sh'.leaked = sh.leaked /\ sh'.foreign = sh.foreign /\ sh'.fail = "none"
      /\ sh'.steps = sh.steps + 1
  <2>1. sh.allowed + n \in Int /\ sh.steps + 1 \in 0..MaxSteps
    BY <1>1, <1>2, <1>3
  <2> QED
    BY <1>1, <1>2, <2>1 DEF Shared
<1>8. One(Back(th[t].pc)) = 0 /\ One(Back(r.pc)) = 0
  BY <1>1, <1>4 DEF One, Back
<1>9. ~sh'.foreign => /\ ~sh.foreign
                      /\ sh'.unmatched = sh.unmatched - Counts(th[t]) + Counts(r)
                                           + One(Back(th[t].pc)) - One(Back(r.pc))
  BY <1>2, <1>6, <1>7, <1>8
<1>10. sh'.allowed - sh'.leaked = (sh.allowed - sh.leaked) - Claim(th[t]) + Claim(r)
  BY <1>2, <1>3, <1>6, <1>7
<1>11. sh'.leaked <= sh'.steps * Cap
  BY <1>2, <1>3, <1>7
<1> QED
  BY <1>1, <1>4, <1>5, <1>7, <1>9, <1>10, <1>11, Balances

LEMMA WakeFailsKeeps ==
  ASSUME ConstantsFit, IInv, NEW t \in Threads, WakeFails(t)
  PROVE  IInv'
<1> DEFINE r == [th[t] EXCEPT !.pc = "out"]
           n == th[t].maxWakes
<1>1. /\ th[t].pc = "waking" /\ sh.fail = "none" /\ Goto(t, "out") /\ "out" \in Pcs
      /\ sh.steps < MaxSteps /\ sh' = [[sh EXCEPT !.leaked = @ + n] EXCEPT !.steps = @ + 1]
  BY DEF WakeFails, At, Pcs, Bounded, Counted
<1>2. r \in Thread /\ th' = [th EXCEPT ![t] = r] /\ r.pc = "out"
  BY <1>1, Changes
<1>3. /\ sh \in Shared /\ th[t] \in Thread /\ n \in Nat
      /\ sh.allowed \in Int /\ sh.unmatched \in Nat /\ sh.leaked \in Nat /\ sh.steps \in Nat
      /\ sh.leaked <= sh.steps * Cap
  BY Sums
<1>4. n <= Cap /\ Cap \in Nat /\ MaxSteps \in Nat
  BY <1>3, TypedRecord DEF ConstantsFit
<1>5. Claim(th[t]) = n /\ Claim(r) = 0 /\ Counts(th[t]) = 0 /\ Counts(r) = 0
  BY <1>1, <1>2 DEF Claim, Counts
<1> HIDE DEF r, n
<1>6. /\ sh' \in Shared /\ sh'.allowed = sh.allowed /\ sh'.unmatched = sh.unmatched
      /\ sh'.leaked = sh.leaked + n /\ sh'.foreign = sh.foreign /\ sh'.fail = "none"
      /\ sh'.steps = sh.steps + 1
  <2>1. sh.leaked + n \in Nat /\ sh.steps + 1 \in 0..MaxSteps
    BY <1>1, <1>3, <1>4
  <2> QED
    BY <1>1, <1>3, <2>1 DEF Shared
<1>7. One(Back(th[t].pc)) = 0 /\ One(Back(r.pc)) = 0
  BY <1>1, <1>2 DEF One, Back
<1>8. sh'.unmatched = sh.unmatched - Counts(th[t]) + Counts(r)
                        + One(Back(th[t].pc)) - One(Back(r.pc))
  BY <1>3, <1>5, <1>6, <1>7
<1>9. sh'.allowed - sh'.leaked = (sh.allowed - sh.leaked) - Claim(th[t]) + Claim(r)
  BY <1>3, <1>5, <1>6
<1>10. sh'.leaked <= sh'.steps * Cap
  BY <1>3, <1>4, <1>6
<1>11. Honest(r, sh'.fail)
  BY <1>2 DEF Honest
<1> QED
  BY <1>1, <1>2, <1>6, <1>8, <1>9, <1>10, <1>11, Balances

LEMMA ExternalWakeKeeps ==
  ASSUME ConstantsFit, IInv, NEW t \in Threads, ExternalWake(t)
  PROVE  IInv'
<1> DEFINE r == [th[t] EXCEPT !.pc = "woken"]
<1>1. /\ th[t].pc = "waiting" /\ sh.fail = "none" /\ Goto(t, "woken") /\ "woken" \in Pcs
      /\ sh.steps < MaxSteps /\ sh' = [[sh EXCEPT !.foreign = TRUE] EXCEPT !.steps = @ + 1]
  BY DEF ExternalWake, At, Pcs, Bounded, Counted
<1>2. r \in Thread /\ th' = [th EXCEPT ![t] = r] /\ r.pc = "woken"
  BY <1>1, Changes
<1>3. /\ sh \in Shared /\ sh.allowed \in Int /\ sh.leaked \in Nat /\ sh.steps \in Nat
      /\ sh.leaked <= sh.steps * Cap
  BY Sums
<1> HIDE DEF r
<1>4. Claim(th[t]) = 0 /\ Claim(r) = 0
  BY <1>1, <1>2 DEF Claim, Counts
<1>5. Cap \in Nat /\ MaxSteps \in Nat
  BY DEF ConstantsFit
<1>6. /\ sh' \in Shared /\ sh'.foreign /\ sh'.allowed = sh.allowed /\ sh'.leaked = sh.leaked
      /\ sh'.fail = "none" /\ sh'.steps = sh.steps + 1
  <2>1. sh.steps + 1 \in 0..MaxSteps
    BY <1>1, <1>3, <1>5
  <2> QED
    BY <1>1, <1>3, <2>1 DEF Shared
<1>7. sh'.allowed - sh'.leaked = (sh.allowed - sh.leaked) - Claim(th[t]) + Claim(r)
  BY <1>3, <1>4, <1>6
<1>8. sh'.leaked <= sh'.steps * Cap
  BY <1>3, <1>5, <1>6
<1>9. Honest(r, sh'.fail)
  BY <1>2 DEF Honest
<1> QED
  BY <1>1, <1>2, <1>6, <1>7, <1>8, <1>9, Balances

LEMMA WaitJoinKeeps ==
  ASSUME ConstantsFit, IInv, NEW t \in Threads, WaitJoin(t)
  PROVE  IInv'
<1> DEFINE r == [th[t] EXCEPT !.pc = "out"]
           one == IF sh.unmatched >= sh.allowed THEN 0 ELSE 1
<1>1. /\ th[t].pc = "waited" /\ sh.fail = "none" /\ Goto(t, "out") /\ "out" \in Pcs
      /\ sh' = IF sh.unmatched >= sh.allowed THEN sh ELSE [sh EXCEPT !.unmatched = @ + 1]
  BY DEF WaitJoin, At, Pcs
<1>2. r \in Thread /\ th' = [th EXCEPT ![t] = r] /\ r.pc = "out"
  BY <1>1, Changes
<1> HIDE DEF r
<1>3. Claim(th[t]) = 0 /\ Claim(r) = 0 /\ Counts(th[t]) = 0 /\ Counts(r) = 0
  BY <1>1, <1>2 DEF Claim, Counts
<1>4. /\ sh \in Shared /\ sh' \in Shared /\ sh'.allowed = sh.allowed /\ sh'.leaked = sh.leaked
      /\ sh'.unmatched = sh.unmatched + one /\ sh'.foreign = sh.foreign /\ sh'.fail = sh.fail
      /\ sh'.steps = sh.steps
      /\ sh.allowed \in Int /\ sh.unmatched \in Nat /\ sh.leaked \in Nat
      /\ sh.leaked <= sh.steps * Cap
  <2>1. /\ sh \in Shared /\ sh.allowed \in Int /\ sh.unmatched \in Nat /\ sh.leaked \in Nat
        /\ sh.leaked <= sh.steps * Cap
    BY Sums
  <2>2. CASE sh.unmatched >= sh.allowed
    BY <1>1, <2>1, <2>2
  <2>3. CASE ~(sh.unmatched >= sh.allowed)
    <3>1. sh.unmatched + 1 \in Nat /\ sh' = [sh EXCEPT !.unmatched = @ + 1] /\ one = 1
      BY <1>1, <2>1, <2>3
    <3> HIDE DEF one
    <3> QED
      BY <2>1, <3>1 DEF Shared
  <2> QED
    BY <2>2, <2>3
<1>5. One(Back(th[t].pc)) = 1 /\ One(Back(r.pc)) = 0
  BY <1>1, <1>2 DEF One, Back
<1>6. ~sh.foreign => one = 1
  <2> SUFFICES ASSUME ~sh.foreign PROVE sh.unmatched < sh.allowed
    BY <1>4
  <2>1. IsFiniteSet(Returning) /\ t \in Returning
    BY <1>1, Returns DEF Returning
  <2>2. Cardinality(Returning) # 0
    BY <2>1, FS_EmptySet
  <2>3. /\ Total(Claims) \in Nat /\ Total(Tallies) \in Nat /\ Total(Tallies) <= Total(Claims)
        /\ Cardinality(Returning) \in Nat /\ sh.unmatched \in Nat /\ sh.leaked \in Nat
        /\ sh.allowed = Total(Claims) + sh.leaked
        /\ Total(Tallies) = sh.unmatched + Cardinality(Returning)
    BY <1>1, Sums
  <2> QED
    BY <2>2, <2>3
<1> HIDE DEF one
<1>7. ~sh'.foreign => /\ ~sh.foreign
                      /\ sh'.unmatched = sh.unmatched - Counts(th[t]) + Counts(r)
                                           + One(Back(th[t].pc)) - One(Back(r.pc))
  BY <1>3, <1>4, <1>5, <1>6
<1>8. sh'.allowed - sh'.leaked = (sh.allowed - sh.leaked) - Claim(th[t]) + Claim(r)
  BY <1>3, <1>4
<1>9. Honest(r, sh'.fail)
  BY <1>2 DEF Honest
<1>10. sh'.fail = "none"
  BY <1>1, <1>4
<1>11. sh'.leaked <= sh'.steps * Cap
  BY <1>4
<1> QED
  BY <1>1, <1>2, <1>4, <1>7, <1>8, <1>9, <1>10, <1>11, Balances

(* A waker that has matched, or given up.                                  *)
LEMMA WakeMatchKeeps ==
  ASSUME ConstantsFit, IInv, NEW t \in Threads, WakeMatch(t) \/ WakeGivesUp(t)
  PROVE  IInv'
<1> DEFINE r == [th[t] EXCEPT !.pc = "out"]
           k == th[t].wokenUp
<1>1. /\ th[t].pc \in {"polling", "giving up"} /\ sh.fail = "none" /\ Goto(t, "out") /\ "out" \in Pcs
      /\ \/ k <= sh.unmatched /\ sh' = [sh EXCEPT !.unmatched = @ - k, !.allowed = @ - k]
         \/ sh' = [sh EXCEPT !.unmatched = 0, !.allowed = @ - k, !.foreign = TRUE]
  BY DEF WakeMatch, WakeGivesUp, At, Pcs
<1>2. r \in Thread /\ th' = [th EXCEPT ![t] = r] /\ r.pc = "out"
  BY <1>1, Changes
<1>3. /\ sh \in Shared /\ th[t] \in Thread /\ Honest(th[t], sh.fail) /\ k \in Nat
      /\ sh.allowed \in Int /\ sh.unmatched \in Nat /\ sh.leaked \in Nat
      /\ sh.leaked <= sh.steps * Cap
  BY Sums
<1>4. k = Woken(th[t])
  <2>1. th[t].val \in Int
    BY <1>3, TypedRecord
  <2>2. ~(th[t].val < 0) /\ k = Cast(Min({th[t].res, th[t].val}))
    BY <1>1, <1>3 DEF Honest
  <2> QED
    BY <1>3, <2>2, WithinAllowance
<1>5. Claim(th[t]) = k /\ Claim(r) = 0 /\ Counts(th[t]) = k /\ Counts(r) = 0
  BY <1>1, <1>2, <1>4 DEF Claim, Counts
<1> HIDE DEF r, k
<1>6. /\ sh' \in Shared /\ sh'.allowed = sh.allowed - k /\ sh'.leaked = sh.leaked
      /\ sh'.fail = "none" /\ sh'.steps = sh.steps
      /\ ~sh'.foreign => ~sh.foreign /\ sh'.unmatched = sh.unmatched - k
  <2>1. sh.allowed - k \in Int
    BY <1>3
  <2>2. CASE k <= sh.unmatched /\ sh' = [sh EXCEPT !.unmatched = @ - k, !.allowed = @ - k]
    <3>1. sh.unmatched - k \in Nat
      BY <1>3, <2>2
    <3> QED
      BY <1>1, <1>3, <2>1, <2>2, <3>1 DEF Shared
  <2>3. CASE sh' = [sh EXCEPT !.unmatched = 0, !.allowed = @ - k, !.foreign = TRUE]
    BY <1>1, <1>3, <2>1, <2>3 DEF Shared
  <2> QED
    BY <1>1, <2>2, <2>3
<1>7. One(Back(th[t].pc)) = 0 /\ One(Back(r.pc)) = 0
  BY <1>1, <1>2 DEF One, Back
<1>8. ~sh'.foreign => /\ ~sh.foreign
                      /\ sh'.unmatched = sh.unmatched - Counts(th[t]) + Counts(r)
                                           + One(Back(th[t].pc)) - One(Back(r.pc))
  BY <1>3, <1>5, <1>6, <1>7
<1>9. sh'.allowed - sh'.leaked = (sh.allowed - sh.leaked) - Claim(th[t]) + Claim(r)
  BY <1>3, <1>5, <1>6
<1>10. Honest(r, sh'.fail) /\ sh'.leaked <= sh'.steps * Cap
  BY <1>2, <1>3, <1>6 DEF Honest
<1> QED
  BY <1>1, <1>2, <1>6, <1>8, <1>9, <1>10, Balances

(* A thread's claim is one of the sum.                                     *)
LEMMA OneOf ==
  ASSUME ConstantsFit, IInv, NEW t \in Threads
  PROVE  Claim(th[t]) <= Total(Claims)
<1> DEFINE g == [Claims EXCEPT ![t] = 0]
<1>1. Claims \in [Threads -> 0..Cap] /\ Claims[t] = Claim(th[t]) /\ 0 \in 0..Cap
  <2>1. \A u \in Threads : th[u] \in Thread
    BY DEF IInv, Types
  <2> QED
    BY <2>1, Typed DEF Claims, ConstantsFit
<1>2. /\ g \in [Threads -> 0..Cap] /\ g[t] = 0
      /\ \A u \in Threads \ {t} : Claims[u] = g[u]
  BY <1>1
<1>3. Claim(th[t]) \in Nat
  BY Sums
<1> HIDE DEF g
<1>4. Total(g) \in Nat /\ Total(Claims) = Total(g) - g[t] + Claims[t]
  BY <1>1, <1>2, TotalFollows
<1> QED
  BY <1>1, <1>2, <1>3, <1>4

(* A waker's join gives back what it did not use.  What remains allowed    *)
(* covers every wake that is counted, so that only one which asked for     *)
(* more than an int holds fails, unless something foreign has come.        *)
LEMMA WakeJoinKeeps ==
  ASSUME ConstantsFit, IInv, NEW t \in Threads, WakeJoin(t)
  PROVE  IInv'
<1> DEFINE r == [th[t] EXCEPT !.pc = "polling"]
           m == th[t].maxWakes
           k == th[t].wokenUp
           left == sh.allowed - (m - k)
<1>1. th[t].pc = "joining" /\ sh.fail = "none" /\ Goto(t, "polling") /\ "polling" \in Pcs
  BY DEF WakeJoin, At, Pcs
<1>2. /\ r \in Thread /\ th' = [th EXCEPT ![t] = r] /\ r.pc = "polling"
      /\ r.wokenUp = k /\ r.val = th[t].val /\ r.res = th[t].res
  BY <1>1, Changes
<1>3. /\ sh \in Shared /\ th[t] \in Thread /\ Honest(th[t], sh.fail) /\ k \in Nat /\ m \in Nat
      /\ sh.allowed \in Int /\ sh.unmatched \in Nat /\ sh.leaked \in Nat
      /\ sh.leaked <= sh.steps * Cap
      /\ Total(Claims) \in Nat /\ Total(Tallies) \in Nat
      /\ Claim(th[t]) \in Nat /\ Counts(th[t]) \in Nat
      /\ sh.allowed = Total(Claims) + sh.leaked
      /\ ~sh.foreign => Total(Tallies) = sh.unmatched + Cardinality(Returning)
      /\ Cardinality(Returning) \in Nat
  BY <1>1, Sums
<1>4. Claim(th[t]) = m /\ Claim(r) = Woken(th[t]) /\ Counts(th[t]) = Woken(th[t])
      /\ Counts(r) = Woken(th[t])
  BY <1>1, <1>2 DEF Claim, Counts, Woken
<1>5. /\ m <= Cap /\ Cap \in Nat /\ Woken(th[t]) <= m /\ Woken(th[t]) \in Nat /\ th[t].val \in Int
      /\ IF th[t].val < 0 THEN k > Cap ELSE k = Woken(th[t])
  BY <1>1, <1>3, <1>4, TypedRecord, WithinAllowance DEF Honest
<1>6. m <= sh.allowed
  <2>1. m <= Total(Claims)
    BY <1>4, OneOf
  <2> QED
    BY <1>3, <2>1
<1>7. One(Back(th[t].pc)) = 0 /\ One(Back(r.pc)) = 0
  BY <1>1, <1>2 DEF One, Back
<1> HIDE DEF r, m, k
<1>8. sh.unmatched = sh.unmatched - Counts(th[t]) + Counts(r)
                       + One(Back(th[t].pc)) - One(Back(r.pc))
  BY <1>3, <1>4, <1>5, <1>7
<1>9. CASE th[t].val < 0
  <2>1. k > m
    BY <1>3, <1>5, <1>9
  <2>2. sh' = [sh EXCEPT !.fail = "woken up"]
    <3>1. ~(m > sh.allowed)
      BY <1>3, <1>6
    <3> QED
      BY <1>6, <2>1, <3>1 DEF WakeJoin, m, k
  <2>3. /\ sh' \in Shared /\ sh'.unmatched = sh.unmatched /\ sh'.leaked = sh.leaked
        /\ sh'.steps = sh.steps /\ sh'.foreign = sh.foreign /\ sh'.fail = "woken up"
    BY <1>3, <2>2 DEF Shared
  <2>4. Honest(r, sh'.fail)
    BY <1>1, <1>2, <1>3, <2>3 DEF Honest, k
  <2>5. Asserted'
    <3>1. th'[t] = r /\ r.val < 0
      BY <1>2, <1>3, <1>9 DEF IInv, Types
    <3> QED
      BY <1>2, <2>3, <3>1 DEF Asserted
  <2>6. sh'.leaked <= sh'.steps * Cap
    BY <1>3, <2>3
  <2>7. ~sh'.foreign => /\ ~sh.foreign
                        /\ sh'.unmatched = sh.unmatched - Counts(th[t]) + Counts(r)
                                             + One(Back(th[t].pc)) - One(Back(r.pc))
    BY <1>8, <2>3
  <2> QED
    BY <1>1, <1>2, <2>3, <2>4, <2>5, <2>6, <2>7, Balances
<1>10. CASE ~(th[t].val < 0)
  <2>1. k = Woken(th[t]) /\ k <= m
    BY <1>5, <1>10
  <2>2. sh' = [[sh EXCEPT !.allowed = left] EXCEPT
                 !.fail = IF sh.unmatched > left THEN "unmatched" ELSE "none"]
    <3>1. [sh EXCEPT !.allowed = @ - (th[t].maxWakes - th[t].wokenUp)] = [sh EXCEPT !.allowed = left]
      BY DEF m, k
    <3>2. /\ [sh EXCEPT !.allowed = left].allowed = left
          /\ [sh EXCEPT !.allowed = left].unmatched = sh.unmatched
      BY <1>3 DEF Shared
    <3>3. ~(m > sh.allowed) /\ ~(k > m)
      BY <1>3, <1>6, <2>1
    <3> HIDE DEF left
    <3> QED
      BY <3>1, <3>2, <3>3 DEF WakeJoin, m, k
  <2>3. left \in Int
    BY <1>3
  <2>4. /\ sh' \in Shared /\ sh'.allowed = left /\ sh'.unmatched = sh.unmatched
        /\ sh'.leaked = sh.leaked /\ sh'.steps = sh.steps /\ sh'.foreign = sh.foreign
        /\ sh'.fail = IF sh.unmatched > left THEN "unmatched" ELSE "none"
    <3> HIDE DEF left
    <3> QED
      BY <1>3, <2>2, <2>3 DEF Shared
  <2>5. Honest(r, sh'.fail)
    BY <1>1, <1>2, <1>3, <1>10 DEF Honest, k
  <2>6. ~sh.foreign => sh'.fail = "none"
    <3> SUFFICES ASSUME ~sh.foreign PROVE sh.unmatched <= left
      BY <1>3, <2>3, <2>4
    <3>1. /\ Types' /\ AllHonest'
          /\ Total(Claims') = Total(Claims) - Claim(th[t]) + Claim(r)
          /\ Total(Tallies') = Total(Tallies) - Counts(th[t]) + Counts(r)
      BY <1>1, <1>2, <2>4, <2>5, Acts
    <3>2. Total(Tallies') <= Total(Claims')
      <4>1. \A u \in Threads : th'[u] \in Thread /\ Honest(th'[u], sh'.fail)
        BY <3>1 DEF Types, AllHonest
      <4>2. Tallies' \in [Threads -> 0..Cap] /\ Claims' \in [Threads -> 0..Cap]
        BY <4>1, Typed DEF Tallies, Claims
      <4>3. \A u \in Threads : Tallies'[u] <= Claims'[u]
        BY <4>1, EachWithin DEF Tallies, Claims
      <4> QED
        BY <4>2, <4>3, TotalBounds
    <3>3. Total(Tallies) <= Total(Claims) - m + k
      BY <1>3, <1>4, <1>5, <2>1, <3>1, <3>2
    <3> QED
      BY <1>3, <3>3
  <2>7. sh'.fail = "none" \/ Asserted'
    <3>1. CASE sh'.fail = "none"
      BY <3>1
    <3>2. CASE sh'.fail = "unmatched"
      <4>1. sh'.foreign
        BY <2>4, <2>6, <3>2
      <4>2. ASSUME NEW u \in Threads, th'[u].pc = "polling", th'[u].val < 0 PROVE FALSE
        <5>1. CASE u = t
          BY <1>2, <1>3, <1>10, <4>2, <5>1 DEF IInv, Types
        <5>2. CASE u # t
          <6>1. th'[u] = th[u] /\ Honest(th[u], sh.fail)
            BY <1>2, <5>2 DEF IInv, Types, AllHonest
          <6> QED
            BY <1>1, <4>2, <6>1 DEF Honest
        <5> QED
          BY <5>1, <5>2
      <4> QED
        BY <3>2, <4>1, <4>2 DEF Asserted
    <3> QED
      BY <2>4, <3>1, <3>2
  <2>8. sh'.leaked <= sh'.steps * Cap
    BY <1>3, <2>4
  <2>9. sh'.allowed - sh'.leaked = (sh.allowed - sh.leaked) - Claim(th[t]) + Claim(r)
    BY <1>3, <1>4, <1>5, <2>1, <2>4
  <2>10. ~sh'.foreign => /\ ~sh.foreign
                         /\ sh'.unmatched = sh.unmatched - Counts(th[t]) + Counts(r)
                                              + One(Back(th[t].pc)) - One(Back(r.pc))
    BY <1>8, <2>4
  <2> HIDE DEF left
  <2> QED
    BY <1>1, <1>2, <2>4, <2>5, <2>7, <2>8, <2>9, <2>10, Balances
<1> QED
  BY <1>9, <1>10

(* The kernel wakes some that wait, and each of them returns.              *)
LEMMA KernelWakesKeeps ==
  ASSUME ConstantsFit, IInv, NEW t \in Threads, NEW woken \in SUBSET Waiting, NEW res \in 0..Cap,
         KernelWakes(t, woken, res)
  PROVE  IInv'
<1> DEFINE k == Cardinality(woken)
           r == [th[t] EXCEPT !.pc = "woke", !.res = res]
<1>1. /\ th \in [Threads -> Thread] /\ th[t] \in Thread /\ sh \in Shared
      /\ th[t].pc = "waking" /\ Types /\ AllHonest /\ LeaksFew /\ sh.fail = "none"
      /\ res \in k..Cardinality(Waiting) /\ (res # k => k = th[t].val)
      /\ sh' = [sh EXCEPT !.foreign = @ \/ (th[t].val >= 0 /\ k > th[t].val)]
      /\ th' = [u \in Threads |->
                  IF u = t THEN r
                  ELSE IF u \in woken THEN [th[u] EXCEPT !.pc = "woken"] ELSE th[u]]
  BY DEF IInv, Types, KernelWakes, At
<1>2. /\ IsFiniteSet(woken) /\ k \in Nat /\ t \notin woken /\ woken \cap Returning = {}
      /\ woken \subseteq Threads
  <2>1. IsFiniteSet(woken) /\ k \in Nat
    BY Returns, FS_Subset, FS_CardinalityType
  <2>2. t \notin woken /\ woken \cap Returning = {} /\ woken \subseteq Threads
    BY <1>1 DEF Waiting, Returning
  <2> QED
    BY <2>1, <2>2
<1>3. /\ sh' \in Shared /\ sh'.allowed = sh.allowed /\ sh'.unmatched = sh.unmatched
      /\ sh'.leaked = sh.leaked /\ sh'.steps = sh.steps /\ sh'.fail = "none"
      /\ ~sh'.foreign => ~sh.foreign /\ ~(th[t].val >= 0 /\ k > th[t].val)
  <2> DEFINE b == th[t].val >= 0 /\ k > th[t].val
  <2>1. sh.foreign \in BOOLEAN /\ b \in BOOLEAN /\ (sh.foreign \/ b) \in BOOLEAN
    BY <1>1 DEF Shared
  <2>2. sh' = [sh EXCEPT !.foreign = sh.foreign \/ b]
    BY <1>1
  <2> HIDE DEF b
  <2>3. sh' \in Shared /\ sh'.foreign = (sh.foreign \/ b)
    BY <1>1, <2>1, <2>2 DEF Shared
  <2>4. ~sh'.foreign => ~sh.foreign /\ ~b
    BY <2>3
  <2> QED
    BY <1>1, <2>2, <2>3, <2>4 DEF Shared, b
<1> HIDE DEF k
<1>4. /\ r \in Thread /\ r.pc = "woke" /\ r.maxWakes = th[t].maxWakes /\ r.val = th[t].val
      /\ r.res = res
  BY <1>1 DEF Thread, Pcs
<1> HIDE DEF r
<1>5. th'[t] = r /\ Honest(r, "none")
  BY <1>1, <1>4 DEF Honest, AllHonest
<1>6. \A u \in woken : th[u].pc = "waiting" /\ th'[u].pc = "woken" /\ th'[u] \in Thread
  <2> SUFFICES ASSUME NEW u \in woken
               PROVE  th[u].pc = "waiting" /\ th'[u].pc = "woken" /\ th'[u] \in Thread
    OBVIOUS
  <2>1. th[u].pc = "waiting" /\ u # t /\ u \in Threads
    BY <1>2 DEF Waiting
  <2>2. th'[u] = [th[u] EXCEPT !.pc = "woken"] /\ th[u] \in Thread
    BY <1>1, <2>1
  <2> QED
    BY <2>1, <2>2 DEF Thread, Pcs
<1>7. \A u \in Threads \ ({t} \cup woken) : th'[u] = th[u]
  BY <1>1
<1>8. Types'
  <2>1. \A u \in Threads : th'[u] \in Thread
    BY <1>1, <1>4, <1>5, <1>6, <1>7
  <2> QED
    BY <1>1, <1>3, <2>1 DEF Types
<1>9. AllHonest'
  <2> SUFFICES ASSUME NEW u \in Threads PROVE Honest(th'[u], "none")
    BY <1>3 DEF AllHonest
  <2>1. CASE u = t
    BY <1>5, <2>1
  <2>2. CASE u \in woken
    BY <1>6, <2>2 DEF Honest
  <2>3. CASE u \notin {t} \cup woken
    BY <1>1, <1>7, <2>3 DEF AllHonest
  <2> QED
    BY <2>1, <2>2, <2>3
<1>10. \A u \in Threads \ {t} : Claim(th'[u]) = Claim(th[u]) /\ Counts(th'[u]) = Counts(th[u])
  <2> SUFFICES ASSUME NEW u \in Threads \ {t}
               PROVE  Claim(th'[u]) = Claim(th[u]) /\ Counts(th'[u]) = Counts(th[u])
    OBVIOUS
  <2>1. CASE u \in woken
    BY <1>6, <2>1 DEF Claim, Counts
  <2>2. CASE u \notin woken
    BY <1>7, <2>2
  <2> QED
    BY <2>1, <2>2
<1>11. /\ Total(Claims') = Total(Claims) - Claim(th[t]) + Claim(r)
       /\ Total(Tallies') = Total(Tallies) - Counts(th[t]) + Counts(r)
  BY <1>1, <1>5, <1>8, <1>10, Follows
<1>12. Claim(th[t]) = Claim(r) /\ Counts(th[t]) = 0 /\ Counts(r) = Woken(r)
  BY <1>1, <1>4 DEF Claim, Counts
<1>13. /\ Total(Claims) \in Nat /\ Total(Tallies) \in Nat /\ Cardinality(Returning) \in Nat
       /\ Claim(th[t]) \in Nat /\ sh.allowed = Total(Claims) + sh.leaked
       /\ ~sh.foreign => Total(Tallies) = sh.unmatched + Cardinality(Returning)
       /\ sh.unmatched \in Nat
  BY <1>1, Sums
(* As many as the call is counted for, unless it has woken more.           *)
<1>14. ~sh'.foreign => Woken(r) = k
  <2> SUFFICES ASSUME ~(th[t].val >= 0 /\ k > th[t].val) PROVE Woken(r) = k
    BY <1>3
  <2>1. th[t].val \in Int /\ res \in Nat /\ k <= res
    <3>1. Cardinality(Waiting) \in Nat
      BY Returns
    <3> QED
      BY <1>1, <1>2, <3>1, TypedRecord
  <2>2. Min({res, th[t].val}) = IF res <= th[t].val THEN res ELSE th[t].val
    BY <2>1, LesserOfTwo
  <2> QED
    BY <1>1, <1>2, <1>4, <2>1, <2>2 DEF Woken
<1>15. Cardinality(Returning') = Cardinality(Returning) + k
  <2>1. \A u \in Threads : u \in Returning' <=> u \in Returning \/ u \in woken
    BY <1>1, <1>2, <1>4, <1>5, <1>6, <1>7 DEF Returning
  <2>2. Returning' = Returning \cup woken
    BY <1>2, <2>1 DEF Returning
  <2>3. /\ IsFiniteSet(Returning) /\ Cardinality(Returning \cap woken) = 0
        /\ Cardinality(Returning) \in Nat
    BY <1>2, Returns, FS_EmptySet
  <2> QED
    <3>1. Cardinality(Returning \cup woken)
            = Cardinality(Returning) + Cardinality(woken) - Cardinality(Returning \cap woken)
      BY <1>2, <2>3, FS_Union
    <3>2. k = Cardinality(woken)
      BY DEF k
    <3> QED
      BY <1>2, <2>2, <2>3, <3>1, <3>2
<1>16. AllowanceExact'
  BY <1>1, <1>3, <1>11, <1>12, <1>13 DEF IInv, MatchingExact, AllowanceExact
<1>17. NoWakeLost'
  <2> SUFFICES ASSUME ~sh'.foreign
               PROVE  Total(Tallies') = sh'.unmatched + Cardinality(Returning')
    BY DEF NoWakeLost
  <2> QED
    BY <1>2, <1>3, <1>11, <1>12, <1>13, <1>14, <1>15
<1>18. Asserted'
  <2>1. ~\E u \in Threads : th'[u].pc = "polling" /\ th'[u].val < 0
    BY <1>3, <1>9 DEF AllHonest, Honest
  <2> QED
    BY <1>3, <2>1 DEF Asserted
<1>19. LeaksFew'
  BY <1>1, <1>3 DEF LeaksFew
<1> QED
  BY <1>8, <1>9, <1>16, <1>17, <1>18, <1>19 DEF IInv, MatchingExact

LEMMA Starts ==
  ASSUME ConstantsFit, Init
  PROVE  IInv
<1> DEFINE out == [pc |-> "out", val |-> 0, res |-> 0, maxWakes |-> 0, wokenUp |-> 0]
<1>1. \A t \in Threads : th[t] = out /\ th[t].pc = "out"
  BY DEF Init
<1>2. Cap \in Nat /\ Word \in Nat /\ Word > 0 /\ MaxSteps \in Nat
  BY DEF ConstantsFit, Word
<1>3. Types /\ AllHonest /\ LeaksFew
  <2>1. out \in Thread
    BY <1>2 DEF Thread, Pcs
  <2>2. th \in [Threads -> Thread]
    BY <2>1 DEF Init
  <2>3. sh \in Shared /\ LeaksFew
    BY <1>2 DEF Init, Shared, LeaksFew
  <2>4. AllHonest
    <3> HIDE DEF out
    <3> QED
      BY <1>1 DEF AllHonest, Honest
  <2> QED
    BY <2>2, <2>3, <2>4 DEF Types
<1>4. Wakes(Claims) = {} /\ Wakes(Tallies) = {} /\ Returning = {}
  <2>1. \A t \in Threads : Claims[t] = 0 /\ Tallies[t] = 0
    <3> HIDE DEF out
    <3>1. \A t \in Threads : Claim(th[t]) = 0 /\ Counts(th[t]) = 0
      BY <1>1 DEF Claim, Counts
    <3> QED
      BY <3>1 DEF Claims, Tallies
  <2>2. \A w \in Threads \X (1..Cap) : w[1] \in Threads /\ w[2] \in Nat /\ w[2] >= 1
    BY <1>2
  <2>3. Wakes(Claims) = {} /\ Wakes(Tallies) = {}
    BY <2>1, <2>2 DEF Wakes
  <2>4. Returning = {}
    BY <1>1 DEF Returning
  <2> QED
    BY <2>3, <2>4
<1>5. Total(Claims) = 0 /\ Total(Tallies) = 0 /\ Cardinality(Returning) = 0
  BY <1>4, FS_EmptySet DEF Total
<1>6. MatchingExact
  BY <1>1, <1>2, <1>5 DEF MatchingExact, AllowanceExact, NoWakeLost, Asserted, Init
<1> QED
  BY <1>3, <1>6 DEF IInv

LEMMA StepsKeep ==
  ASSUME ConstantsFit, IInv, [Next]_vars
  PROVE  IInv'
<1>1. ASSUME NEW t \in Threads, Join(t) PROVE IInv'
  BY <1>1, WaitJoinKeeps, WakeJoinKeeps, WakeMatchKeeps, GoesOnKeeps DEF Join
<1>2. ASSUME NEW t \in Threads,
             \/ WakeFails(t) \/ WakeEnd(t) \/ Wait(t) \/ WaitWoken(t) \/ ExternalWake(t)
             \/ Interrupted(t)
      PROVE  IInv'
  BY <1>2, WakeFailsKeeps, WakeEndKeeps, GoesOnKeeps, ExternalWakeKeeps
<1>3. ASSUME NEW t \in Threads, NEW v \in Asks, WakeStart(t, v) PROVE IInv'
  BY <1>3, WakeStartKeeps
<1>4. ASSUME NEW t \in Threads, NEW woken \in SUBSET Waiting, NEW res \in 0..Cap,
             KernelWakes(t, woken, res)
      PROVE  IInv'
  BY <1>4, KernelWakesKeeps
<1>5. CASE UNCHANGED vars
  BY <1>5 DEF vars, IInv, Types, AllHonest, LeaksFew, MatchingExact, AllowanceExact, NoWakeLost,
              Asserted, Total, Wakes, Claims, Tallies, Returning
<1> QED
  BY <1>1, <1>2, <1>3, <1>4, <1>5 DEF Next

(* The allowance is exact and does not wrap; with wakes from futexes alone *)
(* and nobody giving up no wake is lost; and of the assertions of join()   *)
(* (scheduler.cpp:342-346) the second fails for every count above INT_MAX  *)
(* and for no other, the first never, the third only after a wake from     *)
(* outside - for any number of threads and any counts of a call.           *)
THEOREM WakesAreMatched ==
  ASSUME ConstantsFit
  PROVE  Spec => []MatchingExact
<1>1. Init => IInv
  BY Starts
<1>2. IInv /\ [Next]_vars => IInv'
  BY StepsKeep
<1>3. IInv => MatchingExact
  BY DEF IInv
<1> QED
  BY <1>1, <1>2, <1>3, PTL DEF Spec
================================================================================
