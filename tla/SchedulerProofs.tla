--------------------------- MODULE SchedulerProofs ---------------------------
(***************************************************************************)
(* Proofs about Scheduler, for any number of threads, processes and cores. *)
(***************************************************************************)
EXTENDS Scheduler, FiniteSetTheorems, SequenceTheorems, WellFoundedInduction, TLAPS

------------------------------------------------------------------------------
(* Sequences.                                                              *)

NoRepeats(s) == \A i, j \in DOMAIN s : s[i] = s[j] => i = j

(* Every set of finite sets has a minimal one, and every set of numbers a  *)
(* least one.                                                              *)
LEMMA MinimalSet ==
  ASSUME NEW X, NEW T \in SUBSET FiniteSubsetsOf(X), T # {}
  PROVE  \E x \in T : \A y \in T : y \subseteq x => y = x
<1> DEFINE R == StrictSubsetOrdering(X)
<1>1. PICK x \in T : \A y \in T : ~ (<<y, x>> \in R)
  BY WFMin, FS_StrictSubsetOrderingWellFounded, Zenon
<1>2. ASSUME NEW y \in T, y \subseteq x, y # x PROVE FALSE
  <2>1. <<y, x>> \in R
    BY <1>2, Zenon DEF StrictSubsetOrdering, FiniteSubsetsOf
  <2> QED
    BY <1>1, <2>1
<1> QED
  BY <1>2

UpTo(n) == 0 .. n
LEMMA LeastNumber ==
  ASSUME NEW S \in SUBSET Nat, S # {}
  PROVE  \E m \in S : \A k \in S : m <= k
<1> DEFINE T == {UpTo(n) : n \in S}
<1>1. T \in SUBSET FiniteSubsetsOf(Nat) /\ T # {}
  <2>1. \A n \in Nat : IsFiniteSet(UpTo(n)) /\ UpTo(n) \subseteq Nat
    BY FS_Interval DEF UpTo
  <2> QED
    BY <2>1 DEF FiniteSubsetsOf
<1>2. \E x \in T : \A y \in T : y \subseteq x => y = x
  <2> HIDE DEF T
  <2> QED
    BY <1>1, MinimalSet
<1>3. PICK m \in S : \A k \in S : UpTo(k) \subseteq UpTo(m) => UpTo(k) = UpTo(m)
  BY <1>2
<1>4. ASSUME NEW k \in S, k < m PROVE FALSE
  <2>1. UpTo(k) \subseteq UpTo(m) /\ UpTo(k) # UpTo(m)
    BY <1>4 DEF UpTo
  <2> QED
    BY <1>3, <2>1
<1> QED
  BY <1>4

(* Taking a thread out of a sequence that holds it closes the gap.         *)
LEMMA WithoutForm ==
  ASSUME NEW s \in Seq(Threads), NEW t \in Elements(s)
  PROVE  \E p \in 1 .. Len(s) :
           /\ s[p] = t
           /\ Without(s, t) \in Seq(Threads)
           /\ Len(Without(s, t)) = Len(s) - 1
           /\ \A i \in 1 .. Len(s) - 1 :
                Without(s, t)[i] = IF i < p THEN s[i] ELSE s[i + 1]
<1> DEFINE p == CHOOSE i \in DOMAIN s : s[i] = t
           a == SubSeq(s, 1, p - 1)
           b == SubSeq(s, p + 1, Len(s))
<1>1. p \in 1 .. Len(s) /\ s[p] = t
  BY LenProperties DEF Elements
<1>2. Without(s, t) = a \o b
  BY DEF Without
<1> HIDE DEF p
<1>3. \A i \in 1 .. Len(s) : s[i] \in Threads
  BY ElementOfSeq
<1>4. /\ a \in Seq(Threads) /\ Len(a) = p - 1
      /\ \A i \in 1 .. p - 1 : a[i] = s[i]
  <2>1. \A i \in 1 .. p - 1 : s[i] \in Threads
    BY <1>1, <1>3
  <2> QED
    BY <1>1, <2>1, SubSeqProperties
<1>5. /\ b \in Seq(Threads) /\ Len(b) = Len(s) - p
      /\ \A i \in 1 .. Len(s) - p : b[i] = s[p + i]
  <2>1. \A i \in p + 1 .. Len(s) : s[i] \in Threads
    BY <1>1, <1>3
  <2> QED
    BY <1>1, <2>1, SubSeqProperties
<1> HIDE DEF a, b
<1>6. /\ a \o b \in Seq(Threads) /\ Len(a \o b) = Len(s) - 1
      /\ \A i \in 1 .. Len(s) - 1 : (a \o b)[i] = IF i <= p - 1 THEN a[i] ELSE b[i - (p - 1)]
  <2>1. /\ a \o b \in Seq(Threads) /\ Len(a \o b) = Len(a) + Len(b)
        /\ \A i \in 1 .. Len(a) + Len(b) : (a \o b)[i] = IF i <= Len(a) THEN a[i] ELSE b[i - Len(a)]
    BY <1>4, <1>5, ConcatProperties
  <2>2. Len(s) \in Nat /\ p \in Nat
    BY <1>1, LenProperties
  <2>3. Len(a) + Len(b) = Len(s) - 1
    BY <1>4, <1>5, <2>2
  <2> QED
    BY <1>4, <2>1, <2>3
<1>7. \A i \in 1 .. Len(s) - 1 : (a \o b)[i] = IF i < p THEN s[i] ELSE s[i + 1]
  <2> SUFFICES ASSUME NEW i \in 1 .. Len(s) - 1
               PROVE  (a \o b)[i] = IF i < p THEN s[i] ELSE s[i + 1]
    OBVIOUS
  <2>1. Len(s) \in Nat /\ p \in Nat
    BY <1>1, LenProperties
  <2>2. CASE i < p
    <3>1. i <= p - 1 /\ i \in 1 .. p - 1
      BY <2>1, <2>2
    <3>2. (a \o b)[i] = a[i]
      BY <1>6, <3>1
    <3> QED
      BY <1>4, <2>2, <3>1, <3>2
  <2>3. CASE ~ (i < p)
    <3>1. (a \o b)[i] = b[i - (p - 1)]
      BY <1>6, <2>1, <2>3
    <3>2. b[i - (p - 1)] = s[p + (i - (p - 1))]
      BY <1>1, <1>5, <2>1, <2>3
    <3>3. p + (i - (p - 1)) = i + 1
      BY <2>1
    <3> QED
      BY <2>3, <3>1, <3>2, <3>3
  <2> QED
    BY <2>2, <2>3
<1> QED
  BY <1>1, <1>2, <1>6, <1>7

(* The sequence is by deadline.                                            *)
Ordered(s) == \A i, j \in DOMAIN s : i < j => wakeIn[s[i]] <= wakeIn[s[j]]

LEMMA WithoutKeeps ==
  ASSUME NEW s \in Seq(Threads), NEW t
  PROVE  /\ Without(s, t) \in Seq(Threads)
         /\ Elements(Without(s, t)) \subseteq Elements(s)
         /\ NoRepeats(s) => /\ NoRepeats(Without(s, t))
                            /\ Elements(Without(s, t)) = Elements(s) \ {t}
         /\ Ordered(s) => Ordered(Without(s, t))
<1>1. CASE t \notin Elements(s)
  <2>1. Without(s, t) = s
    BY <1>1 DEF Without
  <2> QED
    BY <1>1, <2>1
<1>2. CASE t \in Elements(s)
  <2> DEFINE r == Without(s, t)
  <2>1. PICK p \in 1 .. Len(s) :
          /\ s[p] = t /\ r \in Seq(Threads) /\ Len(r) = Len(s) - 1
          /\ \A i \in 1 .. Len(s) - 1 : r[i] = IF i < p THEN s[i] ELSE s[i + 1]
    BY <1>2, WithoutForm
  <2> HIDE DEF r
  <2>2. /\ DOMAIN r = 1 .. Len(s) - 1 /\ DOMAIN s = 1 .. Len(s) /\ Len(s) \in Nat
    BY <2>1, LenProperties
  <2> DEFINE f(i) == IF i < p THEN i ELSE i + 1
  <2>3. \A i \in DOMAIN r : f(i) \in DOMAIN s /\ f(i) # p /\ r[i] = s[f(i)]
    BY <2>1, <2>2
  <2>4. \A i, j \in DOMAIN r : (i < j => f(i) < f(j)) /\ (f(i) = f(j) => i = j)
    BY <2>1, <2>2
  <2>5. \A j \in DOMAIN s : j # p => \E i \in DOMAIN r : r[i] = s[j]
    <3> SUFFICES ASSUME NEW j \in DOMAIN s, j # p PROVE \E i \in DOMAIN r : r[i] = s[j]
      OBVIOUS
    <3>1. CASE j < p
      BY <2>1, <2>2, <3>1
    <3>2. CASE ~ (j < p)
      <4>1. j - 1 \in DOMAIN r /\ ~ (j - 1 < p) /\ (j - 1) + 1 = j
        BY <2>1, <2>2, <3>2
      <4> QED
        BY <2>1, <2>2, <4>1
    <3> QED
      BY <3>1, <3>2
  <2> HIDE DEF f
  <2>6. Elements(r) \subseteq Elements(s)
    BY <2>3 DEF Elements
  <2>7. ASSUME NoRepeats(s) PROVE NoRepeats(r) /\ Elements(r) = Elements(s) \ {t}
    <3>1. NoRepeats(r)
      BY <2>3, <2>4, <2>7 DEF NoRepeats
    <3>2. t \notin Elements(r)
      BY <2>1, <2>2, <2>3, <2>7 DEF NoRepeats, Elements
    <3>3. Elements(s) \ {t} \subseteq Elements(r)
      BY <2>1, <2>5 DEF Elements
    <3> QED
      BY <2>6, <3>1, <3>2, <3>3
  <2>8. ASSUME Ordered(s) PROVE Ordered(r)
    BY <2>3, <2>4, <2>8 DEF Ordered
  <2> QED
    BY <2>1, <2>6, <2>7, <2>8 DEF r
<1> QED
  BY <1>1, <1>2

(* What is left of a sequence when a number of its first are popped.       *)
Firsts(s, n) == {s[i] : i \in 1 .. n}
Rest(s, n)   == SubSeq(s, n + 1, Len(s))
LEMMA RestKeeps ==
  ASSUME NEW s \in Seq(Threads), NEW n \in 0 .. Len(s)
  PROVE  /\ Rest(s, n) \in Seq(Threads) /\ Firsts(s, n) \subseteq Elements(s)
         /\ NoRepeats(s) => /\ NoRepeats(Rest(s, n))
                            /\ Elements(Rest(s, n)) = Elements(s) \ Firsts(s, n)
         /\ Ordered(s) => Ordered(Rest(s, n))
         /\ \A i \in DOMAIN Rest(s, n) : i + n \in DOMAIN s /\ Rest(s, n)[i] = s[i + n]
<1> DEFINE r == SubSeq(s, n + 1, Len(s))
           w == {s[i] : i \in 1 .. n}
<1>1. Len(s) \in Nat /\ DOMAIN s = 1 .. Len(s) /\ \A i \in n + 1 .. Len(s) : s[i] \in Threads
  BY LenProperties, ElementOfSeq
<1>2. /\ r \in Seq(Threads) /\ Len(r) = Len(s) - n
      /\ \A i \in 1 .. Len(s) - n : r[i] = s[n + i]
  <2>1. n + 1 \in Int /\ Len(s) \in Int
    BY <1>1
  <2>2. /\ r \in Seq(Threads)
        /\ Len(r) = IF n + 1 <= Len(s) THEN Len(s) - (n + 1) + 1 ELSE 0
        /\ \A i \in 1 .. Len(s) - (n + 1) + 1 : r[i] = s[(n + 1) + i - 1]
    BY <1>1, <2>1, SubSeqProperties, SMT
  <2>3. Len(r) = Len(s) - n
    BY <1>1, <2>2
  <2>4. \A i \in 1 .. Len(s) - n : (n + 1) + i - 1 = n + i
    BY <1>1
  <2>5. Len(s) - (n + 1) + 1 = Len(s) - n
    BY <1>1
  <2> HIDE DEF r
  <2> QED
    BY <2>2, <2>3, <2>4, <2>5
<1> HIDE DEF r
<1>3. DOMAIN r = 1 .. Len(s) - n
  BY <1>2, LenProperties
<1>4. \A i \in DOMAIN r : i + n \in DOMAIN s /\ r[i] = s[i + n]
  BY <1>1, <1>2, <1>3
<1>5. \A j \in DOMAIN s : j > n => \E i \in DOMAIN r : r[i] = s[j]
  <2> SUFFICES ASSUME NEW j \in DOMAIN s, j > n PROVE \E i \in DOMAIN r : r[i] = s[j]
    OBVIOUS
  <2>1. j - n \in DOMAIN r /\ n + (j - n) = j
    BY <1>1, <1>3
  <2> QED
    BY <1>2, <1>3, <2>1
<1>6. w \subseteq Elements(s) /\ Elements(r) \subseteq Elements(s)
  BY <1>1, <1>4 DEF Elements
<1>7. ASSUME NoRepeats(s) PROVE NoRepeats(r) /\ Elements(r) = Elements(s) \ w
  <2>1. NoRepeats(r)
    <3> SUFFICES ASSUME NEW i \in DOMAIN r, NEW j \in DOMAIN r, r[i] = r[j] PROVE i = j
      BY DEF NoRepeats
    <3>1. i + n = j + n
      BY <1>4, <1>7 DEF NoRepeats
    <3> QED
      BY <1>3, <3>1
  <2>2. Elements(r) \cap w = {}
    <3> SUFFICES ASSUME NEW i \in DOMAIN r, NEW j \in 1 .. n, r[i] = s[j] PROVE FALSE
      BY DEF Elements
    <3>1. j \in DOMAIN s /\ i + n = j
      BY <1>1, <1>4, <1>7 DEF NoRepeats
    <3> QED
      BY <1>3, <3>1
  <2>3. Elements(s) \ w \subseteq Elements(r)
    <3> SUFFICES ASSUME NEW j \in DOMAIN s, s[j] \notin w PROVE s[j] \in Elements(r)
      BY DEF Elements
    <3>1. j > n
      BY <1>1
    <3> QED
      BY <1>5, <3>1 DEF Elements
  <2> QED
    BY <1>6, <2>1, <2>2, <2>3
<1>8. ASSUME Ordered(s) PROVE Ordered(r)
  <2> SUFFICES ASSUME NEW i \in DOMAIN r, NEW j \in DOMAIN r, i < j
               PROVE  wakeIn[r[i]] <= wakeIn[r[j]]
    BY DEF Ordered
  <2>1. i + n < j + n
    BY <1>3
  <2> QED
    BY <1>4, <1>8, <2>1 DEF Ordered
<1> QED
  BY <1>2, <1>4, <1>6, <1>7, <1>8 DEF r, Rest, Firsts

(* Putting a thread in, after the first n.                                 *)
PutIn(s, n, t) == SubSeq(s, 1, n) \o <<t>> \o SubSeq(s, n + 1, Len(s))
LEMMA InsertForm ==
  ASSUME NEW s \in Seq(Threads), NEW t \in Threads, NEW n \in 0 .. Len(s)
  PROVE  /\ PutIn(s, n, t) \in Seq(Threads) /\ Len(PutIn(s, n, t)) = Len(s) + 1
         /\ \A i \in 1 .. Len(s) + 1 :
              PutIn(s, n, t)[i] =
                IF i <= n THEN s[i] ELSE IF i = n + 1 THEN t ELSE s[i - 1]
<1> DEFINE a == SubSeq(s, 1, n)
           b == SubSeq(s, n + 1, Len(s))
           m == a \o <<t>>
           r == m \o b
<1>1. Len(s) \in Nat /\ DOMAIN s = 1 .. Len(s) /\ \A i \in 1 .. Len(s) : s[i] \in Threads
  BY LenProperties, ElementOfSeq
<1>2. a \in Seq(Threads) /\ Len(a) = n /\ \A i \in 1 .. n : a[i] = s[i]
  <2>1. \A i \in 1 .. n : s[i] \in Threads
    BY <1>1
  <2> QED
    BY <1>1, <2>1, SubSeqProperties
<1>3. b \in Seq(Threads) /\ Len(b) = Len(s) - n /\ \A i \in 1 .. Len(s) - n : b[i] = s[n + i]
  <2>1. \A i \in n + 1 .. Len(s) : s[i] \in Threads
    BY <1>1
  <2>2. /\ b \in Seq(Threads)
        /\ Len(b) = IF n + 1 <= Len(s) THEN Len(s) - (n + 1) + 1 ELSE 0
        /\ \A i \in 1 .. Len(s) - (n + 1) + 1 : b[i] = s[(n + 1) + i - 1]
    BY <1>1, <2>1, SubSeqProperties, SMT
  <2> HIDE DEF b
  <2>3. Len(b) = Len(s) - n
    <3>1. Len(b) = IF n + 1 <= Len(s) THEN Len(s) - (n + 1) + 1 ELSE 0
      BY <2>2
    <3>2. Len(s) \in Nat /\ n \in Nat /\ n <= Len(s)
      BY <1>1
    <3> QED
      BY <3>1, <3>2
  <2>4. \A i \in 1 .. Len(s) - n : (n + 1) + i - 1 = n + i
    BY <1>1
  <2>5. Len(s) - (n + 1) + 1 = Len(s) - n
    BY <1>1
  <2> QED
    BY <2>2, <2>3, <2>4, <2>5
<1> HIDE DEF a, b
<1>4. m \in Seq(Threads) /\ Len(m) = n + 1 /\ \A i \in 1 .. n + 1 : m[i] = IF i <= n THEN a[i] ELSE t
  <2>1. <<t>> \in Seq(Threads) /\ Len(<<t>>) = 1 /\ <<t>>[1] = t
    OBVIOUS
  <2> DEFINE o == <<t>>
  <2> HIDE DEF o
  <2>2. o \in Seq(Threads) /\ Len(o) = 1 /\ o[1] = t
    BY <2>1 DEF o
  <2>3. /\ a \o o \in Seq(Threads) /\ Len(a \o o) = Len(a) + Len(o)
        /\ \A i \in 1 .. Len(a) + Len(o) : (a \o o)[i] = IF i <= Len(a) THEN a[i] ELSE o[i - Len(a)]
    BY <1>2, <2>2, ConcatProperties
  <2>4. \A i \in 1 .. n + 1 : ~ (i <= n) => i - n = 1
    BY <1>1
  <2>5. m = a \o o
    BY DEF o
  <2> HIDE DEF m
  <2> QED
    BY <1>2, <2>2, <2>3, <2>4, <2>5
<1> HIDE DEF m
<1>5. /\ r \in Seq(Threads) /\ Len(r) = Len(m) + Len(b)
      /\ \A i \in 1 .. Len(m) + Len(b) : r[i] = IF i <= Len(m) THEN m[i] ELSE b[i - Len(m)]
  BY <1>3, <1>4, ConcatProperties
<1>6. Len(m) + Len(b) = Len(s) + 1
  BY <1>1, <1>3, <1>4
<1> HIDE DEF r
<1>7. ASSUME NEW i \in 1 .. Len(s) + 1
      PROVE  r[i] = IF i <= n THEN s[i] ELSE IF i = n + 1 THEN t ELSE s[i - 1]
  <2>1. CASE i <= n + 1
    BY <1>1, <1>2, <1>4, <1>5, <1>6, <2>1
  <2>2. CASE ~ (i <= n + 1)
    <3>1. r[i] = b[i - (n + 1)]
      BY <1>4, <1>5, <1>6, <2>2
    <3>2. i - (n + 1) \in 1 .. Len(s) - n /\ n + (i - (n + 1)) = i - 1
      <4>1. n \in Nat /\ i \in Nat /\ i <= Len(s) + 1 /\ n <= Len(s)
        BY <1>1
      <4> QED
        BY <1>1, <2>2, <4>1
    <3>3. b[i - (n + 1)] = s[i - 1]
      BY <1>3, <3>2
    <3> QED
      BY <2>2, <3>1, <3>3
  <2> QED
    BY <2>1, <2>2
<1> QED
  BY <1>5, <1>6, <1>7 DEF r, m, a, b, PutIn

(* The position of the ordered insert: after those that wake no later, and *)
(* before one that wakes later.                                            *)
LEMMA SleepPositionForm ==
  ASSUME sleepQueue \in Seq(Threads), wakeIn \in [Threads -> Nat], NEW t \in Threads
  PROVE  /\ SleepPosition(t) \in 0 .. Len(sleepQueue)
         /\ \A i \in 1 .. SleepPosition(t) : wakeIn[sleepQueue[i]] <= wakeIn[t]
         /\ SleepPosition(t) < Len(sleepQueue) =>
              wakeIn[t] < wakeIn[sleepQueue[SleepPosition(t) + 1]]
<1> DEFINE L == Len(sleepQueue)
           w(i) == wakeIn[sleepQueue[i]]
           P == {i \in DOMAIN sleepQueue : \A k \in 1 .. i : w(k) <= wakeIn[t]}
           G == {i \in 1 .. L + 1 : i = L + 1 \/ wakeIn[t] < w(i)}
<1>1. L \in Nat /\ DOMAIN sleepQueue = 1 .. L
  BY LenProperties
<1>2. \A i \in 1 .. L : w(i) \in Nat
  BY ElementOfSeq
<1>3. G \in SUBSET Nat /\ L + 1 \in G
  BY <1>1
<1>4. PICK m \in G : \A k \in G : m <= k
  BY <1>3, LeastNumber
<1>5. m - 1 \in 0 .. L
  BY <1>1, <1>4
<1>6. \A i \in 1 .. m - 1 : w(i) <= wakeIn[t]
  BY <1>1, <1>2, <1>4, <1>5
<1>7. m - 1 < L => wakeIn[t] < w(m)
  BY <1>1, <1>4, <1>5
<1>8. P = 1 .. m - 1
  <2>1. \A i \in 1 .. m - 1 : i \in P
    <3> SUFFICES ASSUME NEW i \in 1 .. m - 1 PROVE i \in P
      OBVIOUS
    <3>1. i \in DOMAIN sleepQueue /\ \A k \in 1 .. i : k \in 1 .. m - 1
      BY <1>1, <1>5
    <3> QED
      BY <1>6, <3>1
  <2>2. ASSUME NEW i \in P, ~ (i <= m - 1) PROVE FALSE
    <3>1. i \in 1 .. L /\ m \in 1 .. i /\ m - 1 < L
      BY <1>1, <1>4, <1>5, <2>2
    <3>2. w(m) <= wakeIn[t]
      BY <3>1
    <3>3. m \in 1 .. L
      BY <1>1, <3>1
    <3> QED
      BY <1>2, <1>7, <3>1, <3>2, <3>3
  <2>3. P \subseteq 1 .. L
    BY <1>1
  <2> HIDE DEF P
  <2>4. \A i \in P : i \in 1 .. m - 1
    BY <1>1, <1>5, <2>2, <2>3
  <2> QED
    BY <2>1, <2>4
<1>9. Cardinality(1 .. m - 1) = m - 1
  <2>1. m - 1 \in Int /\ 1 \in Int
    BY <1>1, <1>5
  <2>2. Cardinality(1 .. m - 1) = IF 1 > m - 1 THEN 0 ELSE m - 1 - 1 + 1
    BY <2>1, FS_Interval, SMT
  <2> QED
    BY <1>5, <2>2
<1>10. SleepPosition(t) = m - 1
  BY <1>8, <1>9 DEF SleepPosition
<1>11. (m - 1) + 1 = m
  BY <1>1, <1>4
<1> QED
  BY <1>1, <1>5, <1>6, <1>7, <1>10, <1>11

LEMMA SleepInsertKeeps ==
  ASSUME sleepQueue \in Seq(Threads), wakeIn \in [Threads -> Nat], NEW t \in Threads
  PROVE  /\ SleepInsert(t) \in Seq(Threads)
         /\ Elements(SleepInsert(t)) = Elements(sleepQueue) \cup {t}
         /\ NoRepeats(sleepQueue) /\ t \notin Elements(sleepQueue) =>
              NoRepeats(SleepInsert(t))
         /\ Ordered(sleepQueue) => Ordered(SleepInsert(t))
<1> DEFINE s == sleepQueue
           r == SleepInsert(t)
           n == SleepPosition(t)
<1>1. /\ n \in 0 .. Len(s) /\ \A i \in 1 .. n : wakeIn[s[i]] <= wakeIn[t]
      /\ n < Len(s) => wakeIn[t] < wakeIn[s[n + 1]]
  BY SleepPositionForm
<1>2. /\ r \in Seq(Threads) /\ Len(r) = Len(s) + 1
      /\ \A i \in 1 .. Len(s) + 1 :
           r[i] = IF i <= n THEN s[i] ELSE IF i = n + 1 THEN t ELSE s[i - 1]
  <2>1. r = PutIn(s, n, t)
    BY DEF SleepInsert, PutIn
  <2>2. n \in 0 .. Len(s) /\ s \in Seq(Threads)
    BY <1>1
  <2> HIDE DEF r, n, s
  <2>3. /\ PutIn(s, n, t) \in Seq(Threads) /\ Len(PutIn(s, n, t)) = Len(s) + 1
        /\ \A i \in 1 .. Len(s) + 1 :
             PutIn(s, n, t)[i] =
               IF i <= n THEN s[i] ELSE IF i = n + 1 THEN t ELSE s[i - 1]
    BY <2>2, InsertForm
  <2> QED
    BY <2>1, <2>3
<1> HIDE DEF r, n
<1>3. /\ Len(s) \in Nat /\ DOMAIN s = 1 .. Len(s) /\ DOMAIN r = 1 .. Len(s) + 1
      /\ n \in Nat /\ n <= Len(s) /\ \A i \in DOMAIN s : s[i] \in Threads
  BY <1>1, <1>2, LenProperties, ElementOfSeq
<1> DEFINE f(i) == IF i <= n THEN i ELSE i - 1
<1>4. \A i \in DOMAIN r : i # n + 1 => f(i) \in DOMAIN s /\ r[i] = s[f(i)]
  BY <1>2, <1>3
<1>5. n + 1 \in DOMAIN r /\ r[n + 1] = t
  BY <1>2, <1>3
<1>6. \A i, j \in DOMAIN r : i # n + 1 /\ j # n + 1 =>
        (i < j => f(i) < f(j)) /\ (f(i) = f(j) => i = j)
  BY <1>3
<1>7. \A j \in DOMAIN s : \E i \in DOMAIN r : r[i] = s[j]
  <2> SUFFICES ASSUME NEW j \in DOMAIN s PROVE \E i \in DOMAIN r : r[i] = s[j]
    OBVIOUS
  <2>1. CASE j <= n
    <3>1. j \in 1 .. Len(s) + 1
      BY <1>3
    <3> QED
      BY <1>2, <1>3, <2>1, <3>1
  <2>2. CASE ~ (j <= n)
    <3>1. j + 1 \in 1 .. Len(s) + 1 /\ ~ (j + 1 <= n) /\ j + 1 # n + 1 /\ (j + 1) - 1 = j
      BY <1>3, <2>2
    <3> QED
      BY <1>2, <1>3, <3>1
  <2> QED
    BY <2>1, <2>2
<1>8. \A i \in DOMAIN r : (i < n + 1 => f(i) \in 1 .. n) /\ (n + 1 < i => f(i) \in n + 1 .. Len(s))
  BY <1>3
<1> HIDE DEF f
<1>9. Elements(r) = Elements(s) \cup {t}
  BY <1>4, <1>5, <1>7 DEF Elements
<1>10. ASSUME NoRepeats(s), t \notin Elements(s) PROVE NoRepeats(r)
  <2> SUFFICES ASSUME NEW i \in DOMAIN r, NEW j \in DOMAIN r, r[i] = r[j] PROVE i = j
    BY DEF NoRepeats
  <2>1. \A k \in DOMAIN r : k # n + 1 => r[k] # t
    BY <1>4, <1>10 DEF Elements
  <2>2. i # n + 1 /\ j # n + 1 => f(i) = f(j)
    BY <1>4, <1>10 DEF NoRepeats
  <2> QED
    BY <1>5, <1>6, <2>1, <2>2
<1>11. ASSUME Ordered(s) PROVE Ordered(r)
  <2> SUFFICES ASSUME NEW i \in DOMAIN r, NEW j \in DOMAIN r, i < j
               PROVE  wakeIn[r[i]] <= wakeIn[r[j]]
    BY DEF Ordered
  <2>1. \A k \in 1 .. Len(s) : wakeIn[s[k]] \in Nat /\ wakeIn[t] \in Nat
    BY <1>3
  <2>2. CASE i # n + 1 /\ j # n + 1
    BY <1>4, <1>6, <1>11, <2>2 DEF Ordered
  <2>3. CASE j = n + 1
    BY <1>1, <1>3, <1>4, <1>5, <1>8, <2>3
  <2>4. CASE i = n + 1
    <3>1. f(j) \in n + 1 .. Len(s) /\ r[j] = s[f(j)] /\ r[i] = t
      BY <1>3, <1>4, <1>5, <1>8, <2>4
    <3>2. n + 1 \in 1 .. Len(s) /\ n < Len(s) /\ f(j) \in 1 .. Len(s)
      BY <1>3, <3>1
    <3>3. f(j) = n + 1 \/ n + 1 < f(j)
      BY <1>3, <3>1
    <3>4. wakeIn[s[n + 1]] <= wakeIn[s[f(j)]]
      BY <1>3, <1>11, <2>1, <3>2, <3>3 DEF Ordered
    <3>5. wakeIn[t] < wakeIn[s[n + 1]]
      BY <1>1, <3>2
    <3> QED
      BY <2>1, <3>1, <3>2, <3>4, <3>5
  <2> QED
    BY <2>2, <2>3, <2>4
<1> QED
  BY <1>2, <1>9, <1>10, <1>11 DEF r

(* callback() wakes a first part of the queue: it stops at the first one   *)
(* that is not due.                                                        *)
LEMMA DueForm ==
  ASSUME NEW s \in Seq(Threads), wakeIn \in [Threads -> Nat]
  PROVE  /\ Due(s) \in 0 .. Len(s)
         /\ \A i \in 1 .. Due(s) : wakeIn[s[i]] <= 1
         /\ Due(s) < Len(s) => wakeIn[s[Due(s) + 1]] > 1
<1> DEFINE w(i) == wakeIn[s[i]]
           G == {i \in 1 .. Len(s) + 1 : i = Len(s) + 1 \/ w(i) > 1}
<1>1. Len(s) \in Nat /\ \A i \in 1 .. Len(s) : w(i) \in Nat
  BY LenProperties, ElementOfSeq
<1>2. G \in SUBSET Nat /\ Len(s) + 1 \in G
  BY <1>1
<1>3. PICK m \in G : \A k \in G : m <= k
  BY <1>2, LeastNumber
<1>4. m - 1 \in 0 .. Len(s) /\ (m - 1) + 1 = m
  BY <1>1, <1>3
<1>5. \A i \in 1 .. m - 1 : w(i) <= 1
  BY <1>1, <1>3, <1>4
<1>6. m - 1 < Len(s) => w(m) > 1
  BY <1>1, <1>3, <1>4
<1>7. \E n \in 0 .. Len(s) :
        (\A i \in 1 .. n : wakeIn[s[i]] <= 1) /\ (n < Len(s) => wakeIn[s[n + 1]] > 1)
  BY <1>4, <1>5, <1>6
<1> QED
  BY <1>7 DEF Due

------------------------------------------------------------------------------
(* The inductive invariant that holds however the scheduler is called: a   *)
(* watchdog that leaves for others, processes that die, calls without a    *)
(* join between them.                                                      *)

(* TypeOK in two parts: what the scheduler's handlers change, and the      *)
(* progress of the threads and of the watchdog through their calls.        *)
CoreTypes ==
  /\ gidMap \subseteq Threads
  /\ state \in [Threads -> States]
  /\ cid \in [Threads -> Ctxs]
  /\ handoff \in [Threads -> Threads \cup {NoThread}]
  /\ futexWord \in [Threads -> {0, 1}]
  /\ marked \in [Threads -> BOOLEAN]
  /\ wakeIn \in [Threads -> 0 .. MaxSleep]
  /\ curThread \in [Ctxs -> Threads \cup {NoThread}]
  /\ freeList \subseteq Ctxs /\ outQueue \subseteq Threads
  /\ quantum \in 0 .. SchedQuantum - 1
  /\ bar \in [Ctxs -> {"out", "running", "done"}]
  /\ aborted \in BOOLEAN

WdTypes ==
  [job : {"idle", "leave", "next", "cleanup"}, th : Threads \cup {NoThread},
   c : Ctxs, pid : {Pid[t] : t \in Threads} \cup {0}]

CallTypes ==
  /\ fakeLeaves \in Seq(Threads)
  /\ pc \in [Threads -> Labels]
  /\ wd \in WdTypes /\ (wd.job = "leave" => wd.th \in Threads)

(* The run queue is in a strict order.                                     *)
QueueOrder ==
  /\ runQueue \subseteq Threads
  /\ ahead \in [Threads -> SUBSET runQueue]
  /\ \A t, u \in runQueue : t # u => (t \in ahead[u]) # (u \in ahead[t])
  /\ \A t \in Threads : t \notin ahead[t]
  /\ \A t, u \in Threads : u \in ahead[t] => ahead[u] \subseteq ahead[t]

(* A thread waits in the run queue, or for one core that it was promised.  *)
QueuesExact ==
  /\ \A t \in runQueue : state[t] = "QUEUED"
  /\ \A v \in Threads : handoff[v] # NoThread =>
       state[handoff[v]] = "QUEUED" /\ handoff[v] \notin runQueue
  /\ \A v, w \in Threads : handoff[v] # NoThread /\ handoff[v] = handoff[w] => v = w

SleepersExact ==
  /\ sleepQueue \in Seq(Threads) /\ NoRepeats(sleepQueue)
  /\ Elements(sleepQueue) = {t \in Threads : state[t] = "SLEEPING"}

UnknownOutside == \A t \in Threads : pc[t] = "none" => state[t] = "NONE"

Core ==
  /\ CoreTypes /\ QueueOrder /\ QueuesExact /\ SleepersExact
  /\ ContextsExact /\ WorkConserving

AInv == Core /\ CallTypes /\ UnknownOutside

LEMMA TypesSplit == AInv => TypeOK
<1> SUFFICES ASSUME AInv PROVE TypeOK
  OBVIOUS
<1>1. \A s \in Seq(Threads) : Elements(s) \subseteq Threads
  BY LenProperties, ElementOfSeq DEF Elements
<1>2. Elements(sleepQueue) \subseteq Threads /\ Elements(fakeLeaves) \subseteq Threads
  BY <1>1 DEF AInv, Core, SleepersExact, CallTypes
<1> QED
  BY <1>2 DEF AInv, Core, CoreTypes, CallTypes, WdTypes, QueueOrder, TypeOK

(* The operations of the run queue keep its order.                         *)
LEMMA PopKeeps ==
  ASSUME QueueOrder, NEW S, PopRunQueue(S)
  PROVE  QueueOrder' /\ runQueue' = runQueue \ S
<1>1. runQueue' \subseteq Threads /\ ahead' \in [Threads -> SUBSET runQueue']
  BY DEF QueueOrder, PopRunQueue
<1> QED
  BY <1>1 DEF QueueOrder, PopRunQueue

LEMMA PushKeeps ==
  ASSUME QueueOrder, NEW t \in Threads, t \notin runQueue, PushRunQueue(t)
  PROVE  QueueOrder' /\ runQueue' = runQueue \cup {t}
<1>1. runQueue' \subseteq Threads /\ ahead' \in [Threads -> SUBSET runQueue']
  BY DEF QueueOrder, PushRunQueue
<1> QED
  BY <1>1 DEF QueueOrder, PushRunQueue

(* schedContext finds the first thread that may run there, and finds one   *)
(* if there is one.                                                        *)
LEMMA SchedContextForm ==
  ASSUME QueueOrder, IsFiniteSet(Threads), NEW c \in Ctxs
  PROVE  /\ \A u \in SchedContext(c) : u \in runQueue /\ u \in Threads /\ c \in Mask[u]
         /\ SchedContext(c) = {} => \A t \in runQueue : c \notin Mask[t]
<1> DEFINE able == {t \in runQueue : c \in Mask[t]}
<1>1. ASSUME NEW a \in able, SchedContext(c) = {} PROVE FALSE
  <2> DEFINE T == {ahead[t] \cap able : t \in able}
  <2>1. T \in SUBSET FiniteSubsetsOf(Threads) /\ T # {}
    <3>1. \A t \in able : ahead[t] \cap able \subseteq Threads
      BY DEF QueueOrder
    <3>2. \A t \in able : IsFiniteSet(ahead[t] \cap able)
      BY <3>1, FS_Subset
    <3> QED
      BY <1>1, <3>1, <3>2 DEF FiniteSubsetsOf
  <2>2. \E x \in T : \A y \in T : y \subseteq x => y = x
    <3> HIDE DEF T
    <3> QED
      BY <2>1, MinimalSet
  <2>3. PICK t \in able : \A u \in able :
          ahead[u] \cap able \subseteq ahead[t] \cap able => ahead[u] \cap able = ahead[t] \cap able
    <3>1. PICK x \in T : \A y \in T : y \subseteq x => y = x
      BY <2>2
    <3>2. PICK t \in able : x = ahead[t] \cap able
      BY <3>1
    <3>3. \A u \in able : ahead[u] \cap able \in T
      OBVIOUS
    <3> HIDE DEF able, T
    <3> QED
      BY <3>1, <3>2, <3>3, Zenon
  <2>4. PICK u \in able : u \in ahead[t]
    BY <1>1 DEF SchedContext
  <2>5. ahead[u] \subseteq ahead[t] /\ u \notin ahead[u]
    BY <2>4 DEF QueueOrder
  <2> QED
    BY <2>3, <2>4, <2>5
<1> QED
  BY <1>1 DEF SchedContext, QueueOrder

(* The cores that a queued thread may run on are all in use.               *)
LEMMA QueuedCores ==
  ASSUME Core, NEW v \in runQueue, NEW d \in Mask[v]
  PROVE  /\ v \in Threads /\ d \in Ctxs /\ curThread[d] # NoThread
         /\ curThread[d] \in Threads /\ state[curThread[d]] = "RUNNING"
<1>1. v \in Threads /\ d \in Ctxs
  BY SchedulerAssumption DEF Core, QueueOrder
<1> QED
  BY <1>1 DEF Core, CoreTypes, WorkConserving

(* What schedTick does to the handoffs: each of its threads leaves the run *)
(* queue and is promised the core of one thread.                           *)
LEMMA TickKeeps ==
  ASSUME CoreTypes, QueueOrder, QueuesExact,
         NEW cur \in [Ctxs -> Threads \cup {NoThread}],
         NEW g \in Handovers, SchedTick(cur, g)
  PROVE  /\ QueueOrder' /\ runQueue' \subseteq runQueue
         /\ handoff' \in [Threads -> Threads \cup {NoThread}]
         /\ \A v \in Threads : handoff'[v] # NoThread =>
              state[handoff'[v]] = "QUEUED" /\ handoff'[v] \notin runQueue'
         /\ \A v, w \in Threads : handoff'[v] # NoThread /\ handoff'[v] = handoff'[w] => v = w
<1> DEFINE Given(v, t) == t \in DOMAIN g /\ cur[g[t]] = v
<1>1. DOMAIN g \subseteq runQueue /\ \A t \in DOMAIN g : g[t] \in Ctxs
  BY DEF Handovers
<1>2. QueueOrder' /\ runQueue' = runQueue \ DOMAIN g
  BY PopKeeps DEF SchedTick
<1>3. \A v \in Threads : handoff'[v] = handoff[v] \/ Given(v, handoff'[v])
  BY DEF SchedTick
<1>4. handoff' \in [Threads -> Threads \cup {NoThread}]
  <2>1. \A v \in Threads : handoff'[v] \in Threads \cup {NoThread}
    BY <1>1, <1>3 DEF QueueOrder, CoreTypes
  <2> QED
    BY <2>1 DEF SchedTick
<1>5. \A v \in Threads : handoff'[v] # NoThread =>
        state[handoff'[v]] = "QUEUED" /\ handoff'[v] \notin runQueue'
  BY <1>1, <1>2, <1>3 DEF QueuesExact
<1>6. \A v, w \in Threads : handoff'[v] # NoThread /\ handoff'[v] = handoff'[w] => v = w
  BY <1>1, <1>3 DEF QueuesExact
<1> QED
  BY <1>2, <1>4, <1>5, <1>6

(* What the end of a phase, from the thread states st, does to the rest.   *)
EndsPhase(st) ==
  /\ state' \in [Threads -> States]
  /\ \A t \in Threads : state'[t] = st[t] \/ (st[t] = "SLEEPING" /\ state'[t] = "BLOCKED")
  /\ QueueOrder' /\ QueuesExact' /\ SleepersExact' /\ runQueue' \subseteq runQueue
  /\ handoff' \in [Threads -> Threads \cup {NoThread}]
  /\ futexWord' \in [Threads -> {0, 1}]
  /\ wakeIn' \in [Threads -> 0 .. MaxSleep]
  /\ quantum' \in 0 .. SchedQuantum - 1
  /\ aborted' \in BOOLEAN

(* The thread states and the sleep queue that a handler ends the phase     *)
(* with.                                                                   *)
MayEnd(st, sq) ==
  /\ st \in [Threads -> States]
  /\ \A t \in Threads : state[t] = "QUEUED" => st[t] = "QUEUED"
  /\ sq \in Seq(Threads) /\ NoRepeats(sq)
  /\ Elements(sq) = {t \in Threads : st[t] = "SLEEPING"}

LEMMA CallbackKeeps ==
  ASSUME CoreTypes, QueueOrder, QueuesExact, NEW st, NEW sq, MayEnd(st, sq),
         NEW cur \in [Ctxs -> Threads \cup {NoThread}], Callback(st, cur, sq)
  PROVE  EndsPhase(st)
<1> DEFINE n == Due(sq)
           woken == Firsts(sq, n)
<1>1. wakeIn \in [Threads -> Nat] /\ sq \in Seq(Threads)
  BY SchedulerAssumption DEF CoreTypes, MayEnd
<1>2. n \in 0 .. Len(sq)
  BY <1>1, DueForm
<1>3. /\ state' = [t \in Threads |-> IF t \in woken THEN "BLOCKED" ELSE st[t]]
      /\ sleepQueue' = Rest(sq, n)
      /\ futexWord' = [t \in Threads |-> IF t \in woken THEN 0 ELSE futexWord[t]]
      /\ wakeIn' = [t \in Threads |-> IF wakeIn[t] > 0 THEN wakeIn[t] - 1 ELSE 0]
      /\ quantum' = (quantum + 1) % SchedQuantum
  BY DEF Callback, Firsts, Rest
<1>4. \/ UNCHANGED <<runQueue, ahead, handoff>> /\ aborted' \in BOOLEAN
      \/ \E g \in Handovers : SchedTick(cur, g) /\ aborted' \in BOOLEAN
  BY DEF Callback
<1> HIDE DEF n
<1>5. /\ sleepQueue' \in Seq(Threads) /\ NoRepeats(sleepQueue)'
      /\ woken \subseteq Elements(sq)
      /\ Elements(sleepQueue)' = Elements(sq) \ woken
  <2>1. NoRepeats(sq)
    BY DEF MayEnd
  <2>2. /\ Rest(sq, n) \in Seq(Threads) /\ NoRepeats(Rest(sq, n))
        /\ woken \subseteq Elements(sq)
        /\ Elements(Rest(sq, n)) = Elements(sq) \ woken
    BY <1>1, <1>2, <2>1, RestKeeps
  <2>3. sleepQueue' = Rest(sq, n)
    BY <1>3
  <2> HIDE DEF woken
  <2> QED
    BY <2>2, <2>3 DEF NoRepeats, Elements
<1> HIDE DEF woken
<1>6. /\ state' \in [Threads -> States]
      /\ \A t \in Threads : state'[t] = st[t] \/ (st[t] = "SLEEPING" /\ state'[t] = "BLOCKED")
  BY <1>3, <1>5 DEF MayEnd, States
<1>7. SleepersExact'
  BY <1>3, <1>5, <1>6 DEF MayEnd, SleepersExact
<1>8. /\ QueueOrder' /\ runQueue' \subseteq runQueue
      /\ handoff' \in [Threads -> Threads \cup {NoThread}] /\ aborted' \in BOOLEAN
      /\ \A v \in Threads : handoff'[v] # NoThread =>
           state[handoff'[v]] = "QUEUED" /\ handoff'[v] \notin runQueue'
      /\ \A v, w \in Threads : handoff'[v] # NoThread /\ handoff'[v] = handoff'[w] => v = w
  <2>1. CASE UNCHANGED <<runQueue, ahead, handoff>> /\ aborted' \in BOOLEAN
    BY <2>1 DEF QueueOrder, QueuesExact, CoreTypes
  <2>2. CASE \E g \in Handovers : SchedTick(cur, g) /\ aborted' \in BOOLEAN
    BY <2>2, TickKeeps
  <2> QED
    BY <1>4, <2>1, <2>2
<1>9. QueuesExact'
  <2>1. \A t \in Threads : state[t] = "QUEUED" => state'[t] = "QUEUED"
    BY <1>6 DEF MayEnd
  <2> QED
    BY <1>8, <2>1 DEF QueuesExact, QueueOrder
<1>10. /\ futexWord' \in [Threads -> {0, 1}]
       /\ wakeIn' \in [Threads -> 0 .. MaxSleep]
  BY <1>3, SchedulerAssumption DEF CoreTypes
<1>11. quantum' \in 0 .. SchedQuantum - 1
  <2>1. quantum \in Nat /\ SchedQuantum \in Nat \ {0}
    BY SchedulerAssumption DEF CoreTypes
  <2> QED
    BY <1>3, <2>1
<1> QED
  BY <1>6, <1>7, <1>8, <1>9, <1>10, <1>11 DEF EndsPhase

LEMMA EndPhaseKeeps ==
  ASSUME CoreTypes, QueueOrder, QueuesExact, NEW st, NEW sq, MayEnd(st, sq),
         NEW cur \in [Ctxs -> Threads \cup {NoThread}],
         NEW b \in [Ctxs -> {"out", "running", "done"}],
         EndPhaseIfDone(b, st, cur, sq)
  PROVE  EndsPhase(st) /\ bar' \in [Ctxs -> {"out", "running", "done"}]
<1>1. CASE PhaseDone(b)
  <2>1. Callback(st, cur, sq) /\ bar' = [c \in Ctxs |-> IF b[c] = "done" THEN "running" ELSE b[c]]
    BY <1>1 DEF EndPhaseIfDone
  <2> QED
    BY <2>1, CallbackKeeps
<1>2. CASE ~ PhaseDone(b)
  <2>1. /\ bar' = b /\ state' = st /\ sleepQueue' = sq
        /\ UNCHANGED <<futexWord, wakeIn, runVars, aborted>>
    BY <1>2 DEF EndPhaseIfDone
  <2>2. QueuesExact'
    <3>1. \A t \in Threads : state[t] = "QUEUED" => state'[t] = "QUEUED"
      BY <2>1 DEF MayEnd
    <3>2. UNCHANGED <<runQueue, handoff>>
      BY <2>1 DEF runVars
    <3> QED
      BY <3>1, <3>2 DEF QueuesExact, QueueOrder, CoreTypes
  <2>3. QueueOrder' /\ SleepersExact' /\ runQueue' \subseteq runQueue
    BY <2>1 DEF QueueOrder, SleepersExact, MayEnd, runVars
  <2> QED
    BY <2>1, <2>2, <2>3 DEF EndsPhase, MayEnd, CoreTypes, runVars
<1> QED
  BY <1>1, <1>2

LEMMA BarLeaveKeeps ==
  ASSUME CoreTypes, QueueOrder, QueuesExact, NEW st, NEW sq, MayEnd(st, sq),
         NEW cur \in [Ctxs -> Threads \cup {NoThread}], NEW c \in Ctxs,
         BarLeave(c, st, cur, sq)
  PROVE  EndsPhase(st) /\ bar' \in [Ctxs -> {"out", "running", "done"}]
<1> DEFINE b == [bar EXCEPT ![c] = "out"]
<1>1. b \in [Ctxs -> {"out", "running", "done"}]
  BY DEF CoreTypes
<1>2. CASE bar[c] = "running"
  <2>1. EndPhaseIfDone(b, st, cur, sq)
    BY <1>2 DEF BarLeave
  <2> QED
    BY <1>1, <2>1, EndPhaseKeeps
<1>3. CASE bar[c] # "running"
  <2>1. /\ bar' = b /\ state' = st /\ sleepQueue' = sq
        /\ UNCHANGED <<futexWord, wakeIn, runVars, aborted>>
    BY <1>3 DEF BarLeave
  <2>2. QueuesExact'
    <3>1. \A t \in Threads : state[t] = "QUEUED" => state'[t] = "QUEUED"
      BY <2>1 DEF MayEnd
    <3>2. UNCHANGED <<runQueue, handoff>>
      BY <2>1 DEF runVars
    <3> QED
      BY <3>1, <3>2 DEF QueuesExact, QueueOrder, CoreTypes
  <2>3. QueueOrder' /\ SleepersExact' /\ runQueue' \subseteq runQueue
    BY <2>1 DEF QueueOrder, SleepersExact, MayEnd, runVars
  <2> QED
    BY <1>1, <2>1, <2>2, <2>3 DEF EndsPhase, MayEnd, CoreTypes, runVars
<1> QED
  BY <1>2, <1>3

------------------------------------------------------------------------------
(* leave(), whoever calls it.                                              *)

LEMMA PassOnKeeps ==
  ASSUME Core, NEW t \in Threads, NEW c \in Ctxs, LeaveAssertion(t, c),
         NEW u \in SchedContext(c), NEW to \in {"SLEEPING", "BLOCKED"},
         PassOn(t, c, u, to), UNCHANGED <<freeList, outQueue, handoff>>
  PROVE  /\ u \in Threads /\ u \in runQueue /\ u # t /\ state[u] = "QUEUED" /\ c \in Mask[u]
         /\ state' \in [Threads -> States] /\ cid' \in [Threads -> Ctxs]
         /\ futexWord' \in [Threads -> {0, 1}] /\ aborted' \in BOOLEAN
         /\ curThread' \in [Ctxs -> Threads \cup {NoThread}]
         /\ state'[t] = to /\ state'[u] = "RUNNING"
         /\ \A v \in Threads \ {t, u} : state'[v] = state[v]
         /\ QueueOrder' /\ runQueue' = runQueue \ {u} /\ QueuesExact'
         /\ ContextsExact' /\ WorkConserving'
<1>1. IsFiniteSet(Threads)
  BY SchedulerAssumption
<1>2. /\ u \in Threads /\ u \in runQueue /\ c \in Mask[u] /\ state[u] = "QUEUED"
      /\ state[t] = "RUNNING" /\ u # t
  BY <1>1, SchedContextForm DEF Core, QueuesExact, LeaveAssertion
<1>3. /\ state' = [state EXCEPT ![t] = to, ![u] = "RUNNING"]
      /\ cid' = [cid EXCEPT ![u] = c]
      /\ curThread' = [curThread EXCEPT ![c] = u]
      /\ futexWord' = [futexWord EXCEPT ![u] = 0]
      /\ PopRunQueue({u}) /\ aborted' \in BOOLEAN
  BY DEF PassOn
<1>4. /\ state' \in [Threads -> States] /\ cid' \in [Threads -> Ctxs]
      /\ futexWord' \in [Threads -> {0, 1}]
      /\ curThread' \in [Ctxs -> Threads \cup {NoThread}]
  BY <1>2, <1>3 DEF Core, CoreTypes, States
<1>5. /\ state'[t] = to /\ state'[u] = "RUNNING"
      /\ \A v \in Threads \ {t, u} : state'[v] = state[v]
  BY <1>2, <1>3 DEF Core, CoreTypes
<1>6. QueueOrder' /\ runQueue' = runQueue \ {u}
  BY <1>3, PopKeeps DEF Core
<1>7. QueuesExact'
  BY <1>2, <1>5, <1>6 DEF Core, CoreTypes, QueuesExact, QueueOrder
<1>8. ContextsExact'
  <2>1. /\ \A d \in Ctxs : curThread'[d] = IF d = c THEN u ELSE curThread[d]
        /\ \A v \in Threads : cid'[v] = IF v = u THEN c ELSE cid[v]
    BY <1>2, <1>3 DEF Core, CoreTypes
  <2>2. curThread[c] = t /\ cid[t] = c /\ \A d \in Ctxs : curThread[d] # u
    BY <1>2 DEF Core, ContextsExact, LeaveAssertion
  <2>3. ASSUME NEW d \in Ctxs, NEW v \in Threads
        PROVE  curThread'[d] = v <=> state'[v] \in {"RUNNING", "OUT"} /\ cid'[v] = d
    <3>1. curThread[d] = v <=> state[v] \in {"RUNNING", "OUT"} /\ cid[v] = d
      BY DEF Core, ContextsExact
    <3>2. curThread[c] = v <=> state[v] \in {"RUNNING", "OUT"} /\ cid[v] = c
      BY DEF Core, ContextsExact
    <3>3. CASE v = u
      BY <1>5, <2>1, <2>2, <3>3
    <3>4. CASE v = t
      BY <1>2, <1>5, <2>1, <2>2, <3>1, <3>4
    <3>5. CASE v \notin {t, u}
      BY <1>5, <2>1, <2>2, <3>1, <3>2, <3>5
    <3> QED
      BY <3>3, <3>4, <3>5
  <2>4. freeList' = Ctxs \ Scheduled'
    BY <1>2, <2>1, <2>2, SchedulerAssumption DEF Core, ContextsExact, Scheduled
  <2>5. outQueue' = {v \in Threads : state'[v] = "OUT"}
    BY <1>2, <1>5 DEF Core, ContextsExact
  <2> QED
    BY <2>3, <2>4, <2>5 DEF ContextsExact
<1>9. WorkConserving'
  <2> SUFFICES ASSUME NEW v \in runQueue', NEW d \in Mask[v]
               PROVE  curThread'[d] # NoThread /\ state'[curThread'[d]] = "RUNNING"
    BY DEF WorkConserving
  <2>1. v \in runQueue /\ v \in Threads /\ d \in Ctxs
    BY <1>6, SchedulerAssumption DEF Core, QueueOrder
  <2>2. curThread[d] # NoThread /\ state[curThread[d]] = "RUNNING" /\ curThread[d] \in Threads
    BY <2>1 DEF Core, WorkConserving, CoreTypes
  <2>3. CASE d = c
    BY <1>2, <1>3, <1>5, <2>1, <2>3, SchedulerAssumption DEF Core, CoreTypes
  <2>4. CASE d # c
    <3>1. curThread'[d] = curThread[d]
      BY <1>3, <2>1, <2>4 DEF Core, CoreTypes
    <3>2. curThread[d] # t /\ curThread[d] # u
      BY <1>2, <2>1, <2>2, <2>4 DEF Core, ContextsExact, LeaveAssertion
    <3> QED
      BY <1>5, <2>2, <3>1, <3>2
  <2> QED
    BY <2>3, <2>4
<1> QED
  BY <1>2, <1>3, <1>4, <1>5, <1>6, <1>7, <1>8, <1>9

(* A thread, and nobody for its context: the phase may end with its leave. *)
LEMMA LeaveToSleepKeeps ==
  ASSUME Core, NEW t \in Threads, NEW c \in Ctxs, LeaveToSleep(t, c)
  PROVE  Core' /\ \A v \in Threads : state[v] = "NONE" => state'[v] = "NONE"
<1>1. /\ state[t] = "RUNNING" /\ marked[t] /\ curThread[c] = t /\ cid[t] = c
      /\ LeaveAssertion(t, c) /\ IsFiniteSet(Threads)
      /\ UNCHANGED <<gidMap, outQueue>>
  BY SchedulerAssumption DEF LeaveToSleep, LeaveAssertion, Core, ContextsExact
<1>2. marked' \in [Threads -> BOOLEAN]
  BY DEF LeaveToSleep, Core, CoreTypes
<1>3. /\ SleepInsert(t) \in Seq(Threads) /\ NoRepeats(SleepInsert(t))
      /\ Elements(SleepInsert(t)) = Elements(sleepQueue) \cup {t}
  <2>1. wakeIn \in [Threads -> Nat]
    BY SchedulerAssumption DEF Core, CoreTypes
  <2> QED
    BY <1>1, <2>1, SleepInsertKeeps DEF Core, SleepersExact
<1>4. CASE \E u \in SchedContext(c) :
          /\ PassOn(t, c, u, "SLEEPING")
          /\ sleepQueue' = SleepInsert(t)
          /\ UNCHANGED <<wakeIn, freeList, bar, handoff, quantum>>
  <2>1. PICK u \in SchedContext(c) :
          /\ PassOn(t, c, u, "SLEEPING")
          /\ sleepQueue' = SleepInsert(t)
          /\ UNCHANGED <<wakeIn, freeList, bar, handoff, quantum>>
    BY <1>4
  <2>2. /\ u \in Threads /\ u \in runQueue /\ u # t /\ state[u] = "QUEUED"
        /\ state' \in [Threads -> States] /\ cid' \in [Threads -> Ctxs]
        /\ futexWord' \in [Threads -> {0, 1}] /\ aborted' \in BOOLEAN
        /\ curThread' \in [Ctxs -> Threads \cup {NoThread}]
        /\ state'[t] = "SLEEPING" /\ state'[u] = "RUNNING"
        /\ \A v \in Threads \ {t, u} : state'[v] = state[v]
        /\ QueueOrder' /\ QueuesExact' /\ ContextsExact' /\ WorkConserving'
    BY <1>1, <2>1, PassOnKeeps
  <2>3. CoreTypes'
    BY <1>1, <1>2, <2>1, <2>2 DEF Core, CoreTypes
  <2>4. SleepersExact'
    <3>1. Elements(sleepQueue') = {v \in Threads : state'[v] = "SLEEPING"}
      BY <1>3, <2>1, <2>2 DEF Core, SleepersExact
    <3> QED
      BY <1>3, <2>1, <3>1 DEF SleepersExact, NoRepeats, Elements
  <2> QED
    BY <1>1, <2>2, <2>3, <2>4 DEF Core
<1>5. CASE /\ SchedContext(c) = {}
           /\ curThread' = [curThread EXCEPT ![c] = NoThread]
           /\ freeList' = freeList \cup {c}
           /\ BarLeave(c, [state EXCEPT ![t] = "SLEEPING"], curThread', SleepInsert(t))
           /\ UNCHANGED cid
  <2> DEFINE st == [state EXCEPT ![t] = "SLEEPING"]
             cur == [curThread EXCEPT ![c] = NoThread]
  <2>1. /\ st \in [Threads -> States] /\ cur \in [Ctxs -> Threads \cup {NoThread}]
        /\ st[t] = "SLEEPING" /\ \A v \in Threads \ {t} : st[v] = state[v]
        /\ cur[c] = NoThread /\ \A d \in Ctxs \ {c} : cur[d] = curThread[d]
    BY DEF Core, CoreTypes, States
  <2>2. curThread' = cur /\ BarLeave(c, st, cur, SleepInsert(t))
    BY <1>5
  <2> HIDE DEF st, cur
  <2>3. MayEnd(st, SleepInsert(t))
    BY <1>1, <1>3, <2>1 DEF MayEnd, Core, SleepersExact
  <2>4. EndsPhase(st) /\ bar' \in [Ctxs -> {"out", "running", "done"}]
    BY <2>1, <2>2, <2>3, BarLeaveKeeps DEF Core
  <2>5. CoreTypes'
    BY <1>1, <1>2, <1>5, <2>1, <2>2, <2>4 DEF Core, CoreTypes, EndsPhase
  <2>6. \A v \in Threads, x \in States \ {"SLEEPING", "BLOCKED"} : state'[v] = x <=> st[v] = x
    BY <2>4 DEF EndsPhase
  <2>7. ContextsExact'
    <3>1. ASSUME NEW d \in Ctxs, NEW v \in Threads
          PROVE  curThread'[d] = v <=> state'[v] \in {"RUNNING", "OUT"} /\ cid'[v] = d
      <4>1. state'[v] \in {"RUNNING", "OUT"} <=> v # t /\ state[v] \in {"RUNNING", "OUT"}
        BY <2>1, <2>6 DEF States
      <4> QED
        BY <1>1, <1>5, <2>1, <2>2, <4>1, SchedulerAssumption DEF Core, ContextsExact
    <3>2. freeList' = Ctxs \ Scheduled'
      BY <1>5, <2>1, <2>2 DEF Core, ContextsExact, Scheduled
    <3>3. outQueue' = {v \in Threads : state'[v] = "OUT"}
      BY <1>1, <2>1, <2>6 DEF Core, ContextsExact, States
    <3> QED
      BY <3>1, <3>2, <3>3 DEF ContextsExact
  <2>8. WorkConserving'
    <3> SUFFICES ASSUME NEW v \in runQueue', NEW d \in Mask[v]
                 PROVE  curThread'[d] # NoThread /\ state'[curThread'[d]] = "RUNNING"
      BY DEF WorkConserving
    <3>1. v \in runQueue /\ v \in Threads /\ d \in Ctxs /\ d # c
      BY <1>1, <1>5, <2>4, SchedContextForm, SchedulerAssumption DEF EndsPhase, Core, QueueOrder
    <3>2. /\ curThread[d] \in Threads /\ state[curThread[d]] = "RUNNING" /\ curThread[d] # t
          /\ curThread[d] # NoThread
      BY <1>1, <3>1 DEF Core, WorkConserving, CoreTypes, ContextsExact
    <3> QED
      BY <2>1, <2>2, <2>6, <3>1, <3>2 DEF States
  <2> QED
    BY <1>1, <2>1, <2>4, <2>5, <2>6, <2>7, <2>8 DEF Core, EndsPhase, States
<1> QED
  BY <1>4, <1>5 DEF LeaveToSleep

LEMMA LeaveAwakeKeeps ==
  ASSUME Core, NEW t \in Threads, NEW c \in Ctxs, LeaveAwake(t, c)
  PROVE  Core' /\ \A v \in Threads : state[v] = "NONE" => state'[v] = "NONE"
<1>1. /\ state[t] = "RUNNING" /\ curThread[c] = t /\ cid[t] = c
      /\ LeaveAssertion(t, c) /\ IsFiniteSet(Threads)
      /\ UNCHANGED <<gidMap, marked, freeList>>
  BY SchedulerAssumption DEF LeaveAwake, LeaveAssertion, Core, ContextsExact
<1>2. CASE \E u \in SchedContext(c) :
          /\ PassOn(t, c, u, "BLOCKED")
          /\ UNCHANGED <<wakeIn, outQueue, bar, handoff, quantum, sleepQueue>>
  <2>1. PICK u \in SchedContext(c) :
          /\ PassOn(t, c, u, "BLOCKED")
          /\ UNCHANGED <<wakeIn, outQueue, bar, handoff, quantum, sleepQueue>>
    BY <1>2
  <2>2. /\ u \in Threads /\ u \in runQueue /\ u # t /\ state[u] = "QUEUED"
        /\ state' \in [Threads -> States] /\ cid' \in [Threads -> Ctxs]
        /\ futexWord' \in [Threads -> {0, 1}] /\ aborted' \in BOOLEAN
        /\ curThread' \in [Ctxs -> Threads \cup {NoThread}]
        /\ state'[t] = "BLOCKED" /\ state'[u] = "RUNNING"
        /\ \A v \in Threads \ {t, u} : state'[v] = state[v]
        /\ QueueOrder' /\ QueuesExact' /\ ContextsExact' /\ WorkConserving'
    BY <1>1, <2>1, PassOnKeeps
  <2>3. CoreTypes'
    BY <1>1, <2>1, <2>2 DEF Core, CoreTypes
  <2>4. SleepersExact'
    <3>1. {v \in Threads : state'[v] = "SLEEPING"} = {v \in Threads : state[v] = "SLEEPING"}
      BY <1>1, <2>2
    <3> QED
      BY <2>1, <3>1 DEF Core, SleepersExact, NoRepeats, Elements
  <2> QED
    BY <1>1, <2>2, <2>3, <2>4 DEF Core
<1>3. CASE /\ SchedContext(c) = {}
           /\ outQueue' = outQueue \cup {t}
           /\ BarLeave(c, [state EXCEPT ![t] = "OUT"], curThread, sleepQueue)
           /\ UNCHANGED <<cid, curThread>>
  <2> DEFINE st == [state EXCEPT ![t] = "OUT"]
  <2>1. /\ st \in [Threads -> States] /\ curThread \in [Ctxs -> Threads \cup {NoThread}]
        /\ st[t] = "OUT" /\ \A v \in Threads \ {t} : st[v] = state[v]
    BY DEF Core, CoreTypes, States
  <2>2. BarLeave(c, st, curThread, sleepQueue)
    BY <1>3
  <2> HIDE DEF st
  <2>3. MayEnd(st, sleepQueue)
    BY <1>1, <2>1 DEF MayEnd, Core, SleepersExact
  <2>4. EndsPhase(st) /\ bar' \in [Ctxs -> {"out", "running", "done"}]
    BY <2>1, <2>2, <2>3, BarLeaveKeeps DEF Core
  <2>5. CoreTypes'
    BY <1>1, <1>3, <2>4 DEF Core, CoreTypes, EndsPhase
  <2>6. \A v \in Threads, x \in States \ {"SLEEPING", "BLOCKED"} : state'[v] = x <=> st[v] = x
    BY <2>4 DEF EndsPhase
  <2>7. ContextsExact'
    <3>1. ASSUME NEW d \in Ctxs, NEW v \in Threads
          PROVE  curThread'[d] = v <=> state'[v] \in {"RUNNING", "OUT"} /\ cid'[v] = d
      <4>1. state'[v] \in {"RUNNING", "OUT"} <=> state[v] \in {"RUNNING", "OUT"}
        BY <1>1, <2>1, <2>6 DEF States
      <4> QED
        BY <1>3, <4>1 DEF Core, ContextsExact
    <3>2. freeList' = Ctxs \ Scheduled'
      BY <1>1, <1>3 DEF Core, ContextsExact, Scheduled
    <3>3. outQueue' = {v \in Threads : state'[v] = "OUT"}
      BY <1>3, <2>1, <2>6 DEF Core, ContextsExact, States
    <3> QED
      BY <3>1, <3>2, <3>3 DEF ContextsExact
  <2>8. WorkConserving'
    <3> SUFFICES ASSUME NEW v \in runQueue', NEW d \in Mask[v]
                 PROVE  curThread'[d] # NoThread /\ state'[curThread'[d]] = "RUNNING"
      BY DEF WorkConserving
    <3>1. v \in runQueue /\ v \in Threads /\ d \in Ctxs /\ d # c
      BY <1>1, <1>3, <2>4, SchedContextForm, SchedulerAssumption DEF EndsPhase, Core, QueueOrder
    <3>2. /\ curThread[d] \in Threads /\ state[curThread[d]] = "RUNNING" /\ curThread[d] # t
          /\ curThread[d] # NoThread
      BY <1>1, <3>1 DEF Core, WorkConserving, CoreTypes, ContextsExact
    <3> QED
      BY <1>3, <2>1, <2>6, <3>1, <3>2 DEF States
  <2> QED
    BY <1>1, <2>1, <2>4, <2>5, <2>6, <2>7, <2>8 DEF Core, EndsPhase, States
<1> QED
  BY <1>2, <1>3 DEF LeaveAwake

LEMMA LeaveKeeps ==
  ASSUME Core, NEW t \in Threads, NEW c \in Ctxs, Leave(t, c)
  PROVE  Core' /\ \A v \in Threads : state[v] = "NONE" => state'[v] = "NONE"
BY LeaveToSleepKeeps, LeaveAwakeKeeps DEF Leave

------------------------------------------------------------------------------
(* start(), join(), sync().                                                *)

(* A step that moves no thread between the scheduler's states keeps Core.  *)
LEMMA QuietKeeps ==
  ASSUME Core, UNCHANGED <<state, cid, handoff, curThread, freeList, outQueue,
                           runQueue, ahead, sleepQueue>>, CoreTypes'
  PROVE  Core'
<1>1. QueueOrder' /\ QueuesExact'
  BY DEF Core, QueueOrder, QueuesExact
<1>2. SleepersExact'
  BY DEF Core, SleepersExact, NoRepeats, Elements
<1>3. ContextsExact' /\ WorkConserving'
  BY DEF Core, ContextsExact, Scheduled, WorkConserving
<1> QED
  BY <1>1, <1>2, <1>3 DEF Core

LEMMA StartKeeps ==
  ASSUME Core, CallTypes, UnknownOutside, NEW t \in Threads, Start(t)
  PROVE  Core'
<1>1. /\ state[t] = "NONE" /\ pc[t] = "none"
      /\ state' = [state EXCEPT ![t] = "STARTED"]
      /\ cid' = [cid EXCEPT ![t] = 0]
      /\ handoff' = [handoff EXCEPT ![t] = NoThread]
      /\ UNCHANGED <<curThread, freeList, outQueue, runQueue, ahead, sleepQueue>>
  BY DEF Start, At, UnknownOutside
<1>2. /\ state'[t] = "STARTED" /\ \A v \in Threads \ {t} : state'[v] = state[v]
      /\ handoff'[t] = NoThread /\ \A v \in Threads \ {t} : handoff'[v] = handoff[v]
      /\ \A v \in Threads \ {t} : cid'[v] = cid[v]
  BY <1>1 DEF Core, CoreTypes
<1>3. CoreTypes'
  <2>1. 0 \in Ctxs /\ 0 \in 0 .. MaxSleep
    BY SchedulerAssumption DEF Ctxs
  <2>2. /\ UNCHANGED <<curThread, freeList, outQueue, bar, quantum, aborted>>
        /\ gidMap' = gidMap \cup {t}
        /\ futexWord' = [futexWord EXCEPT ![t] = 0]
        /\ marked' = [marked EXCEPT ![t] = FALSE]
        /\ wakeIn' = [wakeIn EXCEPT ![t] = 0]
    BY DEF Start, wdVars
  <2> QED
    BY <1>1, <2>1, <2>2 DEF Core, CoreTypes, States
<1>4. QueueOrder' /\ QueuesExact'
  BY <1>1, <1>2 DEF Core, CoreTypes, QueueOrder, QueuesExact
<1>5. SleepersExact'
  BY <1>1, <1>2 DEF Core, SleepersExact, NoRepeats, Elements
<1>6. ContextsExact'
  BY <1>1, <1>2 DEF Core, ContextsExact, Scheduled
<1>7. WorkConserving'
  <2>1. \A c \in Ctxs : curThread[c] \in Threads \cup {NoThread}
    BY DEF Core, CoreTypes
  <2>2. \A u \in runQueue : u \in Threads /\ Mask[u] \subseteq Ctxs
    BY SchedulerAssumption DEF Core, QueueOrder
  <2> QED
    BY <1>1, <1>2, <2>1, <2>2 DEF Core, WorkConserving
<1> QED
  BY <1>3, <1>4, <1>5, <1>6, <1>7 DEF Core

LEMMA JoinFromOutKeeps ==
  ASSUME Core, NEW t \in Threads, JoinFromOut(t)
  PROVE  Core'
<1>1. /\ state[t] = "OUT"
      /\ state' = [state EXCEPT ![t] = "RUNNING"]
      /\ outQueue' = outQueue \ {t}
      /\ bar' = [bar EXCEPT ![cid[t]] = "running"]
      /\ UNCHANGED <<gidMap, futexWord, marked, wakeIn, cid, curThread, freeList,
                     runQueue, ahead, handoff, quantum, sleepQueue, aborted>>
  BY DEF JoinFromOut, sleepVars, runVars, wdVars
<1>2. state'[t] = "RUNNING" /\ \A v \in Threads \ {t} : state'[v] = state[v]
  BY <1>1 DEF Core, CoreTypes
<1>3. CoreTypes'
  BY <1>1 DEF Core, CoreTypes, States
<1>4. QueueOrder' /\ QueuesExact'
  BY <1>1, <1>2 DEF Core, CoreTypes, QueueOrder, QueuesExact
<1>5. SleepersExact'
  BY <1>1, <1>2 DEF Core, SleepersExact, NoRepeats, Elements
<1>6. ContextsExact'
  BY <1>1, <1>2 DEF Core, ContextsExact, Scheduled
<1>7. WorkConserving'
  BY <1>1, <1>2 DEF Core, WorkConserving, ContextsExact
<1> QED
  BY <1>3, <1>4, <1>5, <1>6, <1>7 DEF Core

(* The context schedThread finds is free, or its thread is OUT.            *)
LEMMA SchedThreadForm ==
  ASSUME Core, NEW t \in Threads
  PROVE  /\ \A c \in SchedThread(t) :
              /\ c \in Ctxs /\ c \in Mask[t]
              /\ curThread[c] = NoThread \/ state[curThread[c]] = "OUT"
         /\ SchedThread(t) = {} =>
              \A c \in Mask[t] : curThread[c] # NoThread /\ state[curThread[c]] = "RUNNING"
<1>1. Mask[t] \subseteq Ctxs
  BY SchedulerAssumption
<1>2. /\ \A c \in Ctxs : curThread[c] \in Threads \cup {NoThread}
      /\ \A c \in Ctxs : c \in freeList <=> curThread[c] = NoThread
      /\ \A c \in Ctxs, o \in Threads : curThread[c] = o <=> state[o] \in {"RUNNING", "OUT"} /\ cid[o] = c
      /\ \A o \in Threads : o \in outQueue <=> state[o] = "OUT"
      /\ outQueue \subseteq Threads
  BY DEF Core, CoreTypes, ContextsExact, Scheduled
<1>3. ASSUME NEW c \in SchedThread(t)
      PROVE  /\ c \in Ctxs /\ c \in Mask[t]
             /\ curThread[c] = NoThread \/ state[curThread[c]] = "OUT"
  BY <1>1, <1>2, <1>3 DEF SchedThread
<1>4. ASSUME SchedThread(t) = {}, NEW c \in Mask[t]
      PROVE  curThread[c] # NoThread /\ state[curThread[c]] = "RUNNING"
  <2>1. c \notin freeList /\ c \notin {cid[o] : o \in outQueue}
    BY <1>4 DEF SchedThread
  <2> QED
    BY <1>1, <1>2, <2>1
<1> QED
  BY <1>3, <1>4

(* Nobody in the run queue may run on a context that schedThread finds.    *)
LEMMA JoinContextKeeps ==
  ASSUME Core, NEW t \in Threads, JoinContext(t)
  PROVE  Core' /\ \A v \in Threads : state[v] = "NONE" => state'[v] = "NONE"
<1>1. PICK c \in SchedThread(t) : Occupy(t, c)
  BY DEF JoinContext
<1>2. /\ c \in Ctxs /\ c \in Mask[t]
      /\ curThread[c] = NoThread \/ state[curThread[c]] = "OUT"
      /\ state[t] \in {"STARTED", "BLOCKED", "SLEEPING"}
      /\ UNCHANGED <<gidMap, futexWord, marked, wakeIn,
                     runQueue, ahead, handoff, quantum, aborted>>
      /\ sleepQueue' = Without(sleepQueue, t)
  BY <1>1, SchedThreadForm DEF JoinContext, NeedsContext, sleepVars, runVars, wdVars
<1>3. /\ state' = [u \in Threads |->
           IF u = t THEN "RUNNING"
           ELSE IF u \in outQueue /\ cid[u] = c THEN "BLOCKED" ELSE state[u]]
      /\ cid' = [cid EXCEPT ![t] = c]
      /\ curThread' = [curThread EXCEPT ![c] = t]
      /\ freeList' = freeList \ {c}
      /\ outQueue' = {u \in outQueue : cid[u] # c}
      /\ bar' = [bar EXCEPT ![c] = "running"]
  BY <1>1 DEF Occupy
<1>4. /\ state'[t] = "RUNNING" /\ cid'[t] = c
      /\ \A u \in Threads \ {t} :
           /\ cid'[u] = cid[u]
           /\ state'[u] = IF state[u] = "OUT" /\ cid[u] = c THEN "BLOCKED" ELSE state[u]
  BY <1>3 DEF Core, CoreTypes, ContextsExact
<1>5. CoreTypes'
  BY <1>2, <1>3 DEF Core, CoreTypes, States
<1>6. QueueOrder' /\ QueuesExact'
  BY <1>2, <1>4 DEF Core, CoreTypes, QueueOrder, QueuesExact
<1>7. SleepersExact'
  <2>1. /\ sleepQueue' \in Seq(Threads) /\ NoRepeats(sleepQueue')
        /\ Elements(sleepQueue') = Elements(sleepQueue) \ {t}
    BY <1>2, WithoutKeeps DEF Core, SleepersExact
  <2>2. Elements(sleepQueue') = {u \in Threads : state'[u] = "SLEEPING"}
    BY <1>4, <2>1 DEF Core, SleepersExact
  <2> QED
    BY <2>1, <2>2 DEF SleepersExact, NoRepeats, Elements
<1>8. ContextsExact'
  <2>1. ASSUME NEW d \in Ctxs, NEW v \in Threads
        PROVE  curThread'[d] = v <=> state'[v] \in {"RUNNING", "OUT"} /\ cid'[v] = d
    <3>1. curThread[d] = v <=> state[v] \in {"RUNNING", "OUT"} /\ cid[v] = d
      BY DEF Core, ContextsExact
    <3>2. curThread[c] = v <=> state[v] \in {"RUNNING", "OUT"} /\ cid[v] = c
      BY <1>2 DEF Core, ContextsExact
    <3>3. curThread'[d] = IF d = c THEN t ELSE curThread[d]
      BY <1>2, <1>3 DEF Core, CoreTypes
    <3>4. CASE v = t
      BY <1>2, <1>4, <3>1, <3>3, <3>4
    <3>5. CASE v # t
      BY <1>2, <1>4, <3>1, <3>2, <3>3, <3>5, SchedulerAssumption
    <3> QED
      BY <3>4, <3>5
  <2>2. freeList' = Ctxs \ Scheduled'
    BY <1>2, <1>3, SchedulerAssumption DEF Core, CoreTypes, ContextsExact, Scheduled
  <2>3. outQueue' = {v \in Threads : state'[v] = "OUT"}
    BY <1>2, <1>3, <1>4 DEF Core, ContextsExact
  <2> QED
    BY <2>1, <2>2, <2>3 DEF ContextsExact
<1>9. WorkConserving'
  <2> SUFFICES ASSUME NEW v \in runQueue, NEW d \in Mask[v]
               PROVE  curThread'[d] # NoThread /\ state'[curThread'[d]] = "RUNNING"
    BY <1>2 DEF WorkConserving
  <2>1. /\ d \in Ctxs /\ curThread[d] # NoThread /\ curThread[d] \in Threads
        /\ state[curThread[d]] = "RUNNING"
    BY SchedulerAssumption DEF Core, CoreTypes, QueueOrder, WorkConserving
  <2>2. d # c
    BY <1>2, <2>1
  <2>3. curThread'[d] = curThread[d]
    BY <1>3, <2>1, <2>2 DEF Core, CoreTypes
  <2> QED
    BY <1>4, <2>1, <2>3
<1> QED
  BY <1>2, <1>4, <1>5, <1>6, <1>7, <1>8, <1>9 DEF Core

LEMMA JoinRunQueueKeeps ==
  ASSUME Core, NEW t \in Threads, JoinRunQueue(t)
  PROVE  Core' /\ \A v \in Threads : state[v] = "NONE" => state'[v] = "NONE"
<1>1. /\ state[t] \in {"STARTED", "BLOCKED", "SLEEPING"} /\ SchedThread(t) = {}
      /\ state' = [state EXCEPT ![t] = "QUEUED"]
      /\ PushRunQueue(t)
      /\ futexWord' = [futexWord EXCEPT ![t] = 1]
      /\ sleepQueue' = Without(sleepQueue, t)
      /\ UNCHANGED <<gidMap, marked, wakeIn, cid, curThread, freeList, outQueue, bar,
                     handoff, quantum, aborted>>
  BY DEF JoinRunQueue, NeedsContext, wdVars
<1>2. state'[t] = "QUEUED" /\ \A v \in Threads \ {t} : state'[v] = state[v]
  BY <1>1 DEF Core, CoreTypes
<1>3. CoreTypes'
  BY <1>1 DEF Core, CoreTypes, States
<1>4. QueueOrder' /\ runQueue' = runQueue \cup {t}
  BY <1>1, PushKeeps DEF Core, QueuesExact
<1>5. QueuesExact'
  BY <1>1, <1>2, <1>4 DEF Core, CoreTypes, QueuesExact, QueueOrder
<1>6. SleepersExact'
  <2>1. /\ sleepQueue' \in Seq(Threads) /\ NoRepeats(sleepQueue')
        /\ Elements(sleepQueue') = Elements(sleepQueue) \ {t}
    BY <1>1, WithoutKeeps DEF Core, SleepersExact
  <2>2. Elements(sleepQueue') = {u \in Threads : state'[u] = "SLEEPING"}
    BY <1>2, <2>1 DEF Core, SleepersExact
  <2> QED
    BY <2>1, <2>2 DEF SleepersExact, NoRepeats, Elements
<1>7. ContextsExact'
  BY <1>1, <1>2 DEF Core, ContextsExact, Scheduled
<1>8. WorkConserving'
  <2> SUFFICES ASSUME NEW v \in runQueue', NEW d \in Mask[v]
               PROVE  curThread[d] # NoThread /\ state'[curThread[d]] = "RUNNING"
    BY <1>1 DEF WorkConserving
  <2>1. v \in Threads /\ d \in Ctxs
    BY <1>4, SchedulerAssumption DEF Core, QueueOrder
  <2>2. curThread[d] # NoThread /\ state[curThread[d]] = "RUNNING"
    BY <1>1, <1>4, SchedThreadForm DEF Core, WorkConserving
  <2> QED
    BY <1>1, <1>2, <2>1, <2>2 DEF Core, CoreTypes
<1> QED
  BY <1>1, <1>2, <1>3, <1>4, <1>5, <1>6, <1>7, <1>8 DEF Core

(* A phase that ends and changes no thread's context.                      *)
LEMMA PhaseKeeps ==
  ASSUME Core, EndsPhase(state), bar' \in [Ctxs -> {"out", "running", "done"}],
         UNCHANGED <<gidMap, marked, cid, curThread, freeList, outQueue>>
  PROVE  Core' /\ \A v \in Threads : state[v] = "NONE" => state'[v] = "NONE"
<1>1. CoreTypes'
  BY DEF Core, CoreTypes, EndsPhase
<1>2. \A v \in Threads, x \in States \ {"SLEEPING", "BLOCKED"} : state'[v] = x <=> state[v] = x
  BY DEF EndsPhase
<1>3. ContextsExact'
  BY <1>2 DEF Core, ContextsExact, Scheduled, States
<1>4. WorkConserving'
  <2> SUFFICES ASSUME NEW v \in runQueue', NEW d \in Mask[v]
               PROVE  curThread[d] # NoThread /\ state'[curThread[d]] = "RUNNING"
    BY DEF WorkConserving
  <2>1. /\ curThread[d] # NoThread /\ curThread[d] \in Threads
        /\ state[curThread[d]] = "RUNNING"
    BY SchedulerAssumption DEF Core, CoreTypes, QueueOrder, WorkConserving, EndsPhase
  <2> QED
    BY <1>2, <2>1 DEF States
<1> QED
  BY <1>1, <1>2, <1>3, <1>4 DEF Core, EndsPhase, States

LEMMA StateMayEnd == ASSUME Core PROVE MayEnd(state, sleepQueue)
BY DEF MayEnd, Core, CoreTypes, SleepersExact

LEMMA SyncKeeps ==
  ASSUME Core, NEW t \in Threads, Sync(t)
  PROVE  Core' /\ \A v \in Threads : state[v] = "NONE" => state'[v] = "NONE"
<1> DEFINE b == [bar EXCEPT ![cid[t]] = "done"]
<1>1. /\ b \in [Ctxs -> {"out", "running", "done"}]
      /\ curThread \in [Ctxs -> Threads \cup {NoThread}]
  BY DEF Core, CoreTypes
<1>2. EndPhaseIfDone(b, state, curThread, sleepQueue)
  BY DEF Sync
<1> HIDE DEF b
<1>3. EndsPhase(state) /\ bar' \in [Ctxs -> {"out", "running", "done"}]
  BY <1>1, <1>2, StateMayEnd, EndPhaseKeeps DEF Core
<1> QED
  BY <1>3, PhaseKeeps DEF Sync

LEMMA TimeForwardKeeps ==
  ASSUME Core, TimeForward
  PROVE  Core' /\ \A v \in Threads : state[v] = "NONE" => state'[v] = "NONE"
<1>1. curThread \in [Ctxs -> Threads \cup {NoThread}]
  BY DEF Core, CoreTypes
<1>2. EndsPhase(state)
  BY <1>1, StateMayEnd, CallbackKeeps DEF Core, TimeForward
<1> QED
  BY <1>2, PhaseKeeps DEF TimeForward, Core, CoreTypes

(* The end of a sleep: notifySleepEnd.                                     *)
LEMMA EndSleepKeeps ==
  ASSUME Core, NEW t \in Threads, state[t] \in {"SLEEPING", "BLOCKED"},
         state' = [state EXCEPT ![t] = "BLOCKED"],
         sleepQueue' = Without(sleepQueue, t),
         UNCHANGED <<gidMap, sleepVars, cid, curThread, freeList, outQueue, bar,
                     runVars, aborted>>
  PROVE  Core'
<1>1. state'[t] = "BLOCKED" /\ \A v \in Threads \ {t} : state'[v] = state[v]
  BY DEF Core, CoreTypes
<1>2. CoreTypes'
  BY DEF Core, CoreTypes, States, sleepVars, runVars
<1>3. QueueOrder' /\ QueuesExact'
  BY <1>1 DEF Core, CoreTypes, QueueOrder, QueuesExact, runVars
<1>4. SleepersExact'
  <2>1. /\ sleepQueue' \in Seq(Threads) /\ NoRepeats(sleepQueue')
        /\ Elements(sleepQueue') = Elements(sleepQueue) \ {t}
    BY WithoutKeeps DEF Core, SleepersExact
  <2>2. Elements(sleepQueue') = {u \in Threads : state'[u] = "SLEEPING"}
    BY <1>1, <2>1 DEF Core, SleepersExact
  <2> QED
    BY <2>1, <2>2 DEF SleepersExact, NoRepeats, Elements
<1>5. ContextsExact'
  BY <1>1 DEF Core, ContextsExact, Scheduled
<1>6. WorkConserving'
  <2> SUFFICES ASSUME NEW v \in runQueue, NEW d \in Mask[v]
               PROVE  curThread[d] # NoThread /\ state'[curThread[d]] = "RUNNING"
    BY DEF WorkConserving, runVars
  <2> QED
    BY <1>1, QueuedCores
<1> QED
  BY <1>2, <1>3, <1>4, <1>5, <1>6 DEF Core

(* A thread goes: its context, if it still has one, is nobody's.           *)
LEMMA DeleteKeeps ==
  ASSUME Core, NEW t \in Threads, Finishes(t), Delete(t), gidMap' \subseteq gidMap
  PROVE  Core' /\ \A v \in Threads : (v = t \/ state[v] = "NONE") => state'[v] = "NONE"
<1>1. /\ state' = [state EXCEPT ![t] = "NONE"]
      /\ outQueue' = outQueue \ {t}
      /\ UNCHANGED <<futexWord, marked, wakeIn, cid, bar, handoff, quantum, sleepQueue, aborted>>
  BY DEF Delete, sleepVars
<1>2. state'[t] = "NONE" /\ \A v \in Threads \ {t} : state'[v] = state[v]
  BY <1>1 DEF Core, CoreTypes
<1>3. state[t] \in {"STARTED", "OUT", "BLOCKED", "QUEUED"} /\ (state[t] = "QUEUED" => t \in runQueue)
  BY DEF Finishes
<1>4. QueueOrder' /\ runQueue' = runQueue \ {t}
  <2>1. CASE t \in runQueue
    BY <2>1, PopKeeps DEF Delete, Core
  <2>2. CASE t \notin runQueue
    BY <2>2 DEF Delete, Core, QueueOrder
  <2> QED
    BY <2>1, <2>2
<1>5. /\ curThread' \in [Ctxs -> Threads \cup {NoThread}] /\ freeList' \subseteq Ctxs
      /\ \A d \in Ctxs : curThread'[d] = IF state[t] = "OUT" /\ d = cid[t] THEN NoThread ELSE curThread[d]
      /\ \A d \in Ctxs : d \in freeList' <=> d \in freeList \/ (state[t] = "OUT" /\ d = cid[t])
  BY DEF Delete, Core, CoreTypes, ContextsExact
<1>6. CoreTypes'
  BY <1>1, <1>5 DEF Core, CoreTypes, States
<1>7. QueuesExact'
  BY <1>1, <1>2, <1>3, <1>4 DEF Core, CoreTypes, QueuesExact, QueueOrder
<1>8. SleepersExact'
  BY <1>1, <1>2, <1>3 DEF Core, SleepersExact, NoRepeats, Elements
<1>9. ContextsExact'
  <2>1. ASSUME NEW d \in Ctxs, NEW v \in Threads
        PROVE  curThread'[d] = v <=> state'[v] \in {"RUNNING", "OUT"} /\ cid'[v] = d
    <3>1. curThread[d] = v <=> state[v] \in {"RUNNING", "OUT"} /\ cid[v] = d
      BY DEF Core, ContextsExact
    <3>2. curThread[d] = t <=> state[t] \in {"RUNNING", "OUT"} /\ cid[t] = d
      BY DEF Core, ContextsExact
    <3>3. CASE v = t
      BY <1>1, <1>2, <1>3, <1>5, <3>2, <3>3, SchedulerAssumption
    <3>4. CASE v # t
      BY <1>1, <1>2, <1>3, <1>5, <3>1, <3>2, <3>4, SchedulerAssumption
    <3> QED
      BY <3>3, <3>4
  <2>2. freeList' = Ctxs \ Scheduled'
    BY <1>5 DEF Core, ContextsExact, Scheduled
  <2>3. outQueue' = {v \in Threads : state'[v] = "OUT"}
    BY <1>1, <1>2 DEF Core, ContextsExact
  <2> QED
    BY <2>1, <2>2, <2>3 DEF ContextsExact
<1>10. WorkConserving'
  <2> SUFFICES ASSUME NEW v \in runQueue, NEW d \in Mask[v]
               PROVE  curThread'[d] # NoThread /\ state'[curThread'[d]] = "RUNNING"
    BY <1>4 DEF WorkConserving
  <2>1. /\ curThread[d] # NoThread /\ curThread[d] \in Threads /\ d \in Ctxs
        /\ state[curThread[d]] = "RUNNING"
    BY QueuedCores
  <2>2. state[t] = "OUT" => curThread[cid[t]] = t /\ cid[t] \in Ctxs
    BY DEF Core, ContextsExact, CoreTypes
  <2> QED
    BY <1>2, <1>3, <1>5, <2>1, <2>2
<1> QED
  BY <1>2, <1>4, <1>6, <1>7, <1>8, <1>9, <1>10 DEF Core

(* The handoff at the end of sync: dst gets t's context, and t another one *)
(* or a place in the run queue.                                            *)
LEMMA HandOffKeeps ==
  ASSUME Core, NEW t \in Threads, HandOff(t)
  PROVE  /\ Core'
         /\ \A v \in Threads : state[v] = "NONE" => state'[v] = "NONE"
<1> DEFINE dst == handoff[t]
           c == cid[t]
<1>1. /\ dst # NoThread /\ dst \in Threads /\ state[dst] = "QUEUED" /\ dst \notin runQueue
      /\ state[t] = "RUNNING" /\ curThread[c] = t /\ c \in Ctxs /\ dst # t
      /\ \A v \in Threads : v # t => handoff[v] # dst
      /\ \A d \in Ctxs : curThread[d] # dst /\ (curThread[d] = t => d = c)
  BY DEF HandOff, Returns, ReturnAssertion, Core, CoreTypes, QueuesExact, ContextsExact
<1>2. /\ aborted' \in BOOLEAN
      /\ handoff' = [handoff EXCEPT ![t] = NoThread]
      /\ UNCHANGED <<gidMap, marked, wakeIn, quantum, sleepQueue>>
  BY DEF HandOff
<1>3. handoff'[t] = NoThread /\ \A v \in Threads \ {t} : handoff'[v] = handoff[v]
  BY <1>2 DEF Core, CoreTypes
<1>4. ASSUME NEW v \in runQueue, NEW d \in Mask[v]
      PROVE  /\ v \in Threads /\ d \in Ctxs /\ curThread[d] # NoThread
             /\ curThread[d] \in Threads /\ state[curThread[d]] = "RUNNING"
  BY QueuedCores
<1>5. ASSUME NEW d \in SchedThread(t),
             state' = [u \in Threads |->
               IF u = t THEN "RUNNING"
               ELSE IF u \in outQueue /\ cid[u] = d THEN "BLOCKED"
               ELSE [state EXCEPT ![dst] = "RUNNING", ![t] = "QUEUED"][u]],
             cid' = [cid EXCEPT ![dst] = c, ![t] = d],
             curThread' = [[curThread EXCEPT ![c] = dst] EXCEPT ![d] = t],
             freeList' = freeList \ {d},
             outQueue' = {u \in outQueue : cid[u] # d},
             bar' = [bar EXCEPT ![d] = "running"],
             futexWord' = [futexWord EXCEPT ![dst] = 0],
             UNCHANGED <<runQueue, ahead>>
      PROVE  /\ Core'
             /\ \A v \in Threads : state[v] = "NONE" => state'[v] = "NONE"
  <2>1. /\ d \in Ctxs /\ d \in Mask[t] /\ d # c
        /\ curThread[d] = NoThread \/ state[curThread[d]] = "OUT"
    BY <1>1, SchedThreadForm, SchedulerAssumption
  <2>2. /\ state'[t] = "RUNNING" /\ state'[dst] = "RUNNING"
        /\ cid'[t] = d /\ cid'[dst] = c
        /\ \A u \in Threads \ {t, dst} :
             /\ cid'[u] = cid[u]
             /\ state'[u] = IF state[u] = "OUT" /\ cid[u] = d THEN "BLOCKED" ELSE state[u]
    BY <1>1, <1>5 DEF Core, CoreTypes, ContextsExact
  <2>3. /\ curThread'[c] = dst /\ curThread'[d] = t
        /\ \A e \in Ctxs \ {c, d} : curThread'[e] = curThread[e]
    BY <1>1, <1>5, <2>1 DEF Core, CoreTypes
  <2>4. CoreTypes'
    <3>1. state' \in [Threads -> States]
      BY <1>5 DEF Core, CoreTypes, States
    <3>2. cid' \in [Threads -> Ctxs] /\ curThread' \in [Ctxs -> Threads \cup {NoThread}]
      BY <1>1, <1>5, <2>1 DEF Core, CoreTypes
    <3> QED
      BY <1>2, <1>5, <3>1, <3>2 DEF Core, CoreTypes
  <2>5. QueueOrder' /\ QueuesExact'
    <3>1. \A u \in Threads \ {dst} : state[u] = "QUEUED" => state'[u] = "QUEUED"
      BY <1>1, <2>2
    <3>2. UNCHANGED <<runQueue, ahead>> /\ QueueOrder /\ QueuesExact
      BY <1>5 DEF Core
    <3> QED
      BY <1>1, <1>3, <3>1, <3>2 DEF Core, CoreTypes, QueueOrder, QueuesExact
  <2>6. SleepersExact'
    <3>1. {v \in Threads : state'[v] = "SLEEPING"} = {v \in Threads : state[v] = "SLEEPING"}
      BY <1>1, <2>2
    <3> QED
      BY <1>2, <3>1 DEF Core, SleepersExact, NoRepeats, Elements
  <2>7. ContextsExact'
    <3>1. ASSUME NEW e \in Ctxs, NEW v \in Threads
          PROVE  curThread'[e] = v <=> state'[v] \in {"RUNNING", "OUT"} /\ cid'[v] = e
      <4>1. curThread[e] = v <=> state[v] \in {"RUNNING", "OUT"} /\ cid[v] = e
        BY DEF Core, ContextsExact
      <4>2. curThread[d] = v <=> state[v] \in {"RUNNING", "OUT"} /\ cid[v] = d
        BY <2>1 DEF Core, ContextsExact
      <4>3. CASE v = t
        BY <1>1, <2>1, <2>2, <2>3, <4>1, <4>3
      <4>4. CASE v = dst
        BY <1>1, <2>1, <2>2, <2>3, <4>1, <4>4
      <4>5. CASE v \notin {t, dst}
        <5>1. CASE e = c
          BY <1>1, <2>1, <2>2, <2>3, <4>1, <4>5, <5>1
        <5>2. CASE e = d
          BY <2>1, <2>2, <2>3, <4>1, <4>2, <4>5, <5>2, SchedulerAssumption
        <5>3. CASE e \notin {c, d}
          BY <2>1, <2>2, <2>3, <4>1, <4>2, <4>5, <5>3
        <5> QED
          BY <5>1, <5>2, <5>3
      <4> QED
        BY <4>3, <4>4, <4>5
    <3>2. freeList' = Ctxs \ Scheduled'
      <4>1. \A e \in Ctxs : e \in freeList <=> curThread[e] = NoThread
        BY DEF Core, ContextsExact, Scheduled
      <4>2. \A e \in Ctxs : curThread'[e] = NoThread <=> e # d /\ curThread[e] = NoThread
        BY <1>1, <2>1, <2>3, SchedulerAssumption
      <4> QED
        BY <1>5, <4>1, <4>2 DEF Core, CoreTypes, Scheduled
    <3>3. outQueue' = {v \in Threads : state'[v] = "OUT"}
      <4>1. \A v \in Threads : state'[v] = "OUT" <=> state[v] = "OUT" /\ cid[v] # d
        BY <1>1, <2>2
      <4>2. outQueue' = {u \in outQueue : cid[u] # d} /\ outQueue = {v \in Threads : state[v] = "OUT"}
        BY <1>5 DEF Core, ContextsExact
      <4> QED
        BY <4>1, <4>2
    <3> QED
      BY <3>1, <3>2, <3>3 DEF ContextsExact
  <2>8. WorkConserving'
    <3> SUFFICES ASSUME NEW v \in runQueue, NEW e \in Mask[v]
                 PROVE  curThread'[e] # NoThread /\ state'[curThread'[e]] = "RUNNING"
      BY <1>5 DEF WorkConserving
    <3>1. /\ e \in Ctxs /\ curThread[e] # NoThread
          /\ curThread[e] \in Threads /\ state[curThread[e]] = "RUNNING"
      BY <1>4
    <3>2. e # d
      BY <2>1, <3>1
    <3>3. CASE e = c
      BY <1>1, <2>2, <2>3, <3>3
    <3>4. CASE e # c
      BY <1>1, <2>2, <2>3, <3>1, <3>2, <3>4
    <3> QED
      BY <3>3, <3>4
  <2> QED
    BY <1>1, <2>2, <2>4, <2>5, <2>6, <2>7, <2>8 DEF Core
<1>6. ASSUME SchedThread(t) = {},
             state' = [state EXCEPT ![dst] = "RUNNING", ![t] = "QUEUED"],
             cid' = [cid EXCEPT ![dst] = c],
             curThread' = [curThread EXCEPT ![c] = dst],
             PushRunQueue(t),
             futexWord' = [futexWord EXCEPT ![dst] = 0, ![t] = 1],
             UNCHANGED <<freeList, outQueue, bar>>
      PROVE  /\ Core'
             /\ \A v \in Threads : state[v] = "NONE" => state'[v] = "NONE"
  <2>1. /\ state'[t] = "QUEUED" /\ state'[dst] = "RUNNING" /\ cid'[dst] = c
        /\ \A u \in Threads \ {t, dst} : state'[u] = state[u]
        /\ \A u \in Threads \ {dst} : cid'[u] = cid[u]
        /\ curThread'[c] = dst /\ \A e \in Ctxs \ {c} : curThread'[e] = curThread[e]
    BY <1>1, <1>6 DEF Core, CoreTypes
  <2>2. CoreTypes'
    BY <1>1, <1>2, <1>6 DEF Core, CoreTypes, States
  <2>3. QueueOrder' /\ runQueue' = runQueue \cup {t}
    BY <1>1, <1>6, PushKeeps DEF Core, QueuesExact
  <2>4. QueuesExact'
    BY <1>1, <1>3, <2>1, <2>3 DEF Core, CoreTypes, QueueOrder, QueuesExact
  <2>5. SleepersExact'
    <3>1. {v \in Threads : state'[v] = "SLEEPING"} = {v \in Threads : state[v] = "SLEEPING"}
      BY <1>1, <2>1
    <3> QED
      BY <1>2, <3>1 DEF Core, SleepersExact, NoRepeats, Elements
  <2>6. ContextsExact'
    <3>1. ASSUME NEW e \in Ctxs, NEW v \in Threads
          PROVE  curThread'[e] = v <=> state'[v] \in {"RUNNING", "OUT"} /\ cid'[v] = e
      <4>1. curThread[e] = v <=> state[v] \in {"RUNNING", "OUT"} /\ cid[v] = e
        BY DEF Core, ContextsExact
      <4>2. CASE v = t
        BY <1>1, <2>1, <4>1, <4>2
      <4>3. CASE v = dst
        BY <1>1, <2>1, <4>1, <4>3
      <4>4. CASE v \notin {t, dst}
        BY <1>1, <2>1, <4>1, <4>4
      <4> QED
        BY <4>2, <4>3, <4>4
    <3>2. freeList' = Ctxs \ Scheduled'
      <4>1. \A e \in Ctxs : e \in freeList <=> curThread[e] = NoThread
        BY DEF Core, ContextsExact, Scheduled
      <4>2. \A e \in Ctxs : curThread'[e] = NoThread <=> curThread[e] = NoThread
        BY <1>1, <2>1, SchedulerAssumption
      <4> QED
        BY <1>6, <4>1, <4>2 DEF Core, CoreTypes, Scheduled
    <3>3. outQueue' = {v \in Threads : state'[v] = "OUT"}
      <4>1. \A v \in Threads : state'[v] = "OUT" <=> state[v] = "OUT"
        BY <1>1, <2>1
      <4>2. outQueue' = outQueue /\ outQueue = {v \in Threads : state[v] = "OUT"}
        BY <1>6 DEF Core, ContextsExact
      <4> QED
        BY <4>1, <4>2
    <3> QED
      BY <3>1, <3>2, <3>3 DEF ContextsExact
  <2>7. WorkConserving'
    <3> SUFFICES ASSUME NEW v \in runQueue', NEW e \in Mask[v]
                 PROVE  curThread'[e] # NoThread /\ state'[curThread'[e]] = "RUNNING"
      BY DEF WorkConserving
    <3>1. /\ e \in Ctxs /\ curThread[e] # NoThread
          /\ curThread[e] \in Threads /\ state[curThread[e]] = "RUNNING"
      <4>1. CASE v \in runQueue
        BY <1>4, <4>1
      <4>2. CASE v = t
        <5>1. e \in Ctxs
          BY <4>2, SchedulerAssumption
        <5> QED
          BY <1>6, <4>2, <5>1, SchedThreadForm DEF Core, CoreTypes
      <4> QED
        BY <2>3, <4>1, <4>2
    <3>2. CASE e = c
      BY <1>1, <2>1, <3>2
    <3>3. CASE e # c
      BY <1>1, <2>1, <3>1, <3>3
    <3> QED
      BY <3>2, <3>3
  <2> QED
    BY <1>1, <2>1, <2>2, <2>3, <2>4, <2>5, <2>6, <2>7 DEF Core
<1> QED
  BY <1>5, <1>6 DEF HandOff

------------------------------------------------------------------------------
(* Every step keeps the invariant.                                         *)

(* The thread that moves; the others stay where they are.                  *)
LEMMA AtKeeps ==
  ASSUME CallTypes, UnknownOutside, NEW t \in Threads, NEW from, NEW to \in Labels,
         At(t, from, to), to = "none" => state'[t] = "NONE",
         \A v \in Threads \ {t} : state[v] = "NONE" => state'[v] = "NONE"
  PROVE  UnknownOutside' /\ pc' \in [Threads -> Labels]
BY DEF At, CallTypes, UnknownOutside

LEMMA ThreadKeeps ==
  ASSUME AInv, NEW t \in Threads, Thread(t)
  PROVE  AInv'
<1> USE DEF AInv
<1>0. \A from, to : At(t, from, to) => pc' = [pc EXCEPT ![t] = to]
  BY DEF At
<1> DEFINE Known == \A v \in Threads \ {t} : state[v] = "NONE" => state'[v] = "NONE"
<1>1. CASE Start(t)
  <2>1. Known
    BY <1>1 DEF Start, Core, CoreTypes
  <2>2. UnknownOutside' /\ pc' \in [Threads -> Labels]
    BY <1>1, <2>1, AtKeeps DEF Start, Labels
  <2> QED
    BY <1>1, <2>2, StartKeeps DEF Start, CallTypes, wdVars
<1>2. CASE JoinFromFakeLeave(t)
  <2>1. fakeLeaves' \in Seq(Threads)
    BY <1>2, WithoutKeeps DEF JoinFromFakeLeave, CallTypes
  <2>2. UnknownOutside' /\ pc' \in [Threads -> Labels]
    BY <1>2, AtKeeps DEF JoinFromFakeLeave, Labels, ctxVars
  <2>3. CoreTypes'
    BY <1>2 DEF JoinFromFakeLeave, Core, CoreTypes, sleepVars, ctxVars, runVars, wdVars
  <2> QED
    BY <1>2, <2>1, <2>2, <2>3, QuietKeeps
    DEF JoinFromFakeLeave, CallTypes, ctxVars, runVars, wdVars
<1>3. CASE JoinFromOut(t)
  <2>1. Known
    BY <1>3 DEF JoinFromOut, Core, CoreTypes
  <2>2. UnknownOutside' /\ pc' \in [Threads -> Labels]
    BY <1>3, <2>1, AtKeeps DEF JoinFromOut, Labels
  <2> QED
    BY <1>3, <2>2, JoinFromOutKeeps DEF JoinFromOut, CallTypes, wdVars
<1>4. CASE JoinContext(t)
  <2>1. Core' /\ Known
    BY <1>4, JoinContextKeeps
  <2>2. UnknownOutside' /\ pc' \in [Threads -> Labels]
    BY <1>4, <2>1, AtKeeps DEF JoinContext, Labels
  <2> QED
    BY <1>4, <2>1, <2>2 DEF JoinContext, CallTypes, wdVars
<1>5. CASE JoinRunQueue(t)
  <2>1. Core' /\ Known
    BY <1>5, JoinRunQueueKeeps
  <2>2. UnknownOutside' /\ pc' \in [Threads -> Labels]
    BY <1>5, <2>1, AtKeeps DEF JoinRunQueue, Labels
  <2> QED
    BY <1>5, <2>1, <2>2 DEF JoinRunQueue, CallTypes, wdVars
<1>6. CASE WaitReturns(t) \/ SyncReturns(t) \/ SyscallEnter(t) \/ SyscallExit(t) \/ SeesItSleeps(t)
  <2>1. UNCHANGED <<gidMap, sleepVars, ctxVars, runVars, sleepQueue, fakeLeaves, wdVars>>
    BY <1>6 DEF WaitReturns, SyncReturns, SyscallEnter, SyscallExit, SeesItSleeps
  <2>2. UnknownOutside' /\ pc' \in [Threads -> Labels]
    BY <1>6, <2>1, AtKeeps
    DEF WaitReturns, SyncReturns, SyscallEnter, SyscallExit, SeesItSleeps, Labels, ctxVars
  <2>3. CoreTypes'
    BY <2>1 DEF Core, CoreTypes, sleepVars, ctxVars, runVars, wdVars
  <2> QED
    BY <2>1, <2>2, <2>3, QuietKeeps DEF CallTypes, ctxVars, runVars, wdVars
<1>7. CASE Sync(t)
  <2>1. Core' /\ Known
    BY <1>7, SyncKeeps
  <2>2. UnknownOutside' /\ pc' \in [Threads -> Labels]
    BY <1>7, <2>1, AtKeeps DEF Sync, Labels
  <2> QED
    BY <1>7, <2>1, <2>2 DEF Sync, CallTypes
<1>8. CASE HandOff(t)
  <2>1. Core' /\ Known
    BY <1>8, HandOffKeeps
  <2>2. UnknownOutside' /\ pc' \in [Threads -> Labels]
    BY <1>8, <2>1, AtKeeps DEF HandOff, Labels
  <2> QED
    BY <1>8, <2>1, <2>2 DEF HandOff, CallTypes
<1>9. CASE SyscallFakeLeave(t)
  <2>1. fakeLeaves' \in Seq(Threads)
    BY <1>9, AppendProperties DEF SyscallFakeLeave, CallTypes
  <2>2. UnknownOutside' /\ pc' \in [Threads -> Labels]
    BY <1>9, AtKeeps DEF SyscallFakeLeave, Labels, ctxVars
  <2>3. CoreTypes'
    BY <1>9 DEF SyscallFakeLeave, Core, CoreTypes, sleepVars, ctxVars, runVars, wdVars
  <2> QED
    BY <1>9, <2>1, <2>2, <2>3, QuietKeeps
    DEF SyscallFakeLeave, CallTypes, ctxVars, runVars, wdVars
<1>10. CASE SyscallEnterSleep(t) \/ SyscallEnterAgain(t)
  <2>1. /\ UNCHANGED <<gidMap, ctxVars, runVars, sleepQueue, fakeLeaves, wdVars>>
        /\ UNCHANGED sleepVars \/ \E n \in 1 .. MaxSleep : Mark(t, n)
    BY <1>10 DEF SyscallEnterSleep, SyscallEnterAgain
  <2>2. UnknownOutside' /\ pc' \in [Threads -> Labels]
    BY <1>10, <2>1, AtKeeps DEF SyscallEnterSleep, SyscallEnterAgain, Labels, ctxVars
  <2>3. CoreTypes'
    <3>1. /\ futexWord' \in [Threads -> {0, 1}] /\ marked' \in [Threads -> BOOLEAN]
          /\ wakeIn' \in [Threads -> 0 .. MaxSleep]
      <4>1. CASE UNCHANGED sleepVars
        BY <4>1 DEF Core, CoreTypes, sleepVars
      <4>2. ASSUME NEW n \in 1 .. MaxSleep, Mark(t, n)
            PROVE  /\ futexWord' \in [Threads -> {0, 1}] /\ marked' \in [Threads -> BOOLEAN]
                   /\ wakeIn' \in [Threads -> 0 .. MaxSleep]
        <5>1. n \in 0 .. MaxSleep
          BY SchedulerAssumption
        <5> QED
          BY <4>2, <5>1 DEF Core, CoreTypes, Mark
      <4> QED
        BY <2>1, <4>1, <4>2
    <3> QED
      BY <2>1, <3>1 DEF Core, CoreTypes, ctxVars, runVars, wdVars
  <2> QED
    BY <2>1, <2>2, <2>3, QuietKeeps DEF CallTypes, ctxVars, runVars, wdVars
<1>11. CASE SyscallLeaves(t)
  <2>1. cid[t] \in Ctxs
    BY DEF Core, CoreTypes
  <2>2. Core' /\ Known
    BY <1>11, <2>1, LeaveKeeps DEF SyscallLeaves
  <2>3. UnknownOutside' /\ pc' \in [Threads -> Labels]
    BY <1>11, <2>2, AtKeeps DEF SyscallLeaves, Labels
  <2> QED
    BY <1>11, <2>2, <2>3 DEF SyscallLeaves, CallTypes
<1>12. CASE NotifySleepEnd(t)
  <2>1. Known
    BY <1>12 DEF NotifySleepEnd, Core, CoreTypes
  <2>2. UnknownOutside' /\ pc' \in [Threads -> Labels]
    BY <1>12, <2>1, AtKeeps DEF NotifySleepEnd, Labels
  <2>3. state[t] \in {"SLEEPING", "BLOCKED"}
    BY <1>12 DEF NotifySleepEnd, NotifyAssertion, At
  <2>4. Core'
    BY <1>12, <2>3, EndSleepKeeps DEF NotifySleepEnd, wdVars
  <2> QED
    BY <1>12, <2>2, <2>4 DEF NotifySleepEnd, CallTypes, wdVars
<1>13. CASE Finish(t)
  <2>1. CASE /\ FakeLeave(t) \/ state[t] = "RUNNING"
             /\ At(t, pc[t], "finishing")
             /\ fakeLeaves' = Without(fakeLeaves, t)
             /\ UNCHANGED <<sleepVars, ctxVars, runVars, sleepQueue, wdVars>>
    <3>1. fakeLeaves' \in Seq(Threads)
      BY <2>1, WithoutKeeps DEF CallTypes
    <3>2. UnknownOutside' /\ pc' \in [Threads -> Labels]
      BY <2>1, AtKeeps DEF Labels, ctxVars
    <3>3. CoreTypes'
      BY <1>13, <2>1 DEF Finish, Core, CoreTypes, sleepVars, ctxVars, runVars, wdVars
    <3> QED
      BY <2>1, <3>1, <3>2, <3>3, QuietKeeps DEF CallTypes, ctxVars, runVars, wdVars
  <2>2. CASE ~ FakeLeave(t) /\ Finishes(t) /\ At(t, pc[t], "none") /\ Delete(t)
    <3>1. Core' /\ \A v \in Threads : (v = t \/ state[v] = "NONE") => state'[v] = "NONE"
      BY <1>13, <2>2, DeleteKeeps DEF Finish
    <3>2. UnknownOutside' /\ pc' \in [Threads -> Labels]
      BY <2>2, <3>1, AtKeeps DEF Labels
    <3>3. UNCHANGED fakeLeaves /\ wd' \in WdTypes /\ (wd'.job = "leave" => wd'.th \in Threads)
      <4>1. wd' = WdIdle \/ wd' = wd
        BY <2>2 DEF Delete
      <4>2. WdIdle \in WdTypes /\ WdIdle.job = "idle"
        BY SchedulerAssumption DEF WdIdle, WdTypes, Ctxs
      <4> QED
        BY <2>2, <4>1, <4>2 DEF CallTypes, Delete
    <3> QED
      BY <3>1, <3>2, <3>3 DEF CallTypes
  <2> QED
    BY <1>13, <2>1, <2>2 DEF Finish
<1>14. CASE FinishLeaves(t)
  <2>1. cid[t] \in Ctxs
    BY DEF Core, CoreTypes
  <2>2. Core' /\ Known
    BY <1>14, <2>1, LeaveKeeps DEF FinishLeaves
  <2>3. UnknownOutside' /\ pc' \in [Threads -> Labels]
    BY <1>14, <2>2, AtKeeps DEF FinishLeaves, Labels
  <2> QED
    BY <1>14, <2>2, <2>3 DEF FinishLeaves, CallTypes
<1>15. CASE FinishDeletes(t)
  <2>1. Core' /\ \A v \in Threads : (v = t \/ state[v] = "NONE") => state'[v] = "NONE"
    BY <1>15, DeleteKeeps DEF FinishDeletes
  <2>2. UnknownOutside' /\ pc' \in [Threads -> Labels]
    BY <1>15, <2>1, AtKeeps DEF FinishDeletes, Labels
  <2>3. UNCHANGED fakeLeaves /\ wd' \in WdTypes /\ (wd'.job = "leave" => wd'.th \in Threads)
    <3>1. wd' = WdIdle \/ wd' = wd
      BY <1>15 DEF FinishDeletes, Delete
    <3>2. WdIdle \in WdTypes /\ WdIdle.job = "idle"
      BY SchedulerAssumption DEF WdIdle, WdTypes, Ctxs
    <3> QED
      BY <1>15, <3>1, <3>2 DEF CallTypes, FinishDeletes, Delete
  <2> QED
    BY <2>1, <2>2, <2>3 DEF CallTypes
<1> QED
  BY <1>1, <1>2, <1>3, <1>4, <1>5, <1>6, <1>7, <1>8, <1>9, <1>10, <1>11, <1>12,
     <1>13, <1>14, <1>15 DEF Thread

LEMMA WatchdogKeeps ==
  ASSUME AInv, Watchdog
  PROVE  AInv'
<1> USE DEF AInv
<1>1. CASE WdStall \/ WdNext
  <2>1. /\ UNCHANGED <<gidMap, sleepVars, ctxVars, runVars, sleepQueue, pc, aborted>>
        /\ fakeLeaves # <<>> /\ fakeLeaves' = Tail(fakeLeaves)
        /\ \E p : p \in {Pid[t] : t \in Threads} \cup {0} /\ wd' = LeaveJob(Head(fakeLeaves), p)
    <3>1. fakeLeaves # <<>> => Head(fakeLeaves) \in Threads
      BY HeadTailProperties DEF CallTypes
    <3>2. wd.pid \in {Pid[t] : t \in Threads} \cup {0}
      BY DEF CallTypes, WdTypes
    <3> QED
      BY <1>1, <3>1, <3>2 DEF WdStall, WdNext
  <2>2. Head(fakeLeaves) \in Threads /\ fakeLeaves' \in Seq(Threads)
    BY <2>1, HeadTailProperties DEF CallTypes
  <2>3. wd' \in WdTypes /\ wd'.th \in Threads
    BY <2>1, <2>2 DEF LeaveJob, WdTypes, Core, CoreTypes
  <2>4. CoreTypes'
    BY <2>1 DEF Core, CoreTypes, sleepVars, ctxVars, runVars
  <2> QED
    BY <2>1, <2>2, <2>3, <2>4, QuietKeeps DEF CallTypes, UnknownOutside, ctxVars, runVars
<1>2. CASE WdLeave
  <2>1. /\ wd.th \in Threads /\ wd.c \in Ctxs /\ Leave(wd.th, wd.c)
        /\ wd' = [wd EXCEPT !.job = "next"] /\ UNCHANGED <<fakeLeaves, pc>>
    BY <1>2 DEF WdLeave, CallTypes, WdTypes
  <2>2. Core' /\ \A v \in Threads : state[v] = "NONE" => state'[v] = "NONE"
    BY <2>1, LeaveKeeps
  <2>3. wd' \in WdTypes /\ wd'.job # "leave"
    BY <2>1 DEF CallTypes, WdTypes
  <2> QED
    BY <2>1, <2>2, <2>3 DEF CallTypes, UnknownOutside
<1>3. CASE WdStops
  <2>1. wd' \in WdTypes /\ wd'.job # "leave"
    BY <1>3, SchedulerAssumption DEF WdStops, WdIdle, WdTypes, Ctxs
  <2>2. CoreTypes'
    BY <1>3 DEF WdStops, Core, CoreTypes, sleepVars, ctxVars, runVars
  <2> QED
    BY <1>3, <2>1, <2>2, QuietKeeps DEF WdStops, CallTypes, UnknownOutside, ctxVars, runVars
<1>4. CASE TimeForward
  <2>1. Core' /\ \A v \in Threads : state[v] = "NONE" => state'[v] = "NONE"
    BY <1>4, TimeForwardKeeps
  <2> QED
    BY <1>4, <2>1 DEF TimeForward, CallTypes, UnknownOutside
<1>5. ASSUME NEW t \in Threads, Cleanup(t) PROVE AInv'
  <2>1. UnknownOutside' /\ pc' \in [Threads -> Labels]
    BY <1>5, AtKeeps DEF Cleanup, Labels, ctxVars
  <2>2. wd' \in WdTypes /\ wd'.job # "leave"
    <3>1. WdIdle \in WdTypes
      BY SchedulerAssumption DEF WdIdle, WdTypes, Ctxs
    <3>2. wd' = [WdIdle EXCEPT !.job = "cleanup", !.th = t]
      BY <1>5 DEF Cleanup
    <3> QED
      BY <3>1, <3>2 DEF WdTypes
  <2>3. CoreTypes'
    BY <1>5 DEF Cleanup, Core, CoreTypes, sleepVars, ctxVars, runVars
  <2> QED
    BY <1>5, <2>1, <2>2, <2>3, QuietKeeps DEF Cleanup, CallTypes, ctxVars, runVars
<1>6. ASSUME NEW t \in Threads, CleanupWakes(t) PROVE AInv'
  <2>1. \A v \in Threads \ {t} : state[v] = "NONE" => state'[v] = "NONE"
    BY <1>6 DEF CleanupWakes, Core, CoreTypes
  <2>2. UnknownOutside' /\ pc' \in [Threads -> Labels]
    BY <1>6, <2>1, AtKeeps DEF CleanupWakes, Labels
  <2>3. state[t] \in {"SLEEPING", "BLOCKED"}
    BY <1>6 DEF CleanupWakes, NotifyAssertion, At
  <2>4. Core'
    BY <1>6, <2>3, EndSleepKeeps DEF CleanupWakes, wdVars
  <2> QED
    BY <1>6, <2>2, <2>4 DEF CleanupWakes, CallTypes, wdVars
<1> QED
  BY <1>1, <1>2, <1>3, <1>4, <1>5, <1>6 DEF Watchdog

LEMMA AInvInit == Init => AInv
<1> SUFFICES ASSUME Init PROVE AInv
  OBVIOUS
<1>1. CoreTypes
  <2>1. 0 \in Ctxs /\ 0 \in 0 .. MaxSleep /\ 0 \in 0 .. SchedQuantum - 1
    BY SchedulerAssumption DEF Ctxs
  <2> QED
    BY <2>1 DEF Init, CoreTypes, States
<1>2. CallTypes
  <2>1. WdIdle \in WdTypes /\ WdIdle.job = "idle"
    BY SchedulerAssumption DEF WdIdle, WdTypes, Ctxs
  <2> QED
    BY <2>1 DEF Init, CallTypes, Labels
<1>3. QueueOrder /\ QueuesExact /\ UnknownOutside /\ WorkConserving
  BY DEF Init, QueueOrder, QueuesExact, UnknownOutside, WorkConserving
<1>4. SleepersExact
  <2>1. sleepQueue = <<>> /\ DOMAIN sleepQueue = {} /\ sleepQueue \in Seq(Threads)
    BY DEF Init
  <2> QED
    BY <2>1 DEF Init, SleepersExact, NoRepeats, Elements
<1>5. ContextsExact
  BY SchedulerAssumption DEF Init, ContextsExact, Scheduled
<1> QED
  BY <1>1, <1>2, <1>3, <1>4, <1>5 DEF AInv, Core

LEMMA AInvStep == AInv /\ [Next]_vars => AInv'
<1> SUFFICES ASSUME AInv, [Next]_vars PROVE AInv'
  OBVIOUS
<1> USE DEF AInv
<1>1. ASSUME UNCHANGED <<gidMap, sleepVars, ctxVars, runVars, sleepQueue, fakeLeaves, wd>>,
             aborted' \in BOOLEAN, pc' \in [Threads -> Labels],
             \A t \in Threads : pc'[t] = "none" => pc[t] = "none"
      PROVE  AInv'
  <2>1. CoreTypes'
    BY <1>1 DEF Core, CoreTypes, sleepVars, ctxVars, runVars
  <2> QED
    BY <1>1, <2>1, QuietKeeps DEF CallTypes, UnknownOutside, ctxVars, runVars
<1>2. ASSUME NEW p \in Mortal, Kill(p) PROVE AInv'
  <2>1. pc' \in [Threads -> Labels] /\ \A t \in Threads : pc'[t] = "none" => pc[t] = "none"
    BY <1>2 DEF Kill, CallTypes, Labels
  <2> QED
    BY <1>1, <1>2, <2>1 DEF Kill, wdVars, Core, CoreTypes
<1>3. CASE AssertionFails \/ Ended \/ UNCHANGED vars
  BY <1>1, <1>3 DEF AssertionFails, Ended, vars, wdVars, Core, CoreTypes, CallTypes
<1> QED
  BY <1>2, <1>3, ThreadKeeps, WatchdogKeeps DEF Next

(* Types: in any run, with dying processes, stalls and calls without a join*)
(* between them, the queues name threads that exist and the run queue is   *)
(* in an order.                                                            *)
THEOREM TypeCorrect == Spec => []TypeOK
<1>1. Spec => []AInv
  BY AInvInit, AInvStep, PTL DEF Spec
<1> QED
  BY <1>1, TypesSplit, PTL

(* join, leave, sync, finish and the watchdog's cleanup keep the contexts, *)
(* the free list and the OUT queue exact, for any number of threads and    *)
(* cores, and even after an assertion has failed.                          *)
THEOREM ContextsAreExact == Spec => []ContextsExact
<1>1. Spec => []AInv
  BY AInvInit, AInvStep, PTL DEF Spec
<1>2. AInv => ContextsExact
  BY DEF AInv, Core
<1> QED
  BY <1>1, <1>2, PTL

(* schedThread and schedContext never leave a thread in the run queue while*)
(* a context it may run on is free or belongs to a thread that is OUT.     *)
THEOREM WorkIsConserved == Spec => []WorkConserving
<1>1. Spec => []AInv
  BY AInvInit, AInvStep, PTL DEF Spec
<1>2. AInv => WorkConserving
  BY DEF AInv, Core
<1> QED
  BY <1>1, <1>2, PTL

------------------------------------------------------------------------------
(* The inductive invariant of a scheduler that is called as its comments   *)
(* require: nobody leaves for a thread that is in a system call, no process*)
(* dies, and every call is followed by a join.                             *)

NoFaults == Stalls = FALSE /\ Mortal = {} /\ BackToBack = FALSE

(* What a thread's place in its calls says of its scheduling state.        *)
Placed(t) ==
  /\ FakeLeave(t) => pc[t] \in {"join", "syscall"} /\ state[t] = "RUNNING"
  /\ pc[t] = "join" /\ ~FakeLeave(t) => state[t] \in {"OUT", "BLOCKED", "SLEEPING", "STARTED"}
  /\ pc[t] = "syscall" /\ ~FakeLeave(t) => state[t] \in {"OUT", "BLOCKED", "SLEEPING"}
  /\ pc[t] = "wait" => \/ state[t] = "QUEUED" /\ futexWord[t] = 1
                       \/ state[t] = "RUNNING" /\ futexWord[t] = 0
  /\ pc[t] \in {"run", "sync", "leave", "finishing"} => state[t] = "RUNNING"
  /\ pc[t] = "endSleep" => state[t] \in {"SLEEPING", "BLOCKED"}
  /\ pc[t] = "left" => state[t] \in {"OUT", "BLOCKED"}
  /\ pc[t] \notin {"dead", "deadSleep", "doomed"}
  /\ marked[t] => pc[t] = "leave" /\ wakeIn[t] >= 1 /\ futexWord[t] = 1

(* A running thread has a core of its mask, on which the barrier runs or   *)
(* has been told that it is done.                                          *)
RunnersOnCores ==
  \A t \in Threads :
    /\ state[t] \in {"RUNNING", "OUT"} => cid[t] \in Mask[t]
    /\ state[t] = "RUNNING" =>
         bar[cid[t]] = "running" \/ (pc[t] = "sync" /\ bar[cid[t]] = "done")

(* A core is promised by a thread that is about to return from the barrier,*)
(* to a thread that may run there; and a thread that was taken out of the  *)
(* run queue was promised one.                                             *)
PromisesKept ==
  /\ \A v \in Threads : handoff[v] # NoThread =>
       pc[v] = "sync" /\ bar[cid[v]] = "running" /\ cid[v] \in Mask[handoff[v]]
  /\ \A t \in Threads : state[t] = "QUEUED" /\ t \notin runQueue =>
       \E v \in Threads : handoff[v] = t

DueFor(st, sq) ==
  /\ Ordered(sq)
  /\ \A t \in Threads : st[t] = "SLEEPING" => wakeIn[t] >= 1 /\ futexWord[t] = 1

SleepersDue == DueFor(state, sleepQueue)

BInv ==
  /\ ~aborted /\ wd = WdIdle /\ NoRepeats(fakeLeaves)
  /\ \A t \in Threads : Placed(t)
  /\ RunnersOnCores /\ PromisesKept /\ SleepersDue

(* callback() finds that its sleepers are due now and wait, and the threads*)
(* it leaves asleep are due later.                                         *)
LEMMA CallbackWakes ==
  ASSUME CoreTypes, NEW st, NEW sq, MayEnd(st, sq), DueFor(st, sq),
         NEW cur, Callback(st, cur, sq)
  PROVE  /\ SleepersDue'
         /\ \A t \in Threads : st[t] # "SLEEPING" =>
              state'[t] = st[t] /\ futexWord'[t] = futexWord[t]
         /\ \A t \in Threads : state'[t] = st[t] \/ (st[t] = "SLEEPING" /\ state'[t] = "BLOCKED")
         /\ \/ UNCHANGED <<runQueue, ahead, handoff>> /\ ~aborted'
            \/ \E g \in Handovers :
                 /\ SchedTick(cur, g)
                 /\ (\A t \in DOMAIN g : cur[g[t]] # NoThread) => ~aborted'
<1> DEFINE n == Due(sq)
           woken == Firsts(sq, n)
           wakes == \A t \in woken : wakeIn[t] = 1 /\ futexWord[t] = 1
<1>1. wakeIn \in [Threads -> Nat] /\ sq \in Seq(Threads) /\ NoRepeats(sq)
  BY SchedulerAssumption DEF CoreTypes, MayEnd
<1>2. /\ n \in 0 .. Len(sq) /\ \A i \in 1 .. n : wakeIn[sq[i]] <= 1
      /\ n < Len(sq) => wakeIn[sq[n + 1]] > 1
  BY <1>1, DueForm
<1>3. /\ state' = [t \in Threads |-> IF t \in woken THEN "BLOCKED" ELSE st[t]]
      /\ sleepQueue' = Rest(sq, n)
      /\ futexWord' = [t \in Threads |-> IF t \in woken THEN 0 ELSE futexWord[t]]
      /\ wakeIn' = [t \in Threads |-> IF wakeIn[t] > 0 THEN wakeIn[t] - 1 ELSE 0]
      /\ \/ UNCHANGED <<runQueue, ahead, handoff>> /\ aborted' = ~wakes
         \/ \E g \in Handovers :
              /\ SchedTick(cur, g)
              /\ aborted' = ~(wakes /\ \A t \in DOMAIN g : cur[g[t]] # NoThread)
  BY DEF Callback, Firsts, Rest
<1> HIDE DEF n
<1>4. /\ Len(sq) \in Nat /\ DOMAIN sq = 1 .. Len(sq) /\ n \in Nat /\ n <= Len(sq)
      /\ \A i \in DOMAIN sq : sq[i] \in Threads
  BY <1>1, <1>2, LenProperties, ElementOfSeq
<1>5. /\ Rest(sq, n) \in Seq(Threads) /\ NoRepeats(Rest(sq, n)) /\ Ordered(Rest(sq, n))
      /\ woken \subseteq Elements(sq)
      /\ Elements(Rest(sq, n)) = Elements(sq) \ woken
      /\ \A i \in DOMAIN Rest(sq, n) : i + n \in DOMAIN sq /\ Rest(sq, n)[i] = sq[i + n]
  BY <1>1, <1>2, RestKeeps DEF DueFor
<1>6. \A t \in Elements(sq) : t \in Threads /\ st[t] = "SLEEPING" /\ wakeIn[t] >= 1 /\ futexWord[t] = 1
  BY DEF MayEnd, DueFor
<1>7. wakes
  <2>1. \A i \in 1 .. n : sq[i] \in woken /\ wakeIn[sq[i]] = 1 /\ futexWord[sq[i]] = 1
    <3> SUFFICES ASSUME NEW i \in 1 .. n
                 PROVE  sq[i] \in woken /\ wakeIn[sq[i]] = 1 /\ futexWord[sq[i]] = 1
      OBVIOUS
    <3>1. sq[i] \in Elements(sq) /\ sq[i] \in woken
      BY <1>4 DEF Elements, Firsts
    <3> QED
      BY <1>1, <1>2, <1>6, <3>1
  <2> QED
    BY <2>1 DEF Firsts
<1>8. \A i \in DOMAIN Rest(sq, n) : wakeIn[Rest(sq, n)[i]] > 1
  <2> SUFFICES ASSUME NEW i \in DOMAIN Rest(sq, n) PROVE wakeIn[sq[i + n]] > 1
    BY <1>5
  <2>1. i \in Nat /\ i >= 1 /\ i + n \in DOMAIN sq
    BY <1>5, LenProperties
  <2>2. n < Len(sq) /\ n + 1 \in DOMAIN sq /\ (i + n = n + 1 \/ n + 1 < i + n)
    BY <1>4, <2>1
  <2>3. wakeIn[sq[n + 1]] <= wakeIn[sq[i + n]]
    <3>1. CASE i + n = n + 1
      BY <1>1, <1>4, <2>2, <3>1
    <3>2. CASE n + 1 < i + n
      BY <2>1, <2>2, <3>2 DEF DueFor, Ordered
    <3> QED
      BY <2>2, <3>1, <3>2
  <2>4. wakeIn[sq[n + 1]] \in Nat /\ wakeIn[sq[i + n]] \in Nat
    BY <1>1, <1>4, <2>1, <2>2
  <2> QED
    BY <1>2, <2>2, <2>3, <2>4
<1> HIDE DEF woken, wakes
<1>9. Ordered(sleepQueue)'
  <2>1. \A t, u \in Threads : wakeIn[t] <= wakeIn[u] => wakeIn'[t] <= wakeIn'[u]
    BY <1>1, <1>3
  <2>2. \A i \in DOMAIN Rest(sq, n) : Rest(sq, n)[i] \in Threads
    BY <1>4, <1>5
  <2> DEFINE r == Rest(sq, n)
  <2>3. sleepQueue' = r /\ Ordered(r) /\ \A i \in DOMAIN r : r[i] \in Threads
    BY <1>3, <1>5, <2>2
  <2> HIDE DEF r
  <2> QED
    BY <2>1, <2>3 DEF Ordered
<1>10. ASSUME NEW t \in Threads, state'[t] = "SLEEPING"
       PROVE  wakeIn'[t] >= 1 /\ futexWord'[t] = 1
  <2>1. t \notin woken /\ st[t] = "SLEEPING"
    BY <1>3, <1>10
  <2>2. t \in Elements(Rest(sq, n))
    BY <1>5, <2>1 DEF MayEnd
  <2>3. wakeIn[t] > 1 /\ futexWord[t] = 1 /\ wakeIn[t] \in Nat
    BY <1>1, <1>6, <1>5, <1>8, <2>2 DEF Elements
  <2> QED
    BY <1>3, <2>1, <2>3
<1>11. \A t \in Threads : st[t] # "SLEEPING" => state'[t] = st[t] /\ futexWord'[t] = futexWord[t]
  BY <1>3, <1>5, <1>6
<1>12. \A t \in Threads : state'[t] = st[t] \/ (st[t] = "SLEEPING" /\ state'[t] = "BLOCKED")
  BY <1>3, <1>5, <1>6
<1> QED
  BY <1>3, <1>7, <1>9, <1>10, <1>11, <1>12 DEF SleepersDue, DueFor

(* schedTick asks only running threads to hand over, each for one thread   *)
(* that may run on its core; and it asks one for each.                     *)
LEMMA TickPromises ==
  ASSUME Core, NEW cur,
         \A u \in runQueue : \A d \in Mask[u] : cur[d] = curThread[d],
         \A v \in Threads : handoff[v] = NoThread,
         NEW g \in Handovers, SchedTick(cur, g)
  PROVE  /\ \A u \in DOMAIN g : cur[g[u]] # NoThread
         /\ \A v \in Threads : handoff'[v] # NoThread =>
              /\ state[v] = "RUNNING" /\ handoff'[v] \in runQueue
              /\ cid[v] \in Mask[handoff'[v]]
         /\ \A u \in runQueue : u \in runQueue' \/ \E v \in Threads : handoff'[v] = u
<1>1. /\ DOMAIN g \subseteq runQueue
      /\ \A u \in DOMAIN g : g[u] \in Mask[u]
      /\ \A u, w \in DOMAIN g : g[u] = g[w] => u = w
  BY DEF Handovers
<1>2. ASSUME NEW u \in DOMAIN g
      PROVE  /\ cur[g[u]] = curThread[g[u]] /\ curThread[g[u]] \in Threads
             /\ curThread[g[u]] # NoThread /\ g[u] \in Ctxs
             /\ state[curThread[g[u]]] = "RUNNING" /\ cid[curThread[g[u]]] = g[u]
  <2>1. /\ u \in runQueue /\ g[u] \in Mask[u]
    BY <1>1
  <2>2. /\ g[u] \in Ctxs /\ curThread[g[u]] # NoThread
        /\ curThread[g[u]] \in Threads /\ state[curThread[g[u]]] = "RUNNING"
    BY <2>1, QueuedCores
  <2> QED
    BY <2>1, <2>2 DEF Core, ContextsExact
<1>3. \A v \in Threads :
        handoff'[v] = IF \E t \in DOMAIN g : cur[g[t]] = v
                      THEN CHOOSE t \in DOMAIN g : cur[g[t]] = v
                      ELSE NoThread
  BY DEF SchedTick
<1>4. ASSUME NEW v \in Threads, handoff'[v] # NoThread
      PROVE  /\ state[v] = "RUNNING" /\ handoff'[v] \in runQueue
             /\ cid[v] \in Mask[handoff'[v]]
  <2>1. handoff'[v] \in DOMAIN g /\ cur[g[handoff'[v]]] = v
    BY <1>3, <1>4
  <2> QED
    BY <1>1, <1>2, <2>1
<1>5. ASSUME NEW u \in runQueue, u \notin runQueue'
      PROVE  \E v \in Threads : handoff'[v] = u
  <2>1. u \in DOMAIN g
    BY <1>5 DEF SchedTick, PopRunQueue
  <2> DEFINE v == curThread[g[u]]
  <2>2. v \in Threads /\ cur[g[u]] = v
    BY <1>2, <2>1
  <2>3. \A t \in DOMAIN g : cur[g[t]] = v => t = u
    BY <1>1, <1>2, <2>1
  <2>4. handoff'[v] = u
    BY <1>3, <2>1, <2>2, <2>3
  <2> QED
    BY <2>2, <2>4
<1> QED
  BY <1>2, <1>4, <1>5

(* callback(), when no handoff is pending.                                 *)
LEMMA CallbackPromises ==
  ASSUME Core, NEW st, NEW sq, MayEnd(st, sq), DueFor(st, sq),
         NEW cur, \A u \in runQueue : \A d \in Mask[u] : cur[d] = curThread[d],
         \A v \in Threads : handoff[v] = NoThread,
         \A u \in Threads : state[u] = "QUEUED" => u \in runQueue,
         Callback(st, cur, sq)
  PROVE  /\ ~aborted' /\ SleepersDue'
         /\ \A t \in Threads : st[t] # "SLEEPING" =>
              state'[t] = st[t] /\ futexWord'[t] = futexWord[t]
         /\ \A t \in Threads : state'[t] = st[t] \/ (st[t] = "SLEEPING" /\ state'[t] = "BLOCKED")
         /\ \A v \in Threads : handoff'[v] # NoThread =>
              /\ state[v] = "RUNNING" /\ handoff'[v] \in runQueue
              /\ cid[v] \in Mask[handoff'[v]]
         /\ \A u \in Threads : state[u] = "QUEUED" =>
              u \in runQueue' \/ \E v \in Threads : handoff'[v] = u
<1>1. /\ SleepersDue'
      /\ \A t \in Threads : st[t] # "SLEEPING" =>
           state'[t] = st[t] /\ futexWord'[t] = futexWord[t]
      /\ \A t \in Threads : state'[t] = st[t] \/ (st[t] = "SLEEPING" /\ state'[t] = "BLOCKED")
      /\ \/ UNCHANGED <<runQueue, ahead, handoff>> /\ ~aborted'
         \/ \E g \in Handovers :
              /\ SchedTick(cur, g)
              /\ (\A t \in DOMAIN g : cur[g[t]] # NoThread) => ~aborted'
  BY CallbackWakes DEF Core
<1>2. CASE UNCHANGED <<runQueue, ahead, handoff>> /\ ~aborted'
  BY <1>1, <1>2
<1>3. CASE \E g \in Handovers :
             /\ SchedTick(cur, g)
             /\ (\A t \in DOMAIN g : cur[g[t]] # NoThread) => ~aborted'
  BY <1>1, <1>3, TickPromises
<1> QED
  BY <1>1, <1>2, <1>3

(* The thread t, running on its core, is done there or goes: the phase ends*)
(* if all the others are done.                                             *)
LEMMA PhaseKeepsPromises ==
  ASSUME Core, BInv, NEW t \in Threads, state[t] = "RUNNING",
         pc[t] \in {"run", "leave", "finishing"},
         NEW to \in {"sync", "syscall", "left"},
         pc \in [Threads -> Labels], pc' = [pc EXCEPT ![t] = to],
         NEW x \in {"done", "out"}, x = "done" => to = "sync",
         NEW st, \A v \in Threads \ {t} : st[v] = state[v],
         st[t] \in {"RUNNING", "OUT", "SLEEPING"}, st[t] = "RUNNING" <=> x = "done",
         x = "out" => \A u \in runQueue : cid[t] \notin Mask[u],
         NEW cur, \A d \in Ctxs : d # cid[t] \/ x = "done" => cur[d] = curThread[d],
         NEW sq, MayEnd(st, sq), DueFor(st, sq),
         NEW b, b = [bar EXCEPT ![cid[t]] = x],
         EndPhaseIfDone(b, st, cur, sq), UNCHANGED cid,
         QueueOrder', QueuesExact'
  PROVE  /\ ~aborted' /\ SleepersDue' /\ PromisesKept' /\ RunnersOnCores'
         /\ \A v \in Threads : st[v] # "SLEEPING" =>
              state'[v] = st[v] /\ futexWord'[v] = futexWord[v]
         /\ \A v \in Threads : state'[v] = st[v] \/ (st[v] = "SLEEPING" /\ state'[v] = "BLOCKED")
         /\ \A v \in Threads \ {t} : wakeIn'[v] = wakeIn[v] \/ ~marked[v]
         /\ UNCHANGED quantum \/ \A v \in Threads : pc'[v] \notin {"run", "leave"} /\ ~FakeLeave(v)
<1>1. /\ cid \in [Threads -> Ctxs] /\ bar \in [Ctxs -> {"out", "running", "done"}]
      /\ state \in [Threads -> States] /\ handoff \in [Threads -> Threads \cup {NoThread}]
      /\ curThread[cid[t]] = t
      /\ \A v \in Threads \ {t} : state[v] \in {"RUNNING", "OUT"} => cid[v] # cid[t]
  BY DEF Core, CoreTypes, ContextsExact
<1>2. /\ b[cid[t]] = x /\ \A d \in Ctxs \ {cid[t]} : b[d] = bar[d]
      /\ pc'[t] = to /\ \A v \in Threads \ {t} : pc'[v] = pc[v]
  BY <1>1
<1>3. /\ \A v \in Threads : handoff[v] # NoThread =>
           v # t /\ pc[v] = "sync" /\ bar[cid[v]] = "running" /\ cid[v] \in Mask[handoff[v]]
      /\ \A u \in Threads : state[u] = "QUEUED" /\ u \notin runQueue =>
           \E v \in Threads : handoff[v] = u
  BY DEF BInv, PromisesKept
<1>4. \A v \in Threads : pc[v] = "sync" => state[v] = "RUNNING"
  BY DEF BInv, Placed
<1>5. \A v \in Threads : state[v] = "RUNNING" =>
        /\ cid[v] \in Mask[v]
        /\ bar[cid[v]] = "running" \/ (pc[v] = "sync" /\ bar[cid[v]] = "done")
  BY DEF BInv, RunnersOnCores
<1>6. CASE ~ PhaseDone(b)
  <2>1. /\ bar' = b /\ state' = st /\ sleepQueue' = sq
        /\ UNCHANGED <<futexWord, wakeIn, runQueue, ahead, handoff, quantum, aborted>>
    BY <1>6 DEF EndPhaseIfDone, runVars
  <2>2. SleepersDue'
    BY <2>1 DEF SleepersDue, DueFor, Ordered
  <2>3. PromisesKept'
    <3>1. ASSUME NEW v \in Threads, handoff[v] # NoThread
          PROVE  pc'[v] = "sync" /\ bar'[cid[v]] = "running" /\ cid[v] \in Mask[handoff[v]]
      <4>1. v # t /\ pc[v] = "sync" /\ state[v] = "RUNNING"
        BY <1>3, <1>4, <3>1
      <4> QED
        BY <1>1, <1>2, <1>3, <2>1, <3>1, <4>1
    <3>2. \A u \in Threads : state'[u] = "QUEUED" => state[u] = "QUEUED"
      BY <2>1
    <3> QED
      BY <1>3, <2>1, <3>1, <3>2 DEF PromisesKept
  <2>4. RunnersOnCores'
    <3> SUFFICES ASSUME NEW v \in Threads
                 PROVE  /\ st[v] \in {"RUNNING", "OUT"} => cid[v] \in Mask[v]
                        /\ st[v] = "RUNNING" =>
                             b[cid[v]] = "running" \/ (pc'[v] = "sync" /\ b[cid[v]] = "done")
      BY <2>1 DEF RunnersOnCores
    <3>1. state[v] \in {"RUNNING", "OUT"} => cid[v] \in Mask[v]
      BY DEF BInv, RunnersOnCores
    <3>2. CASE v = t
      BY <1>2, <3>1, <3>2
    <3>3. CASE v # t
      BY <1>1, <1>2, <1>5, <3>1, <3>3
    <3> QED
      BY <3>2, <3>3
  <2> QED
    BY <2>1, <2>2, <2>3, <2>4 DEF BInv
<1>7. CASE PhaseDone(b)
  <2>1. /\ bar' = [c \in Ctxs |-> IF b[c] = "done" THEN "running" ELSE b[c]]
        /\ Callback(st, cur, sq)
    BY <1>7 DEF EndPhaseIfDone
  <2>2. \A v \in Threads \ {t} : state[v] = "RUNNING" =>
          pc[v] = "sync" /\ bar[cid[v]] = "done" /\ b[cid[v]] = "done"
    <3> SUFFICES ASSUME NEW v \in Threads \ {t}, state[v] = "RUNNING"
                 PROVE  pc[v] = "sync" /\ bar[cid[v]] = "done" /\ b[cid[v]] = "done"
      OBVIOUS
    <3>1. cid[v] \in Ctxs /\ cid[v] # cid[t] /\ b[cid[v]] = bar[cid[v]]
      BY <1>1, <1>2
    <3>2. b[cid[v]] # "running"
      BY <1>7, <3>1 DEF PhaseDone
    <3> QED
      BY <1>5, <3>1, <3>2
  <2>3. \A v \in Threads : handoff[v] = NoThread
    BY <1>3, <1>4, <2>2
  <2>4. \A u \in Threads : state[u] = "QUEUED" => u \in runQueue
    BY <1>3, <2>3, SchedulerAssumption
  <2>5. \A u \in runQueue : \A d \in Mask[u] : d \in Ctxs /\ cur[d] = curThread[d]
    BY <1>1, QueuedCores
  <2>6. /\ ~aborted' /\ SleepersDue'
        /\ \A v \in Threads : st[v] # "SLEEPING" =>
             state'[v] = st[v] /\ futexWord'[v] = futexWord[v]
        /\ \A v \in Threads : state'[v] = st[v] \/ (st[v] = "SLEEPING" /\ state'[v] = "BLOCKED")
        /\ \A v \in Threads : handoff'[v] # NoThread =>
             /\ state[v] = "RUNNING" /\ handoff'[v] \in runQueue
             /\ cid[v] \in Mask[handoff'[v]]
        /\ \A u \in Threads : state[u] = "QUEUED" =>
             u \in runQueue' \/ \E v \in Threads : handoff'[v] = u
    BY <2>1, <2>3, <2>4, <2>5, CallbackPromises
  <2>7. ASSUME NEW v \in Threads, st[v] = "RUNNING"
        PROVE  pc'[v] = "sync" /\ b[cid[v]] = "done" /\ bar'[cid[v]] = "running"
    <3>1. pc'[v] = "sync" /\ b[cid[v]] = "done"
      BY <1>2, <2>2, <2>7
    <3> QED
      BY <1>1, <2>1, <3>1
  <2>8. PromisesKept'
    <3>1. ASSUME NEW v \in Threads, handoff'[v] # NoThread
          PROVE  pc'[v] = "sync" /\ bar'[cid[v]] = "running" /\ cid[v] \in Mask[handoff'[v]]
      <4>1. st[v] = "RUNNING"
        BY <2>6, <3>1
      <4> QED
        BY <2>6, <2>7, <3>1, <4>1
    <3>2. \A u \in Threads : state'[u] = "QUEUED" => state[u] = "QUEUED"
      BY <2>6
    <3> QED
      BY <2>6, <3>1, <3>2 DEF PromisesKept
  <2>9. RunnersOnCores'
    <3> SUFFICES ASSUME NEW v \in Threads
                 PROVE  /\ state'[v] \in {"RUNNING", "OUT"} => cid[v] \in Mask[v]
                        /\ state'[v] = "RUNNING" => bar'[cid[v]] = "running"
      BY DEF RunnersOnCores
    <3>1. state[v] \in {"RUNNING", "OUT"} => cid[v] \in Mask[v]
      BY DEF BInv, RunnersOnCores
    <3> QED
      BY <2>6, <2>7, <3>1
  <2>10. \A v \in Threads \ {t} : ~marked[v]
    <3>1. \A v \in Threads : marked[v] => pc[v] = "leave" /\ state[v] = "RUNNING"
      BY DEF BInv, Placed
    <3> QED
      BY <2>2, <3>1
  <2>11. \A v \in Threads : pc'[v] \notin {"run", "leave"} /\ ~FakeLeave(v)
    <3>1. \A v \in Threads : /\ pc[v] \in {"run", "leave"} => state[v] = "RUNNING"
                             /\ FakeLeave(v) => state[v] = "RUNNING" /\ pc[v] \in {"join", "syscall"}
      BY DEF BInv, Placed
    <3> QED
      BY <1>2, <2>2, <3>1
  <2> QED
    BY <2>6, <2>8, <2>9, <2>10, <2>11
<1> QED
  BY <1>6, <1>7

------------------------------------------------------------------------------
(* Every step of a scheduler so called keeps that invariant.               *)

(* A thread that another one's step puts to work, blocks or wakes.         *)
LEMMA OthersPlaced ==
  ASSUME CallTypes, UnknownOutside, NEW v \in Threads, Placed(v),
         pc'[v] = pc[v], FakeLeave(v)' <=> FakeLeave(v), marked'[v] = marked[v],
         ~marked[v] \/ (wakeIn'[v] = wakeIn[v] /\ futexWord'[v] = futexWord[v]),
         \/ state'[v] = state[v] /\ futexWord'[v] = futexWord[v]
         \/ state[v] \in {"SLEEPING", "OUT"} /\ state'[v] = "BLOCKED"
         \/ state[v] = "QUEUED" /\ state'[v] = "RUNNING" /\ futexWord'[v] = 0
  PROVE  Placed(v)'
<1>1. pc[v] \in Labels /\ (pc[v] = "none" => state[v] = "NONE")
  BY DEF CallTypes, UnknownOutside
<1> QED
  BY <1>1 DEF Placed, Labels

(* What Placed says of a thread in each scheduling state.                  *)
LEMMA PlacedForm ==
  ASSUME AInv, BInv, NEW v \in Threads
  PROVE  /\ state[v] = "QUEUED" => pc[v] = "wait" /\ futexWord[v] = 1
         /\ state[v] = "RUNNING" => \/ FakeLeave(v)
                                    \/ pc[v] = "wait" /\ futexWord[v] = 0
                                    \/ pc[v] \in {"run", "sync", "leave", "finishing"}
         /\ pc[v] # "sync" => handoff[v] = NoThread
         /\ FakeLeave(v) => pc[v] \in {"join", "syscall"} /\ state[v] = "RUNNING"
         /\ state[v] = "RUNNING" /\ pc[v] # "sync" => bar[cid[v]] = "running"
         /\ marked[v] => pc[v] = "leave" /\ state[v] = "RUNNING"
<1>1. pc[v] \in Labels /\ (pc[v] = "none" => state[v] = "NONE")
  BY DEF AInv, CallTypes, UnknownOutside
<1>2. Placed(v)
  BY DEF BInv
<1>3. handoff[v] # NoThread => pc[v] = "sync"
  BY DEF BInv, PromisesKept
<1>4. state[v] = "RUNNING" => bar[cid[v]] = "running" \/ (pc[v] = "sync" /\ bar[cid[v]] = "done")
  BY DEF BInv, RunnersOnCores
<1> QED
  BY <1>1, <1>2, <1>3, <1>4 DEF Placed, Labels

(* A step of one thread's calls that leaves the contexts and queues alone. *)
LEMMA CallKeeps ==
  ASSUME AInv, BInv, NEW t \in Threads, NEW to,
         pc' = [pc EXCEPT ![t] = to],
         UNCHANGED <<state, cid, handoff, runQueue, sleepQueue, bar, aborted, wd>>,
         NoRepeats(fakeLeaves)', Placed(t)',
         state[t] = "RUNNING" => bar[cid[t]] = "running",
         handoff[t] = NoThread,
         state[t] # "SLEEPING" \/ UNCHANGED sleepVars,
         \A v \in Threads \ {t} : /\ FakeLeave(v)' <=> FakeLeave(v)
                                  /\ marked'[v] = marked[v] /\ wakeIn'[v] = wakeIn[v]
                                  /\ futexWord'[v] = futexWord[v]
  PROVE  BInv'
<1>1. \A v \in Threads \ {t} : pc'[v] = pc[v]
  BY DEF AInv, CallTypes
<1>2. \A v \in Threads : Placed(v)'
  <2>1. ASSUME NEW v \in Threads \ {t} PROVE Placed(v)'
    BY <1>1, OthersPlaced DEF AInv, BInv
  <2> QED
    BY <2>1
<1>3. RunnersOnCores'
  BY <1>1 DEF BInv, RunnersOnCores
<1>4. PromisesKept'
  BY <1>1 DEF BInv, PromisesKept
<1>5. SleepersDue'
  <2>1. \A v \in Threads : state[v] = "SLEEPING" =>
          wakeIn'[v] = wakeIn[v] /\ futexWord'[v] = futexWord[v]
    BY DEF sleepVars
  <2>2. \A i \in DOMAIN sleepQueue : sleepQueue[i] \in Threads /\ state[sleepQueue[i]] = "SLEEPING"
    BY DEF AInv, Core, SleepersExact, Elements
  <2> QED
    BY <2>1, <2>2 DEF BInv, SleepersDue, DueFor, Ordered
<1> QED
  BY <1>2, <1>3, <1>4, <1>5 DEF BInv

LEMMA QuietCallsGood ==
  ASSUME NoFaults, AInv, BInv, NEW t \in Threads,
         \/ WaitReturns(t) \/ SyncReturns(t) \/ SyscallEnter(t) \/ SyscallExit(t)
         \/ SeesItSleeps(t) \/ SyscallEnterAgain(t)
  PROVE  BInv'
<1>1. ~SyscallEnterAgain(t)
  BY DEF NoFaults, SyscallEnterAgain
<1>2. UNCHANGED <<gidMap, sleepVars, ctxVars, runVars, sleepQueue, fakeLeaves, wdVars>>
  BY <1>1 DEF WaitReturns, SyncReturns, SyscallEnter, SyscallExit, SeesItSleeps
<1>3. /\ UNCHANGED <<state, cid, handoff, runQueue, sleepQueue, bar, aborted, wd>>
      /\ UNCHANGED <<futexWord, marked, wakeIn, fakeLeaves>>
  BY <1>2 DEF sleepVars, ctxVars, runVars, wdVars
<1>4. Placed(t) /\ pc \in [Threads -> Labels]
  BY DEF AInv, BInv, CallTypes
<1>5. \A v \in Threads : FakeLeave(v)' <=> FakeLeave(v)
  BY <1>3 DEF FakeLeave, Elements
<1>6. NoRepeats(fakeLeaves)'
  BY <1>3 DEF BInv, NoRepeats
<1>7. CASE WaitReturns(t)
  <2>1. pc[t] = "wait" /\ pc' = [pc EXCEPT ![t] = "run"] /\ futexWord[t] = 0
    BY <1>7 DEF WaitReturns, At
  <2>2. Placed(t)'
    BY <1>3, <1>4, <1>5, <2>1 DEF Placed
  <2> QED
    BY <1>3, <1>5, <1>6, <2>1, <2>2, PlacedForm, CallKeeps DEF sleepVars
<1>8. CASE SyncReturns(t)
  <2>1. pc[t] = "sync" /\ pc' = [pc EXCEPT ![t] = "run"] /\ bar[cid[t]] = "running" /\ handoff[t] = NoThread
    BY <1>8 DEF SyncReturns, At, Returns
  <2>2. Placed(t)'
    BY <1>3, <1>4, <1>5, <2>1 DEF Placed
  <2> QED
    BY <1>3, <1>5, <1>6, <2>1, <2>2, CallKeeps DEF sleepVars
<1>9. CASE SyscallEnter(t)
  <2>1. pc[t] = "run" /\ pc' = [pc EXCEPT ![t] = "leave"]
    BY <1>9 DEF SyscallEnter, At
  <2>2. Placed(t)'
    BY <1>3, <1>4, <1>5, <2>1 DEF Placed
  <2> QED
    BY <1>3, <1>5, <1>6, <2>1, <2>2, PlacedForm, CallKeeps DEF sleepVars
<1>10. CASE SyscallExit(t)
  <2>1. pc[t] = "syscall" /\ pc' = [pc EXCEPT ![t] = "join"]
    BY <1>10 DEF SyscallExit, At
  <2>2. Placed(t)'
    BY <1>3, <1>4, <1>5, <2>1 DEF Placed
  <2> QED
    BY <1>3, <1>5, <1>6, <2>1, <2>2, PlacedForm, CallKeeps DEF sleepVars
<1>11. CASE SeesItSleeps(t)
  <2>1. pc[t] = "syscall" /\ pc' = [pc EXCEPT ![t] = "endSleep"] /\ state[t] = "SLEEPING"
    BY <1>11 DEF SeesItSleeps, At
  <2>2. Placed(t)'
    BY <1>3, <1>4, <1>5, <2>1 DEF Placed
  <2> QED
    BY <1>3, <1>5, <1>6, <2>1, <2>2, PlacedForm, CallKeeps DEF sleepVars
<1> QED
  BY <1>1, <1>7, <1>8, <1>9, <1>10, <1>11

(* A sleep or a timeout: the thread is marked before it leaves.            *)
LEMMA EnterSleepGood ==
  ASSUME AInv, BInv, NEW t \in Threads, SyscallEnterSleep(t)
  PROVE  BInv'
<1>1. PICK n \in 1 .. MaxSleep : Mark(t, n)
  BY DEF SyscallEnterSleep
<1>2. /\ UNCHANGED <<state, cid, handoff, runQueue, sleepQueue, bar, aborted, wd, fakeLeaves>>
      /\ pc[t] = "run" /\ pc' = [pc EXCEPT ![t] = "leave"]
  BY DEF SyscallEnterSleep, At, ctxVars, runVars, wdVars
<1>3. /\ Placed(t) /\ pc \in [Threads -> Labels] /\ marked \in [Threads -> BOOLEAN]
      /\ wakeIn \in [Threads -> 0 .. MaxSleep] /\ futexWord \in [Threads -> {0, 1}]
  BY DEF AInv, BInv, CallTypes, Core, CoreTypes
<1>4. \A v \in Threads : FakeLeave(v)' <=> FakeLeave(v)
  BY <1>2 DEF FakeLeave, Elements
<1>5. NoRepeats(fakeLeaves)'
  BY <1>2 DEF BInv, NoRepeats
<1>6. /\ wakeIn'[t] = n /\ n >= 1 /\ futexWord'[t] = 1
      /\ \A v \in Threads \ {t} : marked'[v] = marked[v] /\ wakeIn'[v] = wakeIn[v]
                                  /\ futexWord'[v] = futexWord[v]
  BY <1>1, <1>3, SchedulerAssumption DEF Mark
<1>7. Placed(t)' /\ state[t] = "RUNNING"
  BY <1>2, <1>3, <1>4, <1>6 DEF Placed
<1> QED
  BY <1>2, <1>4, <1>5, <1>6, <1>7, PlacedForm, CallKeeps

(* A call that is not on the blacklist, and the join or the end of the     *)
(* thread after it.                                                        *)
LEMMA FakeLeavesGood ==
  ASSUME AInv, BInv, NEW t \in Threads, NEW to,
         \/ SyscallFakeLeave(t) /\ to = "syscall"
         \/ JoinFromFakeLeave(t) /\ to = "run"
         \/ /\ pc[t] \in MayFinish /\ (FakeLeave(t) \/ state[t] = "RUNNING")
            /\ At(t, pc[t], "finishing") /\ to = "finishing"
            /\ fakeLeaves' = Without(fakeLeaves, t)
            /\ UNCHANGED <<sleepVars, ctxVars, runVars, sleepQueue, wdVars>>
  PROVE  BInv'
<1>1. /\ UNCHANGED <<state, cid, handoff, runQueue, sleepQueue, bar, aborted, wd>>
      /\ UNCHANGED <<futexWord, marked, wakeIn>>
      /\ pc' = [pc EXCEPT ![t] = to]
  BY DEF SyscallFakeLeave, JoinFromFakeLeave, At, sleepVars, ctxVars, runVars, wdVars
<1>2. /\ Placed(t) /\ pc \in [Threads -> Labels]
      /\ fakeLeaves \in Seq(Threads) /\ NoRepeats(fakeLeaves)
  BY DEF AInv, BInv, CallTypes
<1>3. CASE SyscallFakeLeave(t)
  <2>1. pc[t] = "run" /\ fakeLeaves' = Append(fakeLeaves, t) /\ to = "syscall" /\ ~FakeLeave(t)
    BY <1>3, PlacedForm DEF SyscallFakeLeave, At, JoinFromFakeLeave, MayFinish
  <2> DEFINE L == Len(fakeLeaves)
  <2>2. /\ L \in Nat /\ DOMAIN fakeLeaves = 1 .. L
        /\ fakeLeaves' \in Seq(Threads) /\ Len(fakeLeaves') = L + 1
        /\ DOMAIN fakeLeaves' = 1 .. L + 1
        /\ \A i \in 1 .. L : fakeLeaves'[i] = fakeLeaves[i]
        /\ fakeLeaves'[L + 1] = t
    BY <1>2, <2>1, AppendProperties, LenProperties
  <2> HIDE DEF L
  <2>3. \A i \in DOMAIN fakeLeaves' : i \in DOMAIN fakeLeaves \/ i = L + 1
    BY <2>2
  <2>4. \A i \in DOMAIN fakeLeaves : i \in DOMAIN fakeLeaves' /\ fakeLeaves[i] # t /\ fakeLeaves'[i] = fakeLeaves[i]
    BY <2>1, <2>2 DEF FakeLeave, Elements
  <2>5. L + 1 \in DOMAIN fakeLeaves'
    BY <2>2
  <2>6. NoRepeats(fakeLeaves)'
    BY <1>2, <2>2, <2>3, <2>4 DEF NoRepeats
  <2>7. \A v \in Threads : FakeLeave(v)' <=> FakeLeave(v) \/ v = t
    BY <2>2, <2>3, <2>4, <2>5 DEF FakeLeave, Elements
  <2>8. Placed(t)'
    BY <1>1, <1>2, <2>1, <2>7 DEF Placed
  <2> QED
    BY <1>1, <2>1, <2>6, <2>7, <2>8, PlacedForm, CallKeeps DEF sleepVars
<1>4. CASE ~SyscallFakeLeave(t)
  <2>1. /\ fakeLeaves' = Without(fakeLeaves, t)
        /\ \/ to = "run" /\ FakeLeave(t) /\ pc[t] = "join"
           \/ to = "finishing" /\ pc[t] \in MayFinish /\ (FakeLeave(t) \/ state[t] = "RUNNING")
    BY <1>4 DEF JoinFromFakeLeave, At
  <2>2. NoRepeats(fakeLeaves') /\ Elements(fakeLeaves') = Elements(fakeLeaves) \ {t}
    BY <1>2, <2>1, WithoutKeeps
  <2>3. NoRepeats(fakeLeaves)'
    BY <2>2 DEF NoRepeats
  <2>4. \A v \in Threads : FakeLeave(v)' <=> FakeLeave(v) /\ v # t
    BY <2>2 DEF FakeLeave, Elements
  <2>5. FakeLeave(t) /\ state[t] = "RUNNING"
    BY <2>1, PlacedForm DEF MayFinish
  <2>6. Placed(t)'
    BY <1>1, <1>2, <2>1, <2>4, <2>5 DEF Placed
  <2>7. pc[t] # "sync"
    BY <2>5, PlacedForm
  <2> QED
    BY <1>1, <2>3, <2>4, <2>6, <2>7, PlacedForm, CallKeeps DEF sleepVars
<1> QED
  BY <1>3, <1>4

(* The places of all the threads after a step of t's.                      *)
LEMMA AllPlaced ==
  ASSUME AInv, BInv, NEW t \in Threads, NEW to, pc' = [pc EXCEPT ![t] = to],
         UNCHANGED fakeLeaves, Placed(t)',
         \A v \in Threads \ {t} :
           /\ marked'[v] = marked[v]
           /\ ~marked[v] \/ (wakeIn'[v] = wakeIn[v] /\ futexWord'[v] = futexWord[v])
           /\ \/ state'[v] = state[v] /\ futexWord'[v] = futexWord[v]
              \/ state[v] \in {"SLEEPING", "OUT"} /\ state'[v] = "BLOCKED"
              \/ state[v] = "QUEUED" /\ state'[v] = "RUNNING" /\ futexWord'[v] = 0
  PROVE  NoRepeats(fakeLeaves)' /\ \A v \in Threads : Placed(v)'
<1>1. \A v \in Threads : FakeLeave(v)' <=> FakeLeave(v)
  BY DEF FakeLeave, Elements
<1>2. NoRepeats(fakeLeaves)'
  BY DEF BInv, NoRepeats
<1>3. \A v \in Threads \ {t} : pc'[v] = pc[v]
  BY DEF AInv, CallTypes
<1>4. ASSUME NEW v \in Threads \ {t} PROVE Placed(v)'
  <2>1. CallTypes /\ UnknownOutside /\ Placed(v)
    BY DEF AInv, BInv
  <2> QED
    BY <1>1, <1>3, <2>1, OthersPlaced
<1> QED
  BY <1>2, <1>4

(* Those who go on sleeping have their deadlines in order still.           *)
LEMMA SleepersStayDue ==
  ASSUME AInv, AInv', BInv, NEW t,
         sleepQueue' = sleepQueue \/ sleepQueue' = Without(sleepQueue, t),
         \A v \in Threads : state'[v] = "SLEEPING" =>
           /\ state[v] = "SLEEPING"
           /\ wakeIn'[v] = wakeIn[v] /\ futexWord'[v] = futexWord[v]
  PROVE  SleepersDue'
<1>1. sleepQueue \in Seq(Threads) /\ Ordered(sleepQueue)
  BY DEF AInv, Core, SleepersExact, BInv, SleepersDue, DueFor
<1>2. Ordered(sleepQueue')
  BY <1>1, WithoutKeeps
<1>3. \A i \in DOMAIN sleepQueue' : wakeIn'[sleepQueue'[i]] = wakeIn[sleepQueue'[i]]
  <2>1. \A i \in DOMAIN sleepQueue' : sleepQueue'[i] \in Threads /\ state'[sleepQueue'[i]] = "SLEEPING"
    BY DEF AInv, Core, SleepersExact, Elements
  <2> QED
    BY <2>1
<1>4. Ordered(sleepQueue)'
  BY <1>2, <1>3 DEF Ordered
<1>5. \A v \in Threads : state'[v] = "SLEEPING" => wakeIn'[v] >= 1 /\ futexWord'[v] = 1
  BY DEF BInv, SleepersDue, DueFor
<1> QED
  BY <1>4, <1>5 DEF SleepersDue, DueFor

LEMMA StartGood ==
  ASSUME AInv, AInv', BInv, NEW t \in Threads, Start(t)
  PROVE  BInv'
<1>1. /\ pc[t] = "none" /\ state[t] = "NONE" /\ pc' = [pc EXCEPT ![t] = "join"]
      /\ UNCHANGED <<curThread, freeList, outQueue, bar, runQueue, ahead, quantum,
                     sleepQueue, fakeLeaves, wd, aborted>>
  BY DEF Start, At, AInv, UnknownOutside, wdVars
<1>2. /\ state'[t] = "STARTED" /\ handoff'[t] = NoThread /\ ~marked'[t] /\ pc'[t] = "join"
      /\ \A v \in Threads \ {t} :
           /\ state'[v] = state[v] /\ cid'[v] = cid[v] /\ handoff'[v] = handoff[v]
           /\ futexWord'[v] = futexWord[v] /\ marked'[v] = marked[v]
           /\ wakeIn'[v] = wakeIn[v] /\ pc'[v] = pc[v]
  BY <1>1 DEF Start, AInv, Core, CoreTypes, CallTypes
<1>3. ~FakeLeave(t) /\ handoff[t] = NoThread
  BY <1>1, PlacedForm
<1>4. Placed(t)'
  BY <1>1, <1>2, <1>3 DEF Placed, FakeLeave, Elements
<1>5. NoRepeats(fakeLeaves)' /\ \A v \in Threads : Placed(v)'
  BY <1>1, <1>2, <1>4, AllPlaced
<1>6. RunnersOnCores'
  BY <1>1, <1>2 DEF BInv, RunnersOnCores
<1>7. PromisesKept'
  BY <1>1, <1>2, <1>3 DEF BInv, PromisesKept
<1>8. SleepersDue'
  BY <1>1, <1>2, SleepersStayDue
<1> QED
  BY <1>1, <1>5, <1>6, <1>7, <1>8 DEF BInv

LEMMA JoinFromOutGood ==
  ASSUME AInv, AInv', BInv, NEW t \in Threads, JoinFromOut(t)
  PROVE  BInv'
<1>1. /\ pc[t] = "join" /\ state[t] = "OUT" /\ ~FakeLeave(t) /\ ~marked[t]
      /\ pc' = [pc EXCEPT ![t] = "run"]
      /\ UNCHANGED <<futexWord, marked, wakeIn, cid, handoff, runQueue, sleepQueue,
                     fakeLeaves, wd, aborted>>
  BY DEF JoinFromOut, At, sleepVars, runVars, wdVars
<1>2. /\ state'[t] = "RUNNING" /\ bar'[cid[t]] = "running" /\ pc'[t] = "run"
      /\ \A v \in Threads \ {t} : state'[v] = state[v] /\ pc'[v] = pc[v]
      /\ \A v \in Threads : bar'[cid[v]] = "running" \/ bar'[cid[v]] = bar[cid[v]]
  BY DEF JoinFromOut, At, AInv, Core, CoreTypes, CallTypes
<1>3. handoff[t] = NoThread
  BY <1>1, PlacedForm
<1>4. Placed(t)'
  BY <1>1, <1>2 DEF Placed, FakeLeave, Elements
<1>5. NoRepeats(fakeLeaves)' /\ \A v \in Threads : Placed(v)'
  BY <1>1, <1>2, <1>4, AllPlaced
<1>6. RunnersOnCores'
  BY <1>1, <1>2 DEF BInv, RunnersOnCores
<1>7. PromisesKept'
  BY <1>1, <1>2, <1>3 DEF BInv, PromisesKept
<1>8. SleepersDue'
  BY <1>1, <1>2, SleepersStayDue
<1> QED
  BY <1>1, <1>5, <1>6, <1>7, <1>8 DEF BInv

LEMMA JoinContextGood ==
  ASSUME AInv, AInv', BInv, NEW t \in Threads, JoinContext(t)
  PROVE  BInv'
<1>1. PICK c \in SchedThread(t) : Occupy(t, c)
  BY DEF JoinContext
<1>2. /\ pc[t] = "join" /\ state[t] \in {"STARTED", "BLOCKED", "SLEEPING"}
      /\ ~FakeLeave(t) /\ ~marked[t] /\ pc' = [pc EXCEPT ![t] = "run"]
      /\ c \in Ctxs /\ c \in Mask[t] /\ sleepQueue' = Without(sleepQueue, t)
      /\ UNCHANGED <<futexWord, marked, wakeIn, handoff, runQueue, fakeLeaves, wd, aborted>>
  BY SchedThreadForm DEF JoinContext, NeedsContext, At, sleepVars, runVars, wdVars, AInv
<1>3. /\ state'[t] = "RUNNING" /\ cid'[t] = c /\ pc'[t] = "run" /\ bar'[c] = "running"
      /\ \A v \in Threads \ {t} :
           /\ cid'[v] = cid[v] /\ pc'[v] = pc[v]
           /\ state'[v] = state[v] \/ (state[v] = "OUT" /\ state'[v] = "BLOCKED")
      /\ \A d \in Ctxs : bar'[d] = "running" \/ bar'[d] = bar[d]
  BY <1>1, <1>2 DEF Occupy, AInv, Core, CoreTypes, CallTypes, ContextsExact
<1>4. handoff[t] = NoThread /\ cid \in [Threads -> Ctxs]
  BY <1>2, PlacedForm DEF AInv, Core, CoreTypes
<1>5. Placed(t)'
  BY <1>2, <1>3 DEF Placed, FakeLeave, Elements
<1>6. NoRepeats(fakeLeaves)' /\ \A v \in Threads : Placed(v)'
  BY <1>2, <1>3, <1>5, AllPlaced
<1>7. RunnersOnCores'
  BY <1>2, <1>3, <1>4 DEF BInv, RunnersOnCores
<1>8. PromisesKept'
  BY <1>2, <1>3, <1>4 DEF BInv, PromisesKept
<1>9. SleepersDue'
  BY <1>2, <1>3, SleepersStayDue
<1> QED
  BY <1>2, <1>6, <1>7, <1>8, <1>9 DEF BInv

LEMMA JoinRunQueueGood ==
  ASSUME AInv, AInv', BInv, NEW t \in Threads, JoinRunQueue(t)
  PROVE  BInv'
<1>1. /\ pc[t] = "join" /\ state[t] \in {"STARTED", "BLOCKED", "SLEEPING"}
      /\ ~FakeLeave(t) /\ ~marked[t] /\ pc' = [pc EXCEPT ![t] = "wait"]
      /\ sleepQueue' = Without(sleepQueue, t) /\ runQueue' = runQueue \cup {t}
      /\ UNCHANGED <<marked, wakeIn, cid, bar, handoff, fakeLeaves, wd, aborted>>
  BY DEF JoinRunQueue, NeedsContext, At, wdVars, PushRunQueue
<1>2. /\ state'[t] = "QUEUED" /\ futexWord'[t] = 1 /\ pc'[t] = "wait"
      /\ \A v \in Threads \ {t} :
           state'[v] = state[v] /\ pc'[v] = pc[v] /\ futexWord'[v] = futexWord[v]
  BY <1>1 DEF JoinRunQueue, AInv, Core, CoreTypes, CallTypes
<1>3. handoff[t] = NoThread
  BY <1>1, PlacedForm
<1>4. Placed(t)'
  BY <1>1, <1>2 DEF Placed, FakeLeave, Elements
<1>5. NoRepeats(fakeLeaves)' /\ \A v \in Threads : Placed(v)'
  BY <1>1, <1>2, <1>4, AllPlaced
<1>6. RunnersOnCores'
  BY <1>1, <1>2 DEF BInv, RunnersOnCores
<1>7. PromisesKept'
  BY <1>1, <1>2, <1>3 DEF BInv, PromisesKept
<1>8. SleepersDue'
  BY <1>1, <1>2, SleepersStayDue
<1> QED
  BY <1>1, <1>5, <1>6, <1>7, <1>8 DEF BInv

LEMMA NotifySleepEndGood ==
  ASSUME AInv, AInv', BInv, NEW t \in Threads, NotifySleepEnd(t)
  PROVE  BInv'
<1>1. /\ pc[t] = "endSleep" /\ state[t] \in {"SLEEPING", "BLOCKED"}
      /\ ~marked[t] /\ pc' = [pc EXCEPT ![t] = "join"]
      /\ sleepQueue' = Without(sleepQueue, t)
      /\ UNCHANGED <<futexWord, marked, wakeIn, cid, bar, handoff, runQueue,
                     fakeLeaves, wd, aborted>>
  BY DEF NotifySleepEnd, NotifyAssertion, At, sleepVars, runVars, wdVars
<1>2. /\ state'[t] = "BLOCKED" /\ pc'[t] = "join"
      /\ \A v \in Threads \ {t} : state'[v] = state[v] /\ pc'[v] = pc[v]
  BY <1>1 DEF NotifySleepEnd, AInv, Core, CoreTypes, CallTypes
<1>3. handoff[t] = NoThread /\ ~FakeLeave(t)
  BY <1>1, PlacedForm
<1>4. Placed(t)'
  BY <1>1, <1>2, <1>3 DEF Placed, FakeLeave, Elements
<1>5. NoRepeats(fakeLeaves)' /\ \A v \in Threads : Placed(v)'
  BY <1>1, <1>2, <1>4, AllPlaced
<1>6. RunnersOnCores'
  BY <1>1, <1>2 DEF BInv, RunnersOnCores
<1>7. PromisesKept'
  BY <1>1, <1>2, <1>3 DEF BInv, PromisesKept
<1>8. SleepersDue'
  BY <1>1, <1>2, SleepersStayDue
<1> QED
  BY <1>1, <1>5, <1>6, <1>7, <1>8 DEF BInv

LEMMA DeleteGood ==
  ASSUME AInv, AInv', BInv, NEW t \in Threads, pc[t] \in MayFinish \cup {"left"},
         ~FakeLeave(t), pc' = [pc EXCEPT ![t] = "none"], Finishes(t), Delete(t)
  PROVE  BInv'
<1>1. /\ UNCHANGED <<futexWord, marked, wakeIn, cid, bar, handoff, sleepQueue,
                     fakeLeaves, aborted>>
      /\ wd' = IF wd.th = t /\ wd.job = "cleanup" THEN WdIdle ELSE wd
  BY DEF Delete, sleepVars
<1>2. UNCHANGED wd
  BY <1>1 DEF BInv, WdIdle
<1>3. /\ state'[t] = "NONE" /\ pc'[t] = "none"
      /\ \A v \in Threads \ {t} : state'[v] = state[v] /\ pc'[v] = pc[v]
  BY DEF Delete, AInv, Core, CoreTypes, CallTypes
<1>4. state[t] \notin {"QUEUED", "RUNNING", "SLEEPING"} /\ handoff[t] = NoThread /\ ~marked[t]
  BY PlacedForm DEF MayFinish, Finishes
<1>5. UNCHANGED runQueue
  BY <1>4 DEF Delete, AInv, Core, QueuesExact
<1>6. Placed(t)'
  BY <1>1, <1>3, <1>4 DEF Placed, FakeLeave, Elements
<1>7. NoRepeats(fakeLeaves)' /\ \A v \in Threads : Placed(v)'
  BY <1>1, <1>3, <1>6, AllPlaced
<1>8. RunnersOnCores'
  BY <1>1, <1>3 DEF BInv, RunnersOnCores
<1>9. PromisesKept'
  BY <1>1, <1>3, <1>4, <1>5 DEF BInv, PromisesKept
<1>10. SleepersDue'
  BY <1>1, <1>3, SleepersStayDue
<1> QED
  BY <1>1, <1>2, <1>7, <1>8, <1>9, <1>10 DEF BInv

(* A promised core passes to the thread it was promised to, which waits.   *)
LEMMA HandOffGood ==
  ASSUME AInv, AInv', BInv, NEW t \in Threads, HandOff(t)
  PROVE  BInv'
<1> DEFINE dst == handoff[t]
           c   == cid[t]
<1>1. /\ dst \in Threads /\ dst # NoThread /\ dst # t
      /\ state[dst] = "QUEUED" /\ dst \notin runQueue
      /\ \A v \in Threads : handoff[v] = dst => v = t
      /\ pc[t] = "sync" /\ state[t] = "RUNNING" /\ bar[c] = "running" /\ c \in Ctxs
      /\ c \in Mask[dst]
  <2>1. dst # NoThread /\ pc[t] = "sync" /\ bar[c] = "running" /\ state[t] = "RUNNING"
    BY DEF HandOff, Returns, ReturnAssertion
  <2>2. c \in Mask[dst]
    BY <2>1 DEF BInv, PromisesKept
  <2> QED
    BY <2>1, <2>2 DEF AInv, Core, CoreTypes, QueuesExact
<1>2. /\ pc[dst] = "wait" /\ futexWord[dst] = 1 /\ ~marked[t] /\ ~marked[dst]
      /\ ~FakeLeave(t)
  BY <1>1, PlacedForm
<1>3. /\ ~aborted' /\ handoff'[t] = NoThread
      /\ \A v \in Threads \ {t} : handoff'[v] = handoff[v]
      /\ UNCHANGED <<marked, wakeIn, sleepQueue, fakeLeaves, wd>>
  BY <1>2 DEF HandOff, AInv, Core, CoreTypes
<1>4. /\ state'[dst] = "RUNNING" /\ cid'[dst] = c /\ futexWord'[dst] = 0 /\ pc'[dst] = "wait"
      /\ \A v \in Threads \ {t, dst} :
           /\ state'[v] = state[v] \/ (state[v] = "OUT" /\ state'[v] = "BLOCKED")
           /\ cid'[v] = cid[v] /\ futexWord'[v] = futexWord[v] /\ pc'[v] = pc[v]
      /\ \A d \in Ctxs : bar'[d] = "running" \/ bar'[d] = bar[d]
      /\ \/ /\ state'[t] = "RUNNING" /\ cid'[t] \in Mask[t] /\ bar'[cid'[t]] = "running"
            /\ pc'[t] = "run" /\ pc' = [pc EXCEPT ![t] = "run"] /\ UNCHANGED runQueue
         \/ /\ state'[t] = "QUEUED" /\ futexWord'[t] = 1
            /\ pc'[t] = "wait" /\ pc' = [pc EXCEPT ![t] = "wait"]
            /\ runQueue' = runQueue \cup {t}
  <2>1. /\ state \in [Threads -> States] /\ cid \in [Threads -> Ctxs]
        /\ futexWord \in [Threads -> {0, 1}] /\ pc \in [Threads -> Labels]
        /\ bar \in [Ctxs -> {"out", "running", "done"}]
        /\ \A v \in Threads : v \in outQueue <=> state[v] = "OUT"
    BY DEF AInv, Core, CoreTypes, CallTypes, ContextsExact
  <2>2. CASE \E d \in SchedThread(t) :
              /\ At(t, "sync", "run")
              /\ state' = [u \in Threads |->
                   IF u = t THEN "RUNNING"
                   ELSE IF u \in outQueue /\ cid[u] = d THEN "BLOCKED"
                   ELSE [state EXCEPT ![dst] = "RUNNING", ![t] = "QUEUED"][u]]
              /\ cid' = [cid EXCEPT ![dst] = c, ![t] = d]
              /\ bar' = [bar EXCEPT ![d] = "running"]
              /\ futexWord' = [futexWord EXCEPT ![dst] = 0]
              /\ UNCHANGED <<runQueue, ahead>>
    <3>1. PICK d \in SchedThread(t) :
              /\ At(t, "sync", "run")
              /\ state' = [u \in Threads |->
                   IF u = t THEN "RUNNING"
                   ELSE IF u \in outQueue /\ cid[u] = d THEN "BLOCKED"
                   ELSE [state EXCEPT ![dst] = "RUNNING", ![t] = "QUEUED"][u]]
              /\ cid' = [cid EXCEPT ![dst] = c, ![t] = d]
              /\ bar' = [bar EXCEPT ![d] = "running"]
              /\ futexWord' = [futexWord EXCEPT ![dst] = 0]
              /\ UNCHANGED <<runQueue, ahead>>
      BY <2>2
    <3>2. d \in Ctxs /\ d \in Mask[t]
      BY <3>1, SchedThreadForm DEF AInv
    <3> QED
      BY <1>1, <1>2, <2>1, <3>1, <3>2 DEF At
  <2>3. CASE /\ At(t, "sync", "wait")
             /\ state' = [state EXCEPT ![dst] = "RUNNING", ![t] = "QUEUED"]
             /\ cid' = [cid EXCEPT ![dst] = c]
             /\ PushRunQueue(t)
             /\ futexWord' = [futexWord EXCEPT ![dst] = 0, ![t] = 1]
             /\ UNCHANGED bar
    BY <1>1, <1>2, <2>1, <2>3 DEF At, PushRunQueue
  <2> QED
    BY <2>2, <2>3 DEF HandOff
<1>5. Placed(t)'
  BY <1>2, <1>3, <1>4 DEF Placed, FakeLeave, Elements
<1>6. NoRepeats(fakeLeaves)' /\ \A v \in Threads : Placed(v)'
  <2>1. \A v \in Threads \ {t} :
           /\ marked'[v] = marked[v]
           /\ ~marked[v] \/ (wakeIn'[v] = wakeIn[v] /\ futexWord'[v] = futexWord[v])
           /\ \/ state'[v] = state[v] /\ futexWord'[v] = futexWord[v]
              \/ state[v] \in {"SLEEPING", "OUT"} /\ state'[v] = "BLOCKED"
              \/ state[v] = "QUEUED" /\ state'[v] = "RUNNING" /\ futexWord'[v] = 0
    BY <1>1, <1>2, <1>3, <1>4
  <2>2. pc' = [pc EXCEPT ![t] = "run"] \/ pc' = [pc EXCEPT ![t] = "wait"]
    BY <1>4
  <2> QED
    BY <1>3, <1>5, <2>1, <2>2, AllPlaced
<1>7. RunnersOnCores'
  <2>1. \A v \in Threads : cid[v] \in Ctxs
    BY DEF AInv, Core, CoreTypes
  <2> QED
    BY <1>1, <1>4, <2>1 DEF BInv, RunnersOnCores
<1>8. PromisesKept'
  <2>1. ASSUME NEW v \in Threads, handoff'[v] # NoThread
        PROVE  pc'[v] = "sync" /\ bar'[cid'[v]] = "running" /\ cid'[v] \in Mask[handoff'[v]]
    <3>1. v # t /\ handoff'[v] = handoff[v] /\ pc[v] = "sync"
      BY <1>3, <2>1 DEF BInv, PromisesKept
    <3>2. v # dst /\ cid'[v] = cid[v] /\ pc'[v] = pc[v] /\ cid[v] \in Ctxs
      BY <1>2, <1>4, <3>1 DEF AInv, Core, CoreTypes
    <3> QED
      BY <1>4, <2>1, <3>1, <3>2 DEF BInv, PromisesKept
  <2>2. ASSUME NEW u \in Threads, state'[u] = "QUEUED", u \notin runQueue'
        PROVE  \E v \in Threads : handoff'[v] = u
    <3>1. u # t /\ u # dst /\ state[u] = "QUEUED" /\ u \notin runQueue
      BY <1>4, <2>2
    <3>2. PICK v \in Threads : handoff[v] = u
      BY <3>1 DEF BInv, PromisesKept
    <3> QED
      BY <1>3, <3>1, <3>2
  <2> QED
    BY <2>1, <2>2 DEF PromisesKept
<1>9. SleepersDue'
  <2>1. \A v \in Threads : state'[v] = "SLEEPING" => v # t /\ v # dst /\ state[v] = "SLEEPING"
    BY <1>4
  <2> QED
    BY <1>3, <1>4, <2>1, SleepersStayDue
<1> QED
  BY <1>3, <1>6, <1>7, <1>8, <1>9 DEF BInv

------------------------------------------------------------------------------
(* The steps that may end the phase: they do once nobody executes in it.   *)

MayEndPhase ==
  UNCHANGED quantum \/ \A v \in Threads : pc'[v] \notin {"run", "leave"} /\ ~FakeLeave(v)

LEMMA PhaseGood ==
  ASSUME AInv, AInv', BInv, NEW t \in Threads, state[t] = "RUNNING",
         pc[t] \in {"run", "leave", "finishing"},
         NEW to \in {"sync", "syscall", "left"}, pc' = [pc EXCEPT ![t] = to],
         NEW x \in {"done", "out"}, x = "done" <=> to = "sync",
         NEW st, \A v \in Threads \ {t} : st[v] = state[v],
         st[t] \in {"RUNNING", "OUT", "SLEEPING"}, st[t] = "RUNNING" <=> x = "done",
         x = "out" => \A u \in runQueue : cid[t] \notin Mask[u],
         NEW cur, \A d \in Ctxs : d # cid[t] \/ x = "done" => cur[d] = curThread[d],
         NEW sq, MayEnd(st, sq), DueFor(st, sq),
         NEW b, b = [bar EXCEPT ![cid[t]] = x],
         EndPhaseIfDone(b, st, cur, sq), UNCHANGED <<cid, fakeLeaves, wd>>,
         \A v \in Threads \ {t} : marked'[v] = marked[v], ~marked'[t],
         to = "left" => st[t] = "OUT"
  PROVE  BInv' /\ MayEndPhase
<1>1. /\ Core /\ QueueOrder' /\ QueuesExact' /\ pc \in [Threads -> Labels] /\ UNCHANGED cid
  BY DEF AInv, Core, CallTypes
<1>2. /\ ~aborted' /\ SleepersDue' /\ PromisesKept' /\ RunnersOnCores'
      /\ \A v \in Threads : st[v] # "SLEEPING" =>
           state'[v] = st[v] /\ futexWord'[v] = futexWord[v]
      /\ \A v \in Threads : state'[v] = st[v] \/ (st[v] = "SLEEPING" /\ state'[v] = "BLOCKED")
      /\ \A v \in Threads \ {t} : wakeIn'[v] = wakeIn[v] \/ ~marked[v]
      /\ MayEndPhase
  BY <1>1, PhaseKeepsPromises DEF MayEndPhase
<1>3. ~FakeLeave(t)
  BY PlacedForm
<1>4. Placed(t)'
  <2>1. pc'[t] = to /\ ~FakeLeave(t)'
    BY <1>1, <1>3 DEF FakeLeave, Elements
  <2>2. /\ to = "sync" => state'[t] = "RUNNING"
        /\ to = "left" => state'[t] = "OUT"
        /\ to = "syscall" => state'[t] \in {"OUT", "SLEEPING", "BLOCKED"}
    BY <1>2
  <2> QED
    BY <2>1, <2>2 DEF Placed
<1>5. \A v \in Threads \ {t} :
         /\ marked'[v] = marked[v]
         /\ ~marked[v] \/ (wakeIn'[v] = wakeIn[v] /\ futexWord'[v] = futexWord[v])
         /\ \/ state'[v] = state[v] /\ futexWord'[v] = futexWord[v]
            \/ state[v] \in {"SLEEPING", "OUT"} /\ state'[v] = "BLOCKED"
  <2> SUFFICES ASSUME NEW v \in Threads \ {t}
               PROVE  /\ ~marked[v] \/ (wakeIn'[v] = wakeIn[v] /\ futexWord'[v] = futexWord[v])
                      /\ \/ state'[v] = state[v] /\ futexWord'[v] = futexWord[v]
                         \/ state[v] \in {"SLEEPING", "OUT"} /\ state'[v] = "BLOCKED"
    OBVIOUS
  <2>1. CASE state[v] # "SLEEPING"
    BY <1>2, <2>1
  <2>2. CASE state[v] = "SLEEPING"
    <3>1. ~marked[v]
      BY <2>2, PlacedForm
    <3>2. state'[v] = "SLEEPING" => futexWord'[v] = 1 /\ futexWord[v] = 1
      BY <1>2, <2>2 DEF BInv, SleepersDue, DueFor
    <3> QED
      BY <1>2, <2>2, <3>1, <3>2
  <2> QED
    BY <2>1, <2>2
<1>6. NoRepeats(fakeLeaves)' /\ \A v \in Threads : Placed(v)'
  BY <1>4, <1>5, AllPlaced
<1>7. wd' = WdIdle
  BY DEF BInv
<1> QED
  BY <1>2, <1>6, <1>7 DEF BInv

LEMMA SyncGood ==
  ASSUME AInv, AInv', BInv, NEW t \in Threads, Sync(t)
  PROVE  BInv' /\ MayEndPhase
<1>1. /\ pc[t] = "run" /\ pc' = [pc EXCEPT ![t] = "sync"] /\ state[t] = "RUNNING"
      /\ EndPhaseIfDone([bar EXCEPT ![cid[t]] = "done"], state, curThread, sleepQueue)
      /\ UNCHANGED <<cid, fakeLeaves, wd, marked>>
  BY DEF Sync, At, BInv, Placed
<1>2. MayEnd(state, sleepQueue) /\ DueFor(state, sleepQueue)
  BY StateMayEnd DEF AInv, BInv, SleepersDue
<1>3. ~marked[t]
  BY <1>1, PlacedForm
<1> QED
  BY <1>1, <1>2, <1>3, PhaseGood

(* The core of a thread that leaves passes to one that queues for it.      *)
LEMMA PassOnGood ==
  ASSUME AInv, AInv', BInv, NEW t \in Threads, NEW u \in SchedContext(cid[t]),
         pc[t] \in {"leave", "finishing"}, LeaveAssertion(t, cid[t]),
         NEW to \in {"syscall", "left"}, pc' = [pc EXCEPT ![t] = to],
         NEW st \in {"SLEEPING", "BLOCKED"}, PassOn(t, cid[t], u, st),
         st = "SLEEPING" => to = "syscall" /\ marked[t] /\ sleepQueue' = SleepInsert(t),
         st = "BLOCKED" => UNCHANGED sleepQueue,
         ~marked'[t], \A v \in Threads \ {t} : marked'[v] = marked[v],
         UNCHANGED <<wakeIn, bar, handoff, quantum, fakeLeaves, wd>>
  PROVE  BInv' /\ MayEndPhase
<1> DEFINE c == cid[t]
<1>1. /\ c \in Ctxs /\ IsFiniteSet(Threads) /\ state[t] = "RUNNING"
      /\ state \in [Threads -> States] /\ cid \in [Threads -> Ctxs]
      /\ futexWord \in [Threads -> {0, 1}] /\ pc \in [Threads -> Labels]
      /\ wakeIn \in [Threads -> Nat] /\ sleepQueue \in Seq(Threads)
  BY SchedulerAssumption DEF AInv, Core, CoreTypes, CallTypes, SleepersExact, LeaveAssertion
<1>2. /\ u \in Threads /\ u \in runQueue /\ c \in Mask[u] /\ state[u] = "QUEUED" /\ u # t
  BY <1>1, SchedContextForm DEF AInv, Core, QueuesExact
<1>3. pc[u] = "wait" /\ futexWord[u] = 1 /\ bar[c] = "running" /\ ~FakeLeave(t)
  BY <1>1, <1>2, PlacedForm
<1>4. /\ state'[t] = st /\ state'[u] = "RUNNING" /\ cid'[u] = c /\ futexWord'[u] = 0
      /\ futexWord'[t] = futexWord[t] /\ pc'[t] = to /\ pc'[u] = pc[u]
      /\ \A v \in Threads \ {t, u} :
           state'[v] = state[v] /\ futexWord'[v] = futexWord[v] /\ pc'[v] = pc[v]
      /\ \A v \in Threads \ {u} : cid'[v] = cid[v]
      /\ runQueue' = runQueue \ {u} /\ ~aborted'
  BY <1>1, <1>2, <1>3 DEF PassOn, PopRunQueue
<1>5. ~marked[u]
  BY <1>2, PlacedForm
<1>6. Placed(t)'
  BY <1>3, <1>4 DEF Placed, FakeLeave, Elements
<1>7. NoRepeats(fakeLeaves)' /\ \A v \in Threads : Placed(v)'
  <2>1. \A v \in Threads \ {t} :
           /\ marked'[v] = marked[v]
           /\ ~marked[v] \/ (wakeIn'[v] = wakeIn[v] /\ futexWord'[v] = futexWord[v])
           /\ \/ state'[v] = state[v] /\ futexWord'[v] = futexWord[v]
              \/ state[v] = "QUEUED" /\ state'[v] = "RUNNING" /\ futexWord'[v] = 0
    BY <1>2, <1>4, <1>5
  <2> QED
    BY <1>6, <2>1, AllPlaced
<1>8. RunnersOnCores'
  BY <1>2, <1>3, <1>4 DEF BInv, RunnersOnCores
<1>9. PromisesKept'
  <2>1. ASSUME NEW v \in Threads, handoff[v] # NoThread
        PROVE  pc'[v] = "sync" /\ bar[cid'[v]] = "running" /\ cid'[v] \in Mask[handoff[v]]
    <3>1. pc[v] = "sync" /\ v # t /\ v # u
      BY <1>3, <2>1 DEF BInv, PromisesKept
    <3> QED
      BY <1>4, <2>1, <3>1 DEF BInv, PromisesKept
  <2>2. \A v \in Threads : state'[v] = "QUEUED" => state[v] = "QUEUED" /\ v # u
    BY <1>4
  <2> QED
    BY <1>4, <2>1, <2>2 DEF BInv, PromisesKept
<1>10. SleepersDue'
  <2>1. CASE st = "BLOCKED"
    <3>1. \A v \in Threads : state'[v] = "SLEEPING" => v # t /\ v # u /\ state[v] = "SLEEPING"
      BY <1>4, <2>1
    <3> QED
      BY <1>4, <2>1, <3>1, SleepersStayDue
  <2>2. CASE st = "SLEEPING"
    <3>1. Ordered(sleepQueue)
      BY DEF BInv, SleepersDue, DueFor
    <3>2. Ordered(sleepQueue')
      BY <1>1, <2>2, <3>1, SleepInsertKeeps
    <3>3. Ordered(sleepQueue)'
      BY <3>2 DEF Ordered
    <3>4. wakeIn[t] >= 1 /\ futexWord[t] = 1
      BY <2>2 DEF BInv, Placed
    <3>5. \A v \in Threads : state'[v] = "SLEEPING" => wakeIn'[v] >= 1 /\ futexWord'[v] = 1
      BY <1>4, <3>4 DEF BInv, SleepersDue, DueFor
    <3> QED
      BY <3>3, <3>5 DEF SleepersDue, DueFor
  <2> QED
    BY <2>1, <2>2
<1> QED
  BY <1>4, <1>7, <1>8, <1>9, <1>10 DEF BInv, MayEndPhase

(* leave(), of the thread itself, in SyscallEnter or in finish().          *)
LEMMA LeaveGood ==
  ASSUME AInv, AInv', BInv, NEW t \in Threads, pc[t] \in {"leave", "finishing"},
         NEW to, to = IF pc[t] = "leave" THEN "syscall" ELSE "left",
         pc' = [pc EXCEPT ![t] = to], Leave(t, cid[t]), UNCHANGED <<fakeLeaves, wd>>
  PROVE  BInv' /\ MayEndPhase
<1> DEFINE c == cid[t]
<1>1. /\ c \in Ctxs /\ IsFiniteSet(Threads) /\ state[t] = "RUNNING"
      /\ LeaveAssertion(t, c) /\ curThread[c] = t
      /\ state \in [Threads -> States] /\ marked \in [Threads -> BOOLEAN]
      /\ curThread \in [Ctxs -> Threads \cup {NoThread}]
      /\ futexWord \in [Threads -> {0, 1}] /\ pc \in [Threads -> Labels]
      /\ wakeIn \in [Threads -> Nat] /\ sleepQueue \in Seq(Threads) /\ NoRepeats(sleepQueue)
      /\ Elements(sleepQueue) = {v \in Threads : state[v] = "SLEEPING"}
      /\ Core /\ to \in {"syscall", "left"}
  BY SchedulerAssumption DEF AInv, Core, CoreTypes, CallTypes, SleepersExact, Leave,
                             LeaveToSleep, LeaveAwake, LeaveAssertion
<1>2. bar[c] = "running"
  BY <1>1, PlacedForm
<1>3. SchedContext(c) = {} => \A u \in runQueue : c \notin Mask[u]
  BY <1>1, SchedContextForm DEF Core
<1>4. Ordered(sleepQueue)
  BY DEF BInv, SleepersDue, DueFor
<1>5. CASE LeaveToSleep(t, c)
  <2>1. /\ marked[t] /\ ~marked'[t] /\ \A v \in Threads \ {t} : marked'[v] = marked[v]
    BY <1>1, <1>5 DEF LeaveToSleep
  <2>2. to = "syscall" /\ wakeIn[t] >= 1 /\ futexWord[t] = 1
    <3>1. Placed(t)
      BY DEF BInv
    <3> QED
      BY <2>1, <3>1 DEF Placed
  <2>3. CASE \E u \in SchedContext(c) :
          /\ PassOn(t, c, u, "SLEEPING")
          /\ sleepQueue' = SleepInsert(t)
          /\ UNCHANGED <<wakeIn, freeList, bar, handoff, quantum>>
    BY <1>1, <2>1, <2>2, <2>3, PassOnGood
  <2>4. CASE /\ SchedContext(c) = {}
             /\ curThread' = [curThread EXCEPT ![c] = NoThread]
             /\ BarLeave(c, [state EXCEPT ![t] = "SLEEPING"], curThread', SleepInsert(t))
             /\ UNCHANGED cid
    <3> DEFINE st == [state EXCEPT ![t] = "SLEEPING"]
               cur == [curThread EXCEPT ![c] = NoThread]
               b == [bar EXCEPT ![c] = "out"]
               sq == SleepInsert(t)
    <3>1. /\ st \in [Threads -> States]
          /\ st[t] = "SLEEPING" /\ \A v \in Threads \ {t} : st[v] = state[v]
          /\ \A d \in Ctxs : d # c => cur[d] = curThread[d]
      BY <1>1 DEF States
    <3>2. EndPhaseIfDone(b, st, cur, sq)
      BY <1>2, <2>4 DEF BarLeave
    <3>3. /\ sq \in Seq(Threads) /\ NoRepeats(sq) /\ Ordered(sq)
          /\ Elements(sq) = Elements(sleepQueue) \cup {t}
      BY <1>1, <1>4, SleepInsertKeeps
    <3> HIDE DEF sq, st, cur
    <3>4. MayEnd(st, sq)
      BY <1>1, <3>1, <3>3 DEF MayEnd
    <3>5. DueFor(st, sq)
      BY <2>2, <3>1, <3>3 DEF DueFor, BInv, SleepersDue
    <3> QED
      BY <1>1, <1>3, <2>1, <2>2, <2>4, <3>1, <3>2, <3>4, <3>5, PhaseGood
  <2> QED
    BY <1>5, <2>3, <2>4 DEF LeaveToSleep
<1>6. CASE LeaveAwake(t, c)
  <2>1. /\ ~marked[t] /\ UNCHANGED marked
    BY <1>6 DEF LeaveAwake
  <2>2. CASE \E u \in SchedContext(c) :
          /\ PassOn(t, c, u, "BLOCKED")
          /\ UNCHANGED <<wakeIn, outQueue, bar, handoff, quantum, sleepQueue>>
    BY <1>1, <2>1, <2>2, PassOnGood
  <2>3. CASE /\ SchedContext(c) = {}
             /\ BarLeave(c, [state EXCEPT ![t] = "OUT"], curThread, sleepQueue)
             /\ UNCHANGED <<cid, curThread>>
    <3> DEFINE st == [state EXCEPT ![t] = "OUT"]
               b == [bar EXCEPT ![c] = "out"]
    <3>1. /\ st \in [Threads -> States]
          /\ st[t] = "OUT" /\ \A v \in Threads \ {t} : st[v] = state[v]
      BY <1>1 DEF States
    <3>2. EndPhaseIfDone(b, st, curThread, sleepQueue)
      BY <1>2, <2>3 DEF BarLeave
    <3> HIDE DEF st
    <3>3. MayEnd(st, sleepQueue)
      BY <1>1, <3>1 DEF MayEnd
    <3>4. DueFor(st, sleepQueue)
      BY <1>4, <3>1 DEF DueFor, BInv, SleepersDue
    <3> QED
      BY <1>1, <1>3, <2>1, <2>3, <3>1, <3>2, <3>3, <3>4, PhaseGood
  <2> QED
    BY <1>6, <2>2, <2>3 DEF LeaveAwake
<1> QED
  BY <1>5, <1>6 DEF Leave

(* The watchdog moves time only when no thread holds a core and runs.      *)
LEMMA TimeForwardGood ==
  ASSUME AInv, AInv', BInv, TimeForward
  PROVE  BInv' /\ \A v \in Threads : state[v] # "RUNNING"
<1>1. /\ Callback(state, curThread, sleepQueue)
      /\ UNCHANGED <<marked, cid, bar, fakeLeaves, pc, wd>>
      /\ Cardinality(Scheduled) = Cardinality(outQueue)
  BY DEF TimeForward
<1>2. \A v \in Threads : state[v] # "RUNNING"
  <2> DEFINE f == [o \in outQueue |-> cid[o]]
  <2>1. /\ \A o \in outQueue : o \in Threads /\ state[o] = "OUT" /\ cid[o] \in Ctxs /\ curThread[cid[o]] = o
        /\ \A v \in Threads : state[v] = "RUNNING" => cid[v] \in Ctxs /\ curThread[cid[v]] = v
    BY DEF AInv, Core, CoreTypes, ContextsExact
  <2>2. IsFiniteSet(Scheduled)
    <3>1. IsFiniteSet(Ctxs)
      BY FS_Interval, SchedulerAssumption DEF Ctxs
    <3> QED
      BY <3>1, FS_Subset DEF Scheduled
  <2>3. f \in Injection(outQueue, Scheduled)
    <3>1. \A o \in outQueue : f[o] \in Scheduled
      BY <2>1, SchedulerAssumption DEF Scheduled
    <3>2. \A o, p \in outQueue : f[o] = f[p] => o = p
      BY <2>1
    <3> QED
      BY <3>1, <3>2 DEF Injection, IsInjective
  <2>4. f \in Surjection(outQueue, Scheduled)
    BY <1>1, <2>2, <2>3, FS_Injection
  <2>5. ASSUME NEW v \in Threads, state[v] = "RUNNING" PROVE FALSE
    <3>1. cid[v] \in Scheduled
      BY <2>1, <2>5, SchedulerAssumption DEF Scheduled
    <3>2. PICK o \in outQueue : f[o] = cid[v]
      BY <2>4, <3>1 DEF Surjection
    <3> QED
      BY <2>1, <2>5, <3>2
  <2> QED
    BY <2>5
<1>3. runQueue = {}
  <2>1. ASSUME NEW u \in runQueue PROVE FALSE
    <3>1. u \in Threads
      BY DEF AInv, Core, QueueOrder
    <3>2. PICK d \in Mask[u] : TRUE
      BY <3>1, SchedulerAssumption
    <3> QED
      BY <1>2, <3>2, QueuedCores DEF AInv
  <2> QED
    BY <2>1
<1>4. \A v \in Threads : handoff[v] = NoThread
  <2>1. \A v \in Threads : pc[v] = "sync" => state[v] = "RUNNING"
    BY DEF BInv, Placed
  <2> QED
    BY <1>2, <2>1 DEF BInv, PromisesKept
<1>5. \A u \in Threads : state[u] = "QUEUED" => u \in runQueue
  BY <1>4, SchedulerAssumption DEF BInv, PromisesKept
<1>6. MayEnd(state, sleepQueue) /\ DueFor(state, sleepQueue)
  BY StateMayEnd DEF AInv, BInv, SleepersDue
<1>7. /\ ~aborted' /\ SleepersDue'
      /\ \A t \in Threads : state[t] # "SLEEPING" =>
           state'[t] = state[t] /\ futexWord'[t] = futexWord[t]
      /\ \A t \in Threads : state'[t] = state[t] \/ (state[t] = "SLEEPING" /\ state'[t] = "BLOCKED")
      /\ \A v \in Threads : handoff'[v] # NoThread => state[v] = "RUNNING"
  BY <1>1, <1>3, <1>4, <1>5, <1>6, CallbackPromises DEF AInv
<1>8. ASSUME NEW v \in Threads PROVE Placed(v)'
  <2>1. ~marked[v]
    BY <1>2, PlacedForm
  <2>2. FakeLeave(v)' <=> FakeLeave(v)
    BY <1>1 DEF FakeLeave, Elements
  <2>3. \/ state'[v] = state[v] /\ futexWord'[v] = futexWord[v]
        \/ state[v] \in {"SLEEPING", "OUT"} /\ state'[v] = "BLOCKED"
    <3>1. state'[v] = "SLEEPING" => futexWord'[v] = 1
      BY <1>7 DEF SleepersDue, DueFor
    <3>2. state[v] = "SLEEPING" => futexWord[v] = 1
      BY DEF BInv, SleepersDue, DueFor
    <3> QED
      BY <1>7, <3>1, <3>2
  <2>4. CallTypes /\ UnknownOutside /\ Placed(v)
    BY DEF AInv, BInv
  <2> QED
    BY <1>1, <2>1, <2>2, <2>3, <2>4, OthersPlaced
<1>9. RunnersOnCores'
  BY <1>1, <1>2, <1>7 DEF BInv, RunnersOnCores
<1>10. PromisesKept'
  <2>1. \A u \in Threads : state'[u] # "QUEUED"
    BY <1>3, <1>5, <1>7
  <2> QED
    BY <1>2, <1>7, <2>1 DEF PromisesKept
<1>11. NoRepeats(fakeLeaves)' /\ wd' = WdIdle
  BY <1>1 DEF BInv, NoRepeats
<1> QED
  BY <1>2, <1>7, <1>8, <1>9, <1>10, <1>11 DEF BInv

(* What join, leave, sync, deschedule, notifySleepEnd and finish assert    *)
(* holds where they assert it.                                             *)
LEMMA AssertionsHold == AInv /\ BInv => Assertions
<1> SUFFICES ASSUME AInv, BInv PROVE Assertions
  OBVIOUS
<1>1. WdAssertion
  BY DEF BInv, WdIdle, WdAssertion
<1>2. ASSUME NEW t \in Threads
      PROVE  /\ JoinAssertion(t) /\ SyncAssertion(t) /\ ReturnAssertion(t)
             /\ NotifyAssertion(t) /\ FinishAssertion(t)
             /\ pc[t] \in {"leave", "finishing"} => LeaveAssertion(t, cid[t])
  <2>1. Placed(t)
    BY DEF BInv
  <2>2. state[t] = "RUNNING" => curThread[cid[t]] = t
    BY DEF AInv, Core, CoreTypes, ContextsExact
  <2>3. marked[t] => pc[t] = "leave"
    BY <2>1 DEF Placed
  <2>4. state[t] = "RUNNING" /\ pc[t] # "sync" => bar[cid[t]] = "running"
    BY PlacedForm
  <2>5. JoinAssertion(t) /\ NotifyAssertion(t) /\ FinishAssertion(t)
    BY <2>1, <2>3 DEF Placed, JoinAssertion, NotifyAssertion, FinishAssertion, Finishes
  <2>6. SyncAssertion(t) /\ ReturnAssertion(t)
    BY <2>1, <2>2, <2>3, <2>4 DEF Placed, SyncAssertion, ReturnAssertion, Returns
  <2>7. pc[t] \in {"leave", "finishing"} => LeaveAssertion(t, cid[t])
    BY <2>1, <2>2 DEF Placed, LeaveAssertion
  <2> QED
    BY <2>5, <2>6, <2>7
<1> QED
  BY <1>1, <1>2 DEF Assertions

LEMMA ThreadGood ==
  ASSUME NoFaults, AInv, AInv', BInv, NEW t \in Threads, Thread(t)
  PROVE  BInv'
<1>1. CASE Start(t)
  BY <1>1, StartGood
<1>2. CASE JoinFromOut(t) \/ JoinContext(t) \/ JoinRunQueue(t) \/ NotifySleepEnd(t)
  BY <1>2, JoinFromOutGood, JoinContextGood, JoinRunQueueGood, NotifySleepEndGood
<1>3. CASE \/ WaitReturns(t) \/ SyncReturns(t) \/ SyscallEnter(t) \/ SyscallExit(t)
           \/ SeesItSleeps(t) \/ SyscallEnterAgain(t)
  BY <1>3, QuietCallsGood
<1>4. CASE JoinFromFakeLeave(t) \/ SyscallFakeLeave(t)
  BY <1>4, FakeLeavesGood
<1>5. CASE Sync(t) \/ HandOff(t) \/ SyscallEnterSleep(t)
  BY <1>5, SyncGood, HandOffGood, EnterSleepGood
<1>6. CASE SyscallLeaves(t)
  BY <1>6, LeaveGood DEF SyscallLeaves, At
<1>7. CASE Finish(t)
  <2>1. CASE /\ FakeLeave(t) \/ state[t] = "RUNNING"
             /\ At(t, pc[t], "finishing")
             /\ fakeLeaves' = Without(fakeLeaves, t)
             /\ UNCHANGED <<sleepVars, ctxVars, runVars, sleepQueue, wdVars>>
    BY <1>7, <2>1, FakeLeavesGood DEF Finish
  <2>2. CASE ~FakeLeave(t) /\ Finishes(t) /\ At(t, pc[t], "none") /\ Delete(t)
    BY <1>7, <2>2, DeleteGood DEF Finish, At
  <2> QED
    BY <1>7, <2>1, <2>2 DEF Finish
<1>8. CASE FinishLeaves(t)
  BY <1>8, LeaveGood DEF FinishLeaves, At
<1>9. CASE FinishDeletes(t)
  <2>1. pc[t] = "left" /\ pc' = [pc EXCEPT ![t] = "none"] /\ Finishes(t) /\ Delete(t)
    BY <1>9 DEF FinishDeletes, At
  <2>2. ~FakeLeave(t)
    BY <2>1, PlacedForm
  <2> QED
    BY <2>1, <2>2, DeleteGood
<1> QED
  BY <1>1, <1>2, <1>3, <1>4, <1>5, <1>6, <1>7, <1>8, <1>9 DEF Thread

LEMMA WatchdogGood ==
  ASSUME NoFaults, AInv, AInv', BInv, Watchdog
  PROVE  TimeForward /\ BInv'
<1>1. ~WdStall /\ ~WdLeave /\ ~WdNext /\ ~WdStops
  BY DEF NoFaults, BInv, WdIdle, WdStall, WdLeave, WdNext, WdStops
<1>2. \A t \in Threads : ~Cleanup(t) /\ ~CleanupWakes(t)
  BY DEF BInv, Placed, Cleanup, CleanupWakes, At
<1> QED
  BY <1>1, <1>2, TimeForwardGood DEF Watchdog

LEMMA BInvInit == Init => BInv
<1> SUFFICES ASSUME Init PROVE BInv
  OBVIOUS
<1>1. fakeLeaves = <<>> /\ sleepQueue = <<>> /\ DOMAIN fakeLeaves = {} /\ DOMAIN sleepQueue = {}
  BY DEF Init
<1>2. NoRepeats(fakeLeaves) /\ Ordered(sleepQueue) /\ \A t \in Threads : ~FakeLeave(t)
  BY <1>1 DEF NoRepeats, Ordered, FakeLeave, Elements
<1>3. \A t \in Threads : Placed(t)
  BY <1>2 DEF Init, Placed
<1> QED
  BY <1>2, <1>3 DEF Init, BInv, RunnersOnCores, PromisesKept, SleepersDue, DueFor

(* The steps of a scheduler so called.                                     *)
LEMMA NextForm ==
  ASSUME NoFaults, AInv, AInv', BInv, [Next]_vars
  PROVE  (\E t \in Threads : Thread(t)) \/ TimeForward \/ UNCHANGED vars
<1>1. ~AssertionFails
  BY AssertionsHold DEF AssertionFails
<1>2. \A p \in Mortal : ~Kill(p)
  BY DEF NoFaults
<1> QED
  BY <1>1, <1>2, WatchdogGood DEF Next, Ended

LEMMA BInvStep == NoFaults /\ AInv /\ AInv' /\ BInv /\ [Next]_vars => BInv'
<1> SUFFICES ASSUME NoFaults, AInv, AInv', BInv, [Next]_vars PROVE BInv'
  OBVIOUS
<1>1. CASE UNCHANGED vars
  BY <1>1 DEF BInv, vars, sleepVars, ctxVars, runVars, wdVars, NoRepeats, Placed,
              FakeLeave, Elements, RunnersOnCores, PromisesKept, SleepersDue, DueFor, Ordered
<1>2. CASE TimeForward
  BY <1>2, TimeForwardGood
<1> QED
  BY <1>1, <1>2, NextForm, ThreadGood

------------------------------------------------------------------------------
(* What that invariant says, and what it lets the steps do.                *)

(* The threads of one mask leave the run queue in its order.               *)
InTurn ==
  \A t \in runQueue \ runQueue' : \A u \in ahead[t] :
    Mask[u] = Mask[t] => u \notin runQueue'

LEMMA TickInTurn ==
  ASSUME QueueOrder, NEW cur, NEW g \in Handovers, SchedTick(cur, g)
  PROVE  InTurn
<1> SUFFICES ASSUME NEW t \in runQueue \ runQueue', NEW u \in ahead[t],
                    Mask[u] = Mask[t], u \in runQueue'
             PROVE  FALSE
  BY DEF InTurn
<1>1. /\ DOMAIN g \subseteq runQueue /\ runQueue' = runQueue \ DOMAIN g
      /\ \A v \in DOMAIN g : g[v] \in Mask[v]
      /\ \A v, w \in DOMAIN g : g[v] = g[w] => v = w
      /\ \A v \in runQueue \ DOMAIN g : \A c \in Mask[v] :
           \E w \in ahead[v] \cap DOMAIN g : g[w] = c
  BY DEF Handovers, SchedTick, PopRunQueue
<1>2. t \in DOMAIN g /\ u \in runQueue \ DOMAIN g /\ g[t] \in Mask[u]
  BY <1>1
<1>3. t \in ahead[u]
  BY <1>1, <1>2
<1>4. t \in Threads /\ ahead[u] \subseteq ahead[t]
  BY DEF QueueOrder
<1> QED
  BY <1>3, <1>4 DEF QueueOrder

LEMMA EndPhaseInTurn ==
  ASSUME QueueOrder, NEW b, NEW st, NEW cur, NEW sq, EndPhaseIfDone(b, st, cur, sq)
  PROVE  InTurn
<1>1. CASE UNCHANGED runQueue
  BY <1>1 DEF InTurn
<1>2. CASE \E g \in Handovers : SchedTick(cur, g)
  BY <1>2, TickInTurn
<1>3. UNCHANGED runQueue \/ \E g \in Handovers : SchedTick(cur, g)
  BY DEF EndPhaseIfDone, Callback, runVars
<1> QED
  BY <1>1, <1>2, <1>3

LEMMA PassOnInTurn ==
  ASSUME QueueOrder, NEW t, NEW c, NEW to, NEW u \in SchedContext(c), PassOn(t, c, u, to)
  PROVE  InTurn
<1>1. /\ u \in runQueue /\ c \in Mask[u] /\ runQueue' = runQueue \ {u}
      /\ \A v \in ahead[u] : v \in runQueue => c \notin Mask[v]
  BY DEF SchedContext, PassOn, PopRunQueue
<1> QED
  BY <1>1 DEF InTurn

LEMMA LeaveInTurn ==
  ASSUME QueueOrder, NEW t, NEW c, Leave(t, c)
  PROVE  InTurn
<1>1. CASE \E u \in SchedContext(c), to \in {"SLEEPING", "BLOCKED"} : PassOn(t, c, u, to)
  BY <1>1, PassOnInTurn
<1>2. CASE \E st, cur, sq : BarLeave(c, st, cur, sq)
  <2>1. PICK st, cur, sq : BarLeave(c, st, cur, sq)
    BY <1>2
  <2>2. EndPhaseIfDone([bar EXCEPT ![c] = "out"], st, cur, sq) \/ UNCHANGED runQueue
    BY <2>1 DEF BarLeave, runVars
  <2>3. UNCHANGED runQueue => InTurn
    BY DEF InTurn
  <2> QED
    BY <2>2, <2>3, EndPhaseInTurn
<1> QED
  BY <1>1, <1>2 DEF Leave, LeaveToSleep, LeaveAwake

(* A thread's step ends the phase, or takes threads from the run queue,    *)
(* only as it may.                                                         *)
LEMMA ThreadSteps ==
  ASSUME NoFaults, AInv, AInv', BInv, NEW t \in Threads, Thread(t)
  PROVE  MayEndPhase /\ InTurn
<1>1. QueueOrder
  BY DEF AInv, Core
<1>2. CASE Sync(t)
  BY <1>1, <1>2, SyncGood, EndPhaseInTurn DEF Sync
<1>3. CASE SyscallLeaves(t) \/ FinishLeaves(t)
  <2>1. /\ pc[t] \in {"leave", "finishing"} /\ Leave(t, cid[t])
        /\ pc' = [pc EXCEPT ![t] = IF pc[t] = "leave" THEN "syscall" ELSE "left"]
        /\ UNCHANGED <<fakeLeaves, wd>>
    BY <1>3 DEF SyscallLeaves, FinishLeaves, At
  <2> QED
    BY <1>1, <2>1, LeaveGood, LeaveInTurn
<1>4. CASE FinishDeletes(t) \/ Finish(t)
  <2>1. state[t] # "QUEUED"
    BY <1>4, PlacedForm DEF FinishDeletes, Finish, MayFinish, At
  <2>2. t \notin runQueue
    BY <2>1 DEF AInv, Core, QueuesExact
  <2>3. UNCHANGED <<runQueue, quantum>>
    BY <1>4, <2>2 DEF FinishDeletes, Finish, Delete, runVars
  <2> QED
    BY <2>3 DEF MayEndPhase, InTurn
<1>5. CASE ~(\/ Sync(t) \/ SyscallLeaves(t) \/ FinishLeaves(t) \/ FinishDeletes(t) \/ Finish(t))
  <2>1. UNCHANGED quantum /\ runQueue \subseteq runQueue'
    BY <1>5 DEF Thread, Start, JoinFromFakeLeave, JoinFromOut, JoinContext, JoinRunQueue,
                WaitReturns, SyncReturns, HandOff, SyscallFakeLeave, SyscallEnter,
                SyscallEnterSleep, SyscallEnterAgain, SyscallExit, SeesItSleeps,
                NotifySleepEnd, PushRunQueue, runVars
  <2> QED
    BY <2>1 DEF MayEndPhase, InTurn
<1> QED
  BY <1>2, <1>3, <1>4, <1>5

LEMMA Steps ==
  ASSUME NoFaults, AInv, AInv', BInv, [Next]_vars
  PROVE  MayEndPhase /\ InTurn
<1>1. CASE UNCHANGED vars
  BY <1>1 DEF vars, runVars, MayEndPhase, InTurn
<1>2. CASE TimeForward
  <2>1. \A v \in Threads : pc'[v] \notin {"run", "leave"} /\ ~FakeLeave(v)
    <3>1. \A v \in Threads : state[v] # "RUNNING" /\ Placed(v) /\ pc'[v] = pc[v]
      BY <1>2, TimeForwardGood DEF TimeForward, BInv
    <3> QED
      BY <3>1 DEF Placed
  <2>2. QueueOrder
    BY DEF AInv, Core
  <2>3. UNCHANGED runQueue \/ \E g \in Handovers : SchedTick(curThread, g)
    BY <1>2 DEF TimeForward, Callback
  <2>4. UNCHANGED runQueue => InTurn
    BY DEF InTurn
  <2> QED
    BY <2>1, <2>2, <2>3, <2>4, TickInTurn DEF MayEndPhase
<1> QED
  BY <1>1, <1>2, NextForm, ThreadSteps

LEMMA BothInvariants == NoFaults /\ Spec => [](AInv /\ BInv)
<1>1. Init => AInv /\ BInv
  BY AInvInit, BInvInit
<1>2. NoFaults /\ AInv /\ BInv /\ [Next]_vars => AInv' /\ BInv'
  BY AInvStep, BInvStep
<1>3. CASE NoFaults
  <2>1. AInv /\ BInv /\ [Next]_vars => AInv' /\ BInv'
    BY <1>2, <1>3
  <2> QED
    BY <1>1, <2>1, PTL DEF Spec
<1> QED
  BY <1>3

(* As long as nobody leaves for a thread in a system call, every call is   *)
(* followed by a join, and no process dies, none of the scheduler's        *)
(* assertions and panics can fail: those of join, leave, sync, deschedule, *)
(* notifySleepEnd and finish, the deadlines callback() checks, the cores   *)
(* schedTick hands over, and "Wakeup race in barrier?".                    *)
THEOREM NothingAborts == NoFaults => (Spec => []NeverAborts)
<1>1. AInv /\ BInv => NeverAborts
  BY TypesSplit, AssertionsHold DEF NeverAborts, BInv
<1> QED
  BY <1>1, BothInvariants, PTL

(* A thread that executes is RUNNING on a core of its mask, is not waited  *)
(* for by the barrier in vain, and has honoured its handoffs, whatever     *)
(* joins, leaves and handovers went before.                                *)
THEOREM RunnersHoldTheirCores == NoFaults => (Spec => []RunnersHoldCores)
<1>1. AInv /\ BInv => RunnersHoldCores
  <2> SUFFICES ASSUME AInv, BInv, NEW t \in Threads, pc[t] \in {"run", "leave"}
               PROVE  /\ state[t] = "RUNNING" /\ curThread[cid[t]] = t /\ cid[t] \in Mask[t]
                      /\ bar[cid[t]] = "running"
                      /\ handoff[t] = NoThread
    BY DEF RunnersHoldCores
  <2>1. state[t] = "RUNNING"
    BY DEF BInv, Placed
  <2>2. curThread[cid[t]] = t /\ cid[t] \in Mask[t]
    BY <2>1 DEF AInv, Core, CoreTypes, ContextsExact, BInv, RunnersOnCores
  <2> QED
    BY <2>1, <2>2, PlacedForm
<1> QED
  BY <1>1, BothInvariants, PTL

(* A thread asleep in waitForContext is never forgotten: it is in the run  *)
(* queue, or schedTick has promised it the core of exactly one thread that *)
(* will come to deschedule().                                              *)
THEOREM WaitersAreNeverLost == NoFaults => (Spec => []WaitersAreKept)
<1>1. AInv /\ BInv => WaitersAreKept
  <2> SUFFICES ASSUME AInv, BInv, NEW t \in Threads, pc[t] = "wait"
               PROVE  IF futexWord[t] = 0 THEN state[t] = "RUNNING"
                      ELSE /\ state[t] = "QUEUED"
                           /\ IF t \in runQueue THEN \A v \in Threads : handoff[v] # t
                              ELSE Cardinality(Promisers(t)) = 1
    BY DEF WaitersAreKept
  <2>1. \/ state[t] = "QUEUED" /\ futexWord[t] = 1
        \/ state[t] = "RUNNING" /\ futexWord[t] = 0
    BY DEF BInv, Placed
  <2>2. t \in runQueue => \A v \in Threads : handoff[v] # t
    BY SchedulerAssumption DEF AInv, Core, QueuesExact
  <2>3. ASSUME state[t] = "QUEUED", t \notin runQueue
        PROVE  Cardinality(Promisers(t)) = 1
    <3>1. PICK v \in Threads : handoff[v] = t
      BY <2>3 DEF BInv, PromisesKept
    <3>2. pc[v] = "sync" /\ state[v] = "RUNNING"
      BY <3>1, SchedulerAssumption DEF BInv, PromisesKept, Placed
    <3>3. \A w \in Threads : handoff[w] = t => w = v
      BY <3>1, SchedulerAssumption DEF AInv, Core, QueuesExact
    <3>4. Promisers(t) = {v}
      BY <3>1, <3>2, <3>3 DEF Promisers
    <3> QED
      BY <3>4, FS_Singleton
  <2> QED
    BY <2>1, <2>2, <2>3
<1> QED
  BY <1>1, BothInvariants, PTL

(* The sleep queue is the sleepers, each once, by deadline, and no deadline*)
(* has passed: the ordered insert of leave() and the removals of join() and*)
(* notifySleepEnd() keep what callback() relies on.                        *)
THEOREM SleepersAreOrdered == NoFaults => (Spec => []SleepersOrdered)
<1>1. AInv /\ BInv => SleepersOrdered
  <2> SUFFICES ASSUME AInv, BInv PROVE SleepersOrdered
    OBVIOUS
  <2>1. /\ sleepQueue \in Seq(Threads) /\ NoRepeats(sleepQueue) /\ Ordered(sleepQueue)
        /\ Elements(sleepQueue) = {t \in Threads : state[t] = "SLEEPING"}
        /\ \A t \in Threads : state[t] = "SLEEPING" => wakeIn[t] >= 1
    BY DEF AInv, Core, SleepersExact, BInv, SleepersDue, DueFor
  <2>2. \A i \in DOMAIN sleepQueue : wakeIn[sleepQueue[i]] >= 1
    <3>1. \A i \in DOMAIN sleepQueue : sleepQueue[i] \in Elements(sleepQueue)
      BY DEF Elements
    <3> QED
      BY <2>1, <3>1
  <2>3. \A i, j \in DOMAIN sleepQueue : i < j => i # j
    BY <2>1, LenProperties
  <2> QED
    BY <2>1, <2>2, <2>3 DEF SleepersOrdered, NoRepeats, Ordered
<1> QED
  BY <1>1, BothInvariants, PTL

(* The phase does not end, neither by sync(), by leave() nor by the        *)
(* watchdog, while a thread executes in it or is in a call it entered      *)
(* without leaving.                                                        *)
THEOREM PhasesWaitForRunners == NoFaults => (Spec => PhaseWaitsForRunners)
<1>1. NoFaults /\ AInv /\ AInv' /\ BInv /\ [Next]_vars =>
        [quantum' # quantum =>
           \A t \in Threads : pc'[t] \notin {"run", "leave"} /\ ~FakeLeave(t)]_vars
  BY Steps DEF MayEndPhase
<1>2. CASE NoFaults
  <2>1. AInv /\ AInv' /\ BInv /\ [Next]_vars =>
          [quantum' # quantum =>
             \A t \in Threads : pc'[t] \notin {"run", "leave"} /\ ~FakeLeave(t)]_vars
    BY <1>1, <1>2
  <2>2. Spec => [](AInv /\ BInv)
    BY <1>2, BothInvariants
  <2> QED
    BY <2>1, <2>2, PTL DEF Spec, PhaseWaitsForRunners
<1> QED
  BY <1>2

(* schedContext and schedTick serve the run queue in its order: a thread is*)
(* never overtaken by one of the same mask that came later.                *)
THEOREM NobodyOvertakes == NoFaults => (Spec => NoOvertaking)
<1>1. NoFaults /\ AInv /\ AInv' /\ BInv /\ [Next]_vars =>
        [\A t \in runQueue \ runQueue' : \A u \in ahead[t] :
           Mask[u] = Mask[t] => u \notin runQueue']_vars
  BY Steps DEF InTurn
<1>2. CASE NoFaults
  <2>1. AInv /\ AInv' /\ BInv /\ [Next]_vars =>
          [\A t \in runQueue \ runQueue' : \A u \in ahead[t] :
             Mask[u] = Mask[t] => u \notin runQueue']_vars
    BY <1>1, <1>2
  <2>2. Spec => [](AInv /\ BInv)
    BY <1>2, BothInvariants
  <2> QED
    BY <2>1, <2>2, PTL DEF Spec, NoOvertaking
<1> QED
  BY <1>2
==============================================================================
