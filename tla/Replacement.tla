------------------------------ MODULE Replacement ------------------------------
(***************************************************************************)
(* The replacement policies that do not partition (repl_policies.h), over  *)
(* one array: LRU with and without the number of sharers, NRU and LFU.     *)
(* The coherence controller says whether a line is valid and how many      *)
(* children share it.  preinsert() ranks some of the lines, and            *)
(* postinsert() calls replaced() and update(), in one step here, as the    *)
(* controller holds its lock.                                              *)
(***************************************************************************)
EXTENDS Integers, Sequences, SequencesExt, FiniteSetsExt

CONSTANTS N,         \* numLines
          Word,      \* 2^32: LRU compares its 64-bit scores in 32 bits
          Step,      \* of LFU's timestamps (1000)
          MaxShare,  \* bound: children
          MaxTime    \* bound: timestamps

VARIABLES rp,  \* the policy: kind, timestamp, array, ts (LFU) and youngLines (NRU)
          ln   \* the lines: tagged (those with an address in the array), valid and
               \* sharers; ghosts: order, the last used first; used and before, the
               \* lines used since NRU last aged them, and between that and the time before

vars == <<rp, ln>>

Ids == 0 .. N - 1
Init ==
  /\ \E k \in {"lru", "lrunosh", "nru", "lfu"} :
       rp = [kind |-> k, timestamp |-> 1, array |-> [i \in Ids |-> 0], ts |-> [i \in Ids |-> 0],
             youngLines |-> 0]
  /\ ln = [tagged |-> {}, valid |-> [i \in Ids |-> FALSE], sharers |-> [i \in Ids |-> 0],
           order |-> <<>>, used |-> {}, before |-> {}]

-----------------------------------------------------------------------------
(* LRUReplPolicy.  The score is of 64 bits and compared in 32.             *)
(* (Before it, a fault: a line keeps its score when it is invalidated.)    *)
staleScore(id) == (IF rp.kind = "lru" THEN ln.sharers[id] ELSE 0) * rp.timestamp + rp.array[id]
score(id) ==
  (IF rp.kind = "lru" THEN ln.sharers[id] ELSE 0) * rp.timestamp
    + (IF ln.valid[id] THEN rp.array[id] ELSE 0)
RankLRU(cands) ==
  LET best == Min({score(i) % Word : i \in cands})
  IN Min({i \in cands : score(i) % Word = best})

(* NRUReplPolicy: one of the least values, by the number of young lines.   *)
RankNRU(cands) ==
  LET least == {i \in cands : \A j \in cands : rp.array[i] <= rp.array[j]}
  IN SetToSortSeq(least, <)[1 + (rp.youngLines % Cardinality(least))]

(* LFUReplPolicy: Rank::lessThan, and the scan of the candidates.          *)
InvFreq(i) == (rp.timestamp - rp.ts[i]) \div rp.array[i]
lessThan(i, j) ==
  \/ ~ln.valid[i] /\ ln.valid[j]
  \/ /\ ln.valid[i] = ln.valid[j]
     /\ ~(ln.sharers[i] > 0 /\ ln.sharers[j] = 0)
     /\ \/ ln.sharers[i] = 0 /\ ln.sharers[j] > 0
        \/ rp.array[i] = 0
        \/ rp.array[j] # 0 /\ InvFreq(i) > InvFreq(j)
RankLFU(cands) ==
  LET s == SetToSortSeq(cands, <)
      f[n \in 1 .. Len(s)] ==
        IF n = 1 THEN s[1] ELSE LET b == f[n - 1] IN IF lessThan(s[n], b) THEN s[n] ELSE b
  IN f[Len(s)]

Rank(cands) ==
  CASE rp.kind \in {"lru", "lrunosh"} -> RankLRU(cands)
    [] rp.kind = "nru" -> RankNRU(cands)
    [] rp.kind = "lfu" -> RankLFU(cands)

-----------------------------------------------------------------------------
(* update() and replaced().                                                *)
UpdatedLRU(p, id) == [p EXCEPT !.array[id] = p.timestamp, !.timestamp = @ + 1]

Younger(p, id) == p.youngLines + 1 - (p.array[id] \div 2)
Aged(p, id) == Younger(p, id) >= N \div 2
UpdatedNRU(p, id) ==
  LET a == [p.array EXCEPT ![id] = 2 + (@ % 2)]
  IN IF Aged(p, id) THEN [p EXCEPT !.array = [i \in Ids |-> a[i] \div 2], !.youngLines = 0]
     ELSE [p EXCEPT !.array = a, !.youngLines = Younger(p, id)]

UpdatedLFU(p, id) ==
  [p EXCEPT !.ts[id] = (p.array[id] * @ + p.timestamp) \div (p.array[id] + 1),
            !.array[id] = @ + 1, !.timestamp = @ + Step]

update(p, id) ==
  CASE p.kind \in {"lru", "lrunosh"} -> UpdatedLRU(p, id)
    [] p.kind = "nru" -> UpdatedNRU(p, id)
    [] p.kind = "lfu" -> UpdatedLFU(p, id)

replaced(p, id) == [p EXCEPT !.array[id] = 0]

-----------------------------------------------------------------------------
(* An update, and what the ghosts make of it.                              *)
Touch(p, l, id) ==
  LET aged == p.kind = "nru" /\ Aged(p, id)
      used == l.used \cup {id}
      order == <<id>> \o SelectSeq(l.order, LAMBDA i : i # id)
  IN /\ rp' = update(p, id)
     /\ ln' = [l EXCEPT !.order = IF p.kind \in {"lru", "lrunosh"} THEN order ELSE @,
                 !.used = IF p.kind = "nru" THEN IF aged THEN {} ELSE used ELSE @,
                 !.before = IF aged THEN used ELSE @]

Bounded == rp.timestamp <= MaxTime

(* The array finds the line by its address, which an invalidation leaves   *)
(* in it: the access then makes it valid again.                            *)
Hit(id, n) ==
  /\ Bounded /\ id \in ln.tagged
  /\ Touch(rp, IF ln.valid[id] THEN ln ELSE [ln EXCEPT !.valid[id] = TRUE, !.sharers[id] = n], id)

Miss(cands, n) ==
  /\ Bounded
  /\ LET v == Rank(cands) IN
     Touch(replaced(rp, v),
           [ln EXCEPT !.tagged = @ \cup {v}, !.valid[v] = TRUE, !.sharers[v] = n,
                      !.used = @ \ {v}, !.before = @ \ {v}], v)

(* The other operations of the cache: children get and drop the line, and  *)
(* the parent invalidates it.                                              *)
Share(id, n) ==
  /\ ln.valid[id] /\ ln' = [ln EXCEPT !.sharers[id] = n]
  /\ UNCHANGED rp
Invalidate(id) ==
  /\ ln.valid[id] /\ ln' = [ln EXCEPT !.valid[id] = FALSE, !.sharers[id] = 0]
  /\ UNCHANGED rp

Next ==
  \/ \E id \in Ids : Invalidate(id) \/ \E n \in 0 .. MaxShare : Hit(id, n) \/ Share(id, n)
  \/ \E cands \in SUBSET Ids \ {{}}, n \in {0, 1} : Miss(cands, n)

-----------------------------------------------------------------------------
CandSets == SUBSET Ids \ {{}}
Age(id) == IF id \in ToSet(ln.order) THEN Max({i \in DOMAIN ln.order : ln.order[i] = id}) ELSE N + 1

(* LRU: the victim is an invalid line if there is one, else, of the lines  *)
(* with the fewest sharers, the one used longest ago; as long as no score  *)
(* needs more than 32 bits (repl_policies.h:113 truncates them).           *)
Fits == \A i \in Ids : score(i) < Word
Sharers(i) == IF rp.kind = "lru" THEN ln.sharers[i] ELSE 0
VictimLRU ==
  rp.kind \in {"lru", "lrunosh"} /\ Fits =>
    \A c \in CandSets :
      LET v == RankLRU(c)
          valid == {i \in c : ln.valid[i]}
          few == {i \in valid : \A j \in valid : Sharers(i) <= Sharers(j)}
      IN IF valid # c THEN v \notin valid ELSE v \in few /\ \A j \in few : Age(j) <= Age(v)

(* NRU: fewer than half of the lines are young, and counted young; a line  *)
(* is spared if another one was used neither since the lines were last     *)
(* aged nor in the time before.                                            *)
VictimNRU ==
  rp.kind = "nru" =>
    /\ Cardinality({i \in Ids : rp.array[i] >= 2}) <= rp.youngLines
    /\ rp.youngLines < N \div 2
    /\ \A c \in CandSets : c \ (ln.used \cup ln.before) # {} => RankNRU(c) \notin ln.used \cup ln.before

(* LFU: an invalid line, else one without sharers, else by frequency.      *)
VictimLFU ==
  rp.kind = "lfu" =>
    \A c \in CandSets :
      LET v == RankLFU(c)
          invalid == {i \in c : ~ln.valid[i]}
          alone == {i \in c : ln.sharers[i] = 0}
      IN IF invalid # {} THEN v \in invalid
         ELSE LET of == IF alone # {} THEN alone ELSE c
              IN v \in of /\ \A j \in of : InvFreq(j) <= InvFreq(v)

VictimsExact == VictimLRU /\ VictimNRU /\ VictimLFU
=============================================================================
