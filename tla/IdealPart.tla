------------------------------- MODULE IdealPart -------------------------------
(***************************************************************************)
(* The fully associative array with partitions (IdealLRUPartArray and its  *)
(* policy, ideal_arrays.h): one LRU list per partition, and the victim is  *)
(* the last of the partition that is most over its target.                 *)
(***************************************************************************)
EXTENDS Integers, Sequences, SequencesExt, FiniteSetsExt

CONSTANTS NumLines, NumParts, Buckets, Addrs,
          MaxResizes  \* bound

VARIABLES ip,   \* n partitions; of each, size, target and list (lruList); of each line,
                \* its partition part and its address addr; map from addresses to lines
          used  \* ghost: the lines, the last used first; the resizes so far

vars == <<ip, used>>

Lines == 0 .. NumLines - 1
Parts == 0 .. ip.n - 1
AllLines == [i \in 1..NumLines |-> NumLines - i]

Init ==
  \E n \in NumParts :
    /\ ip = [n |-> n, part |-> [l \in Lines |-> 0], addr |-> [l \in Lines |-> 0], map |-> <<>>,
             size |-> [p \in 0 .. n - 1 |-> IF p = 0 THEN NumLines ELSE 0],
             target |-> [p \in 0 .. n - 1 |-> NumLines \div n],
             list |-> [p \in 0 .. n - 1 |-> IF p = 0 THEN AllLines ELSE <<>>]]
    /\ used = [order |-> AllLines, resizes |-> 0]

-----------------------------------------------------------------------------
Without(s, l) == SelectSeq(s, LAMBDA k : k # l)

(* rank(): excess over target is relative to it.  Own partition if none is *)
(* over its target, unless it is empty; the first of those most over it.   *)
(* (Before it, a fault: the one nearest to its target if none is over it.) *)
MoreOver(p, q) ==
  (ip.size[p] - ip.target[p]) * (ip.target[q] + 1) > (ip.size[q] - ip.target[q]) * (ip.target[p] + 1)
MostOver(may, own) ==
  IF may = {} THEN own ELSE Min({p \in may : ~\E q \in may : MoreOver(q, p)})
VictimNearest(own) == MostOver({p \in Parts : ip.size[p] > 0}, own)
Victim(own) ==
  MostOver({p \in Parts : ip.size[p] > 0 /\ (ip.size[own] = 0 \/ ip.size[p] > ip.target[p])}, own)

Hit(a) ==
  /\ a \in DOMAIN ip.map
  /\ LET l == ip.map[a] IN
     /\ ip' = [ip EXCEPT !.list[ip.part[l]] = <<l>> \o Without(@, l)]
     /\ used' = [used EXCEPT !.order = <<l>> \o Without(@, l)]

(* preinsert() and postinsert(): map, replaced() and update().             *)
Miss(a, own) ==
  /\ a \notin DOMAIN ip.map
  /\ LET v == Victim(own)
         l == Last(ip.list[v])
         moved == [ip EXCEPT !.list[v] = Without(@, l), !.size[v] = @ - 1]
     IN /\ ip.list[v] # <<>>
        /\ ip' = [moved EXCEPT !.list[own] = <<l>> \o @, !.size[own] = @ + 1, !.part[l] = own,
                    !.addr[l] = a,
                    !.map = [b \in (DOMAIN @ \ {ip.addr[l]}) \cup {a} |-> IF b = a THEN l ELSE @[b]]]
        /\ used' = [used EXCEPT !.order = <<l>> \o Without(@, l)]

setPartitionSizes(sizes) ==
  /\ used.resizes < MaxResizes
  /\ ip' = [ip EXCEPT !.target = [p \in Parts |-> (sizes[p] * NumLines) \div Buckets]]
  /\ used' = [used EXCEPT !.resizes = @ + 1]
Allocs ==
  {a \in [Parts -> ip.n .. Buckets] :
     MapThenSumSet(LAMBDA p : a[p], Parts) = Buckets + ip.n * ip.n - ip.n}

Next ==
  \/ \E a \in Addrs : Hit(a) \/ \E own \in Parts : Miss(a, own)
  \/ \E sizes \in Allocs : setPartitionSizes(sizes)

-----------------------------------------------------------------------------
(* The lists are the partitions, in the order of use; the sizes are theirs *)
(* and the addresses are found where they are (ideal_arrays.h:229 asserts  *)
(* the sizes).                                                             *)
ListsExact ==
  /\ \A p \in Parts :
       /\ ip.list[p] = SelectSeq(used.order, LAMBDA l : ip.part[l] = p)
       /\ ip.size[p] = Len(ip.list[p])
  /\ \A a \in Addrs : {l \in Lines : ip.addr[l] = a} = IF a \in DOMAIN ip.map THEN {ip.map[a]} ELSE {}

(* Whoever misses, a partition within its target keeps its lines while     *)
(* another is over it; all of them within it, each evicts its own.  There  *)
(* is always a victim.                                                     *)
VictimFair ==
  \A own \in Parts :
    LET v == Victim(own)
        over == {p \in Parts : ip.size[p] > ip.target[p]}
    IN /\ ip.list[v] # <<>>
       /\ over # {} => v \in over
       /\ over = {} /\ ip.size[own] > 0 => v = own

IdealExact == ListsExact /\ VictimFair
=============================================================================
