------------------------------- MODULE Hierarchy -------------------------------
(***************************************************************************)
(* InitSystem() (init.cpp): from a configuration's cache groups, their     *)
(* children and its core groups to banks that know their parents and their *)
(* children, and cores that own a terminal cache.  Startup is sequential;  *)
(* an action is a stage of it, or one group's turn in a stage.  Building   *)
(* one bank is in BankBuild.                                               *)
(***************************************************************************)
EXTENDS Integers, Sequences, SequencesExt, FiniteSetsExt, Functions, TLC

CONSTANTS Configs,     \* the configurations read
          Size,        \* of a cache group, in bytes
          MaxChildren  \* MAX_CACHE_CHILDREN

VARIABLES cf,   \* groups, in the file's order; of a group: kids (concatenated groups of
                \* interleaved names), caches and banks; cores, a sequence of core groups; mems, split
          sys   \* at, the stage (or how it ended); i, its next group; parent; fringe and built;
                \* of a bank, up (its parents and its id with them, how often) and down, its
                \* children; of a group, used caches; of a core, its own

vars == <<cf, sys>>

Groups == Range(cf.groups)
IsTerminal(g) == cf.kids[g] = <<>>
Children(g) == FlattenSeq(cf.kids[g])
Banks(g, i) == [j \in 1 .. cf.banks[g] |-> <<g, i, j - 1>>]
AllBanks == {<<g, i, j>> \in sys.built \X (0..8) \X (0..8) : i < cf.caches[g] /\ j < cf.banks[g]}
Ended == {"done", "panic", "assert", "undefined"}

Init ==
  /\ cf \in Configs
  /\ sys = [at |-> "parse", i |-> 1, parent |-> <<>>, fringe |-> <<>>, built |-> {}, up |-> <<>>,
            down |-> <<>>, used |-> [g \in {h \in Groups : IsTerminal(h)} |-> 0], own |-> <<>>]

To(stage) == [sys EXCEPT !.at = stage, !.i = 1]
(* Stage at has a turn for every element of seq, and then goes on.         *)
AtTurn(stage, seq) == sys.at = stage /\ sys.i <= Len(seq)
AtEnd(stage, seq) == sys.at = stage /\ sys.i > Len(seq)
Turn(s) == sys' = [s EXCEPT !.i = sys.i + 1] /\ UNCHANGED cf
Stop(how) == sys' = [sys EXCEPT !.at = how] /\ UNCHANGED cf

-----------------------------------------------------------------------------
(* A group's children: each has one parent.                                *)
ParseGroup ==
  /\ AtTurn("parse", cf.groups)
  /\ \E g \in {cf.groups[sys.i]} :
       IF g = "mem" \/ ~IsInjective(Children(g))
                    \/ \E c \in Range(Children(g)) : c \in DOMAIN sys.parent
         THEN Stop("panic")
         ELSE Turn([sys EXCEPT !.parent = @ @@ [c \in Range(Children(g)) |-> g]])

(* Children that are no group; the groups without a parent, of which there *)
(* may be one, the last level.  With none, nothing is built.               *)
Roots == Groups \ DOMAIN sys.parent
FindLLC ==
  /\ AtEnd("parse", cf.groups)
  /\ IF DOMAIN sys.parent \subseteq Groups /\ Cardinality(Roots) <= 1
       THEN sys' = [To("build") EXCEPT !.fringe = SetToSeq(Roots)] /\ UNCHANGED cf
       ELSE Stop("panic")

(* Groups are built breadth first from the last level.                     *)
BuildCacheGroup ==
  /\ sys.at = "build" /\ sys.fringe # <<>>
  /\ \E g \in {Head(sys.fringe)} :
       IF g \in sys.built \/ Size % cf.banks[g] # 0
         THEN Stop("panic")
         ELSE /\ sys' = [sys EXCEPT !.fringe = Tail(@) \o Children(g), !.built = @ \cup {g}]
              /\ UNCHANGED cf

(* The memory controllers, and the last level's banks as their children.   *)
Mems == IF cf.mems > 1 /\ cf.split THEN <<<<"splitter", 0, 0>>>>
                                  ELSE [m \in 1 .. cf.mems |-> <<"mem", m - 1, 0>>]
SetParents(up, banks, parents) ==
  [b \in DOMAIN up \cup Range(banks) |->
     IF b \in Range(banks)
       THEN [parents |-> parents, id |-> (CHOOSE k \in DOMAIN banks : banks[k] = b) - 1,
             n |-> IF b \in DOMAIN up THEN up[b].n + 1 ELSE 1]
       ELSE up[b]]
ConnectLLC ==
  /\ sys.at = "build" /\ sys.fringe = <<>>
  /\ IF \E g \in Roots : cf.caches[g] # 1
       THEN Stop("panic")
       ELSE /\ sys' = [To("connect") EXCEPT
                         !.up = IF Roots = {} THEN @
                                ELSE SetParents(@, Banks(CHOOSE g \in Roots : TRUE, 0), Mems)]
            /\ UNCHANGED cf

(* The caches of a group's children in a row: a concatenated group after   *)
(* the other, and the i-th caches of interleaved ones together.            *)
(* (Before it, a fault: a group's caches together.)                        *)
ConcatenatedOnly(g) ==
  FlattenSeq([k \in DOMAIN Children(g) |->
                [i \in 1 .. cf.caches[Children(g)[k]] |-> <<Children(g)[k], i - 1>>]])
Interleaved(v) ==
  [n \in 1 .. Len(v) * cf.caches[v[1]] |-> <<v[((n - 1) % Len(v)) + 1], (n - 1) \div Len(v)>>]
ChildCaches(g) == FlattenSeq([k \in DOMAIN cf.kids[g] |-> Interleaved(cf.kids[g][k])])

(* The p-th of n parents has the p-th n-th part of the children.           *)
ChildBanks(g, p) ==
  LET per == Len(ChildCaches(g)) \div cf.caches[g] IN
  FlattenSeq([c \in 1 .. per |-> LET k == ChildCaches(g)[p * per + c] IN Banks(k[1], k[2])])

ConnectGroup ==
  /\ AtTurn("connect", cf.groups)
  /\ \E g \in {cf.groups[sys.i]} :
       \/ IsTerminal(g) /\ Turn(sys)
       \/ ~IsTerminal(g) /\ g \notin sys.built /\ Stop("undefined")  \* cMap[grp] is null
       \/ /\ ~IsTerminal(g) /\ g \in sys.built
          /\ IF cf.caches[g] = 0 THEN Stop("assert")
             ELSE IF \E v \in Range(cf.kids[g]), c \in Groups :
                       c \in Range(v) /\ cf.caches[c] # cf.caches[v[1]] THEN Stop("panic")
             ELSE IF ChildCaches(g) = <<>> THEN Stop("assert")
             ELSE IF Len(ChildCaches(g)) % cf.caches[g] # 0 THEN Stop("panic")
             ELSE IF \E p \in 0 .. cf.caches[g] - 1 : Len(ChildBanks(g, p)) > MaxChildren
                    THEN Stop("panic")
             ELSE Turn([sys EXCEPT
                    !.up = FoldLeft(LAMBDA up, p : SetParents(up, ChildBanks(g, p), Banks(g, p)),
                                    @, [p \in 1 .. cf.caches[g] |-> p - 1]),
                    !.down = @ @@ [b \in {g} \X (0 .. cf.caches[g] - 1) \X (0 .. cf.banks[g] - 1) |->
                                     ChildBanks(g, b[2])]])

(* A terminal cache has one bank: the group's first cache is looked at.    *)
CheckBanks ==
  /\ AtEnd("connect", cf.groups)
  /\ \E terminals \in {{g \in Groups : IsTerminal(g)}} :
       IF \E g \in terminals : cf.caches[g] = 0 THEN Stop("undefined")
       ELSE IF \E g \in terminals : cf.banks[g] # 1 THEN Stop("panic")
       ELSE sys' = To("cores") /\ UNCHANGED cf

(* A core group: each CacheModel or FetchModel takes the next cache of its *)
(* terminal group.                                                         *)
(* (Before it, a fault: the caches a group has used are not looked at.)    *)
AnyRoom(c, n) == n <= cf.caches[c]
Room(c, n) == sys.used[c] + n <= cf.caches[c]
CoreGroup ==
  /\ AtTurn("cores", cf.cores)
  /\ \E q \in {cf.cores[sys.i]} :
       IF q.name \in DOMAIN sys.parent THEN Stop("panic")
       ELSE IF q.type = "IssueModel"
              THEN Turn([sys EXCEPT !.own = @ \o [k \in 1 .. q.n |-> <<"none", 0>>]])
       ELSE IF q.type \notin {"CacheModel", "FetchModel"} \/ q.cache \notin DOMAIN sys.used
              THEN Stop("panic")
       ELSE IF ~Room(q.cache, q.n) THEN Stop("panic")
       ELSE Turn([sys EXCEPT !.own = @ \o [k \in 1 .. q.n |-> <<q.cache, sys.used[q.cache] + k - 1>>],
                             !.used[q.cache] = @ + q.n])

(* Every terminal cache has its core.                                      *)
CheckConnected ==
  /\ AtEnd("cores", cf.cores)
  /\ IF \E g \in DOMAIN sys.used : sys.used[g] # cf.caches[g] THEN Stop("panic") ELSE Stop("done")

Next ==
  \/ ParseGroup \/ FindLLC \/ BuildCacheGroup \/ ConnectLLC \/ ConnectGroup \/ CheckBanks
  \/ CoreGroup \/ CheckConnected

-----------------------------------------------------------------------------
(* What a configuration has to be.                                         *)
ParentsOf(c) == {g \in Groups : c \in Range(Children(g))}
RECURSIVE Above(_, _)
Above(c, n) == IF n = 0 \/ ParentsOf(c) = {} THEN c
               ELSE Above(CHOOSE g \in ParentsOf(c) : TRUE, n - 1)
Looped == \E c \in Groups : ParentsOf(Above(c, Len(cf.groups))) # {}
Served(g) == {k \in DOMAIN cf.cores : cf.cores[k].type # "IssueModel" /\ cf.cores[k].cache = g}
WellFormed ==
  /\ "mem" \notin Groups
  /\ \A g \in Groups : Range(Children(g)) \subseteq Groups /\ IsInjective(Children(g))
  /\ \A g \in Groups : Cardinality(ParentsOf(g)) <= 1 /\ Size % cf.banks[g] = 0 /\ cf.caches[g] > 0
  /\ ~Looped
  /\ \A g, h \in Groups : ParentsOf(g) = {} /\ ParentsOf(h) = {} => g = h /\ cf.caches[g] = 1
  /\ \A g \in Groups : ~IsTerminal(g) =>
       /\ \A v \in Range(cf.kids[g]) : \A c, d \in Range(v) : cf.caches[c] = cf.caches[d]
       /\ FoldSet(LAMBDA c, n : n + cf.caches[c], 0, Range(Children(g))) % cf.caches[g] = 0
       /\ \A p \in 0 .. cf.caches[g] - 1 : Len(ChildBanks(g, p)) <= MaxChildren
  /\ \A g \in Groups : IsTerminal(g) =>
       /\ cf.banks[g] = 1
       /\ FoldSet(LAMBDA k, n : n + cf.cores[k].n, 0, Served(g)) = cf.caches[g]
  /\ \A q \in Range(cf.cores) :
       /\ q.name \in Groups => ParentsOf(q.name) = {}
       /\ q.type \in {"CacheModel", "FetchModel", "IssueModel"}
       /\ q.type # "IssueModel" => q.cache \in Groups /\ IsTerminal(q.cache)

(* A configuration is accepted exactly if it is well formed, and refused   *)
(* with a message, but for two things: a loop of groups beside the tree    *)
(* (or instead of it) is never seen, and a group of no caches is looked    *)
(* into.  init.cpp:411 says the loops have been checked for.               *)
AcceptsExactly ==
  /\ (sys.at = "done") => WellFormed
  /\ sys.at \in {"panic", "assert"} => ~WellFormed
  /\ (sys.at = "undefined") => Looped \/ \E g \in Groups : cf.caches[g] = 0

(* What is accepted is a tree, of which all is built.  Each bank's parents *)
(* are set once; they are all the banks of one cache, and they all know it *)
(* under the id it gives with its requests, which is its bit among the     *)
(* sharers of a line.                                                      *)
Linked ==
  (sys.at = "done") =>
    /\ sys.built = Groups
    /\ DOMAIN sys.up = AllBanks
    /\ \A b \in AllBanks :
         /\ sys.up[b].n = 1
         /\ b[1] \in DOMAIN sys.parent =>
              \E p \in 0 .. cf.caches[sys.parent[b[1]]] - 1 :
                /\ sys.up[b].parents = Banks(sys.parent[b[1]], p)
                /\ \A q \in Range(sys.up[b].parents) : sys.down[q][sys.up[b].id + 1] = b
         /\ b[1] \notin DOMAIN sys.parent => sys.up[b].parents = Mems
    /\ \A q \in DOMAIN sys.down : \A k \in DOMAIN sys.down[q] :
         sys.up[sys.down[q][k]].id = k - 1 /\ q \in Range(sys.up[sys.down[q][k]].parents)

(* A core is given a cache that is there; in the end no two cores own the  *)
(* same, and no terminal cache is without a core.                          *)
Owned ==
  /\ \A k \in DOMAIN sys.own : sys.own[k][1] \in DOMAIN sys.used => sys.own[k][2] < cf.caches[sys.own[k][1]]
  /\ (sys.at = "done") =>
       \A g \in DOMAIN sys.used : \A i \in 0 .. cf.caches[g] - 1 :
         \E k \in DOMAIN sys.own : \A j \in DOMAIN sys.own : sys.own[j] = <<g, i>> <=> j = k

(* Interleaved groups whose i-th caches fit under one parent are under one *)
(* parent ("l1i-wimpy-0 l1d-wimpy-0 l1i-wimpy-1 l1d-wimpy-1", init.cpp).   *)
SiblingsTogether ==
  (sys.at = "done") =>
    \A g \in Groups : Len(cf.kids[g]) = 1 /\ Len(cf.kids[g][1]) = Len(ChildCaches(g)) \div cf.caches[g] =>
      \A b, c \in AllBanks : b[1] \in Range(cf.kids[g][1]) /\ c[1] \in Range(cf.kids[g][1]) /\ b[2] = c[2]
        => sys.up[b].parents = sys.up[c].parents

(* The configuration files' promise: all of the above.                     *)
HierarchyExact == AcceptsExactly /\ Linked /\ Owned /\ SiblingsTogether
================================================================================
