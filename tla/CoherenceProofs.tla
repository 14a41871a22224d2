---------------------------- MODULE CoherenceProofs ----------------------------
(***************************************************************************)
(* Proofs about Coherence, for any tree of caches and any number of lines. *)
(*                                                                         *)
(* The inductive invariant says what each frame of a thread's calls may    *)
(* rely on: which locks it holds, and what the state of its cache, of its  *)
(* child's and of the directory between them is as long as it holds them.  *)
(***************************************************************************)
EXTENDS Coherence, FiniteSetTheorems, SequenceTheorems, WellFoundedInduction, TLAPS

Frames == AccessFrames \cup InvFrames

Types ==
  /\ st \in [Caches -> [Addrs -> States]]
  /\ dir \in [Caches -> [Addrs -> Entries]]
  /\ tcc \in [Caches -> Threads \cup {NoThread}]
  /\ bcc \in [Caches -> Threads \cup {NoThread}]
  /\ flock \in [Leaves -> Threads \cup {NoThread}]
  /\ filt \in [Leaves -> FilterEntries]
  /\ stack \in [Threads -> Seq(Frames)]
  /\ wb \in [Threads -> Addrs \cup {NoAddr}]
  /\ fresh \in [Addrs -> SUBSET (Caches \cup {Mem})]
  /\ aborted \in BOOLEAN

Fits == \A n \in Caches :
  IsFiniteSet(Tagged(n)) /\ Cardinality(Tagged(n)) <= Lines[n]

------------------------------------------------------------------------------
(* The frames of a thread.                                                 *)

(* Where a frame waits for a get that it sent to the parent.               *)
After(n) == IF n \in Leaves THEN "end" ELSE "dir"

FrameOK(f) ==
  IF IsAccess(f)
  THEN /\ f.n \in Leaves <=> f.ch = Mem
       /\ f.n \in Leaves => f.at \notin {"tcc", "dir"} /\ f.ty \in Gets /\ f.init = "I"
       /\ f.at = "fill" => f.n \in Leaves
       /\ f.at \in {"tcc", "bcc"} => f.v = NoAddr
       /\ f.at \in {"evict", "insert"} => f.ty \in Gets /\ f.v \in Addrs
  ELSE f.n # Root

(* Frame f is a call that frame e made.                                    *)
Link(e, f) ==
  IF IsAccess(f)
  THEN /\ IsAccess(e) /\ e.n # Root /\ f.n = Parent[e.n] /\ f.ch = e.n
       /\ IF f.ty \in Gets THEN e.ty = f.ty /\ e.a = f.a /\ e.at = After(e.n)
          ELSE e.at = "insert" /\ f.a = e.v
  ELSE /\ e.n = Parent[f.n]
       /\ IF IsAccess(e)
          THEN \/ e.at = "evict" /\ f.ty = "INV" /\ f.a = e.v
               \/ /\ e.at = "dir" /\ e.ty \in Gets /\ f.a = e.a
                  /\ f.ty = IF e.ty = "GETX" THEN "INV" ELSE "INVX"
          ELSE e.at = "down" /\ f.ty = e.ty /\ f.a = e.a

Shape(s) ==
  /\ \A i \in 1 .. Len(s) : FrameOK(s[i])
  /\ \A i \in 1 .. Len(s) : i > 1 => Link(s[i - 1], s[i])
  /\ \A i, j \in 1 .. Len(s) : i < j /\ IsAccess(s[j]) => IsAccess(s[i])

(* The frame of the thread's own access, which is in its leaf.             *)
Rooted(t) == Busy(t) => IsAccess(stack[t][1]) /\ stack[t][1].n = t

------------------------------------------------------------------------------
(* Locks.                                                                  *)

(* An access that has begun holds the lock that serialises the accesses    *)
(* from below; in a leaf the core does that.                               *)
Active(s, i) == IsAccess(s[i]) /\ s[i].at # "tcc"

(* A frame that works on its cache, or waits for an invalidation below it, *)
(* holds the lock of the state array; one that waits for an access above   *)
(* it does not.                                                            *)
Holds(s, i) ==
  IF IsAccess(s[i])
  THEN s[i].at \in {"evict", "insert", "dir", "end"} /\ (i < Len(s) => ~IsAccess(s[i + 1]))
  ELSE s[i].at = "down"

Locked(t) ==
  \A i \in 1 .. Len(stack[t]) :
    LET f == stack[t][i] IN
    /\ Active(stack[t], i) /\ f.n \notin Leaves => tcc[f.n] = t
    /\ Holds(stack[t], i) => bcc[f.n] = t
    /\ f.at = "fill" => flock[f.n] = t

(* No lock is taken twice.                                                 *)
Once(s) ==
  \A i, j \in 1 .. Len(s) : s[i].n = s[j].n =>
    /\ Active(s, i) /\ Active(s, j) => i = j
    /\ Holds(s, i) /\ Holds(s, j) => i = j

------------------------------------------------------------------------------
(* Directories.                                                            *)

(* The directory names the children with a copy at all times; inclusion;   *)
(* a child that may write is the only sharer.                              *)
DirOK ==
  \A n \in Caches : \A a \in Addrs :
    /\ dir[n][a].sh = {c \in Children(n) : Valid(st[c][a])}
    /\ dir[n][a].ex <=> \E c \in Children(n) : Excl(st[c][a])
    /\ \A c \in Children(n) :
         /\ Valid(st[c][a]) => Valid(st[n][a])
         /\ Excl(st[c][a]) => Excl(st[n][a]) /\ dir[n][a].sh = {c}

------------------------------------------------------------------------------
(* What frames rely on.                                                    *)

(* The requesting child's line while an access is under way: only an       *)
(* invalidation may have changed it.                                       *)
ReqOK(f) ==
  LET now == st[f.ch][f.a] IN
  f.ch # Mem =>
    IF f.ty \in Gets
    THEN IF f.at = "end"
         THEN IF f.ty = "GETX" THEN now = "M" ELSE Valid(now)
         ELSE /\ f.ty = "GETS" => f.init = "I" /\ now = "I"
              /\ f.ty = "GETX" => f.init \in {"I", "S"} /\ now \in {"I", f.init}
    ELSE IF f.at = "end" THEN now = "I"
         ELSE /\ dir[f.ch][f.a].sh = {}
              /\ IF f.at = "dir"
                 THEN IF f.ty = "PUTX" THEN now = "M" ELSE Valid(now)
                 ELSE /\ f.init \in IF f.ty = "PUTX" THEN {"M"} ELSE {"S", "E"}
                      /\ now \in {f.init, "S", "I"}

(* The victim is in the array and the line it makes room for is not.       *)
VictimOK(f) ==
  f.at \in {"evict", "insert"} => f.v \in Tagged(f.n) /\ f.a \notin Tagged(f.n)

(* The cache's own line, once the frame holds the cache.                   *)
OwnOK(f) ==
  /\ f.at \in {"dir", "end", "fill"} /\ f.ty \in Gets =>
       IF f.ty = "GETX" THEN st[f.n][f.a] = "M" ELSE Valid(st[f.n][f.a])
  /\ f.at = "insert" => st[f.n][f.v] = "I"

InvOK(f) == IF f.ty = "INVX" THEN Excl(st[f.n][f.a]) ELSE Valid(st[f.n][f.a])

FrameClaim(s, i) ==
  IF IsAccess(s[i])
  THEN /\ ReqOK(s[i]) /\ VictimOK(s[i])
       /\ Holds(s, i) \/ s[i].at = "fill" => OwnOK(s[i])
  ELSE InvOK(s[i])
FramesOK(s) == \A i \in 1 .. Len(s) : FrameClaim(s, i)

(* An induced writeback is for the line the thread's last frame is about,  *)
(* which that cache has exclusively; the only child that had a copy is     *)
(* done with.                                                              *)
WritebackOK(t) ==
  wb[t] # NoAddr =>
    LET f == Top(t) IN
    /\ Busy(t)
    /\ Excl(st[f.n][wb[t]])
    /\ \/ f.at = "evict" /\ wb[t] = f.v /\ dir[f.n][f.v].sh = {}
       \/ f.at = "dir" /\ f.ty = "GETX" /\ wb[t] = f.a /\ dir[f.n][f.a].sh = {}
       \/ f.at = "dir" /\ f.ty = "GETS" /\ wb[t] = f.a /\ ~dir[f.n][f.a].ex
       \/ f.at = "down" /\ f.ty = "INV" /\ wb[t] = f.a /\ dir[f.n][f.a].sh = {}
       \/ f.at = "down" /\ f.ty = "INVX" /\ wb[t] = f.a /\ ~dir[f.n][f.a].ex

(* The filter entry of a core that does nothing, unless it has been left.  *)
FilterOK ==
  \A n \in Leaves :
    /\ filt[n].wr \in {NoAddr, filt[n].rd}
    /\ ~Busy(n) /\ ~filt[n].left =>
         /\ filt[n].rd # NoAddr => Valid(st[n][filt[n].rd])
         /\ filt[n].wr # NoAddr => st[n][filt[n].wr] = "M"

ThreadOK(t) ==
  /\ Shape(stack[t]) /\ Rooted(t)
  /\ Locked(t) /\ Once(stack[t])
  /\ FramesOK(stack[t]) /\ WritebackOK(t)

IInv ==
  /\ Types /\ Fits /\ DirOK /\ FilterOK /\ ~aborted
  /\ \A t \in Threads : ThreadOK(t)


------------------------------------------------------------------------------
(* Stacks.                                                                 *)

Replaced(s, u, f) ==
  /\ Len(u) = Len(s) /\ u[Len(s)] = f
  /\ \A i \in 1 .. Len(s) - 1 : u[i] = s[i]
Pushed(s, u, f, g) ==
  /\ Len(u) = Len(s) + 1 /\ u[Len(s)] = f /\ u[Len(s) + 1] = g
  /\ \A i \in 1 .. Len(s) - 1 : u[i] = s[i]
Popped(s, u) ==
  /\ Len(u) = Len(s) - 1
  /\ \A i \in 1 .. Len(s) - 1 : u[i] = s[i]

LEMMA Tops ==
  ASSUME NEW s \in Seq(Frames), s # <<>>
  PROVE  /\ Len(s) \in Nat /\ Len(s) >= 1 /\ Len(s) \in 1 .. Len(s)
         /\ \A i \in 1 .. Len(s) : s[i] \in Frames
BY EmptySeq, LenProperties, ElementOfSeq

LEMMA ReplaceTop ==
  ASSUME NEW s \in Seq(Frames), s # <<>>, NEW f \in Frames
  PROVE  /\ [s EXCEPT ![Len(s)] = f] \in Seq(Frames)
         /\ Replaced(s, [s EXCEPT ![Len(s)] = f], f)
BY Tops, ExceptSeq DEF Replaced

LEMMA PushTop ==
  ASSUME NEW s \in Seq(Frames), s # <<>>, NEW f \in Frames, NEW g \in Frames
  PROVE  /\ Append([s EXCEPT ![Len(s)] = f], g) \in Seq(Frames)
         /\ Pushed(s, Append([s EXCEPT ![Len(s)] = f], g), f, g)
<1> DEFINE r == [s EXCEPT ![Len(s)] = f]
<1>1. r \in Seq(Frames) /\ Replaced(s, r, f)
  BY ReplaceTop
<1>2. Len(s) \in Nat /\ Len(s) >= 1
  BY Tops
<1> HIDE DEF r
<1>3. /\ Append(r, g) \in Seq(Frames) /\ Len(Append(r, g)) = Len(r) + 1
      /\ \A i \in 1 .. Len(r) : Append(r, g)[i] = r[i]
      /\ Append(r, g)[Len(r) + 1] = g
  BY <1>1, AppendProperties
<1>4. Append(r, g) \in Seq(Frames) /\ Pushed(s, Append(r, g), f, g)
  BY <1>1, <1>2, <1>3 DEF Replaced, Pushed
<1> QED
  BY <1>4 DEF r

LEMMA PopTop ==
  ASSUME NEW s \in Seq(Frames), s # <<>>
  PROVE  Pop(s) \in Seq(Frames) /\ Popped(s, Pop(s))
<1>1. /\ Len(s) \in Nat /\ Len(s) >= 1 /\ Len(s) - 1 \in Int
      /\ \A i \in 1 .. Len(s) - 1 : s[i] \in Frames
  BY Tops
<1>2. \A m, n \in Int : (\A i \in m .. n : s[i] \in Frames) =>
        /\ SubSeq(s, m, n) \in Seq(Frames)
        /\ Len(SubSeq(s, m, n)) = IF m <= n THEN n - m + 1 ELSE 0
        /\ \A i \in 1 .. n - m + 1 : SubSeq(s, m, n)[i] = s[m + i - 1]
  BY SubSeqProperties
<1>3. PICK k \in Int : k = Len(s) - 1
  BY <1>1
<1>4. /\ SubSeq(s, 1, k) \in Seq(Frames)
      /\ Len(SubSeq(s, 1, k)) = IF 1 <= k THEN k - 1 + 1 ELSE 0
      /\ \A i \in 1 .. k - 1 + 1 : SubSeq(s, 1, k)[i] = s[1 + i - 1]
  <2>1. 1 \in Int /\ \A i \in 1 .. k : s[i] \in Frames
    BY <1>1, <1>3
  <2> QED
    BY <1>2, <2>1, Zenon
<1>5. Pop(s) = SubSeq(s, 1, k)
  BY <1>3 DEF Pop
<1>6. k >= 0
  BY <1>1, <1>3
<1>7. Len(Pop(s)) = Len(s) - 1 /\ \A i \in 1 .. Len(s) - 1 : Pop(s)[i] = s[i]
  BY <1>3, <1>4, <1>5, <1>6
<1> QED
  BY <1>4, <1>5, <1>7 DEF Popped

LEMMA Classes ==
  /\ \A f \in Frames : IsAccess(f) => f \in AccessFrames
  /\ \A f \in Frames : ~IsAccess(f) => f \in InvFrames
  /\ \A f \in AccessFrames : IsAccess(f)
  /\ \A f \in InvFrames : ~IsAccess(f)
BY DEF Frames, IsAccess, AccessFrames, InvFrames, Gets, Puts

LEMMA MoveAccess ==
  ASSUME NEW f \in AccessFrames,
         NEW l \in {"tcc", "bcc", "evict", "insert", "dir", "end", "fill"}
  PROVE  LET g == [f EXCEPT !.at = l] IN
         /\ g \in AccessFrames /\ g.n = f.n /\ g.ty = f.ty /\ g.a = f.a /\ g.ch = f.ch
         /\ g.init = f.init /\ g.v = f.v /\ g.at = l
BY DEF AccessFrames

LEMMA MoveInv ==
  ASSUME NEW f \in InvFrames, NEW l \in {"lock", "down"}
  PROVE  LET g == [f EXCEPT !.at = l] IN
         g \in InvFrames /\ g.n = f.n /\ g.ty = f.ty /\ g.a = f.a /\ g.at = l
BY DEF InvFrames

------------------------------------------------------------------------------
(* The tree, and who can be where.                                         *)

LEMMA Family ==
  /\ Root \in Caches /\ Root \notin Leaves /\ Mem \notin Caches /\ Leaves \subseteq Caches
  /\ NoThread \notin Threads /\ NoAddr \notin Addrs
  /\ \A c \in Caches \ {Root} :
       /\ Parent[c] \in Caches /\ Parent[c] \notin Leaves /\ Parent[c] # c
       /\ c \in Children(Parent[c])
  /\ \A n \in Caches : \A c \in Children(n) : c \in Caches \ {Root} /\ Parent[c] = n
<1>1. ASSUME NEW c \in Caches \ {Root} PROVE Parent[c] # c
  <2>1. {c} \in SUBSET (Caches \ {Root}) /\ {c} # {}
    OBVIOUS
  <2> QED
    BY <2>1, CoherenceAssumption
<1> QED
  BY <1>1, CoherenceAssumption DEF Leaves, Children, Threads

LEMMA FrameTypes ==
  /\ \A f \in AccessFrames :
       /\ f.n \in Caches /\ f.ty \in Gets \cup Puts /\ f.a \in Addrs
       /\ f.ch \in Caches \cup {Mem} /\ f.init \in States /\ f.v \in Addrs \cup {NoAddr}
       /\ f.at \in {"tcc", "bcc", "evict", "insert", "dir", "end", "fill"}
  /\ \A f \in InvFrames :
       f.n \in Caches /\ f.ty \in {"INV", "INVX"} /\ f.a \in Addrs /\ f.at \in {"lock", "down"}
BY DEF AccessFrames, InvFrames

LEMMA OnlyFirstInLeaf ==
  ASSUME NEW s \in Seq(Frames), Shape(s), NEW i \in 1 .. Len(s),
         IsAccess(s[i]), s[i].n \in Leaves
  PROVE  i = 1
<1>1. SUFFICES ASSUME i > 1 PROVE FALSE
  BY LenProperties
<1>2. /\ s[i].n = Parent[s[i - 1].n] /\ s[i - 1].n # Root /\ s[i - 1] \in AccessFrames
  <2>1. Link(s[i - 1], s[i]) /\ i - 1 \in 1 .. Len(s)
    BY <1>1, LenProperties DEF Shape
  <2> QED
    BY <2>1, ElementOfSeq, Classes DEF Link
<1> QED
  BY <1>2, Family, FrameTypes

LEMMA ActiveOnce ==
  ASSUME Types, NEW t \in Threads, NEW u \in Threads, ThreadOK(t), ThreadOK(u),
         NEW i \in 1 .. Len(stack[t]), NEW j \in 1 .. Len(stack[u]),
         Active(stack[t], i), Active(stack[u], j), stack[t][i].n = stack[u][j].n
  PROVE  t = u /\ i = j
<1>1. CASE stack[t][i].n \in Leaves
  <2>1. i = 1 /\ j = 1
    BY <1>1, OnlyFirstInLeaf DEF Types, ThreadOK, Active
  <2>2. stack[t] # <<>> /\ stack[u] # <<>>
    BY EmptySeq
  <2> QED
    BY <2>1, <2>2 DEF ThreadOK, Rooted, Busy
<1>2. CASE stack[t][i].n \notin Leaves
  <2>1. t = u
    BY <1>2 DEF ThreadOK, Locked
  <2> QED
    BY <2>1 DEF ThreadOK, Once
<1> QED
  BY <1>1, <1>2

LEMMA HoldsOnce ==
  ASSUME NEW t \in Threads, NEW u \in Threads, ThreadOK(t), ThreadOK(u),
         NEW i \in 1 .. Len(stack[t]), NEW j \in 1 .. Len(stack[u]),
         Holds(stack[t], i), Holds(stack[u], j), stack[t][i].n = stack[u][j].n
  PROVE  t = u /\ i = j
<1>1. t = u
  BY DEF ThreadOK, Locked
<1> QED
  BY <1>1 DEF ThreadOK, Once

(* Who holds a cache of which a child is invalidated, and what an access   *)
(* must be doing that has made a call.                                     *)
LEMMA Callers ==
  ASSUME NEW s \in Seq(Frames), Shape(s), NEW i \in 1 .. Len(s), i > 1
  PROVE  /\ i - 1 \in 1 .. Len(s) /\ s[i - 1] \in Frames /\ s[i] \in Frames
         /\ ~IsAccess(s[i]) => /\ s[i].n \in Caches \ {Root} /\ s[i - 1].n = Parent[s[i].n]
                               /\ Holds(s, i - 1)
                               /\ s[i - 1].at \in {"evict", "dir", "down"}
         /\ IsAccess(s[i]) => /\ IsAccess(s[i - 1]) /\ s[i - 1].n \in Caches \ {Root}
                              /\ s[i].ch = s[i - 1].n /\ s[i].n = Parent[s[i - 1].n]
                              /\ s[i].n \notin Leaves
                              /\ s[i - 1].at \in {"insert", "dir", "end"}
                              /\ s[i - 1].at = "end" => s[i - 1].n \in Leaves
                              /\ s[i - 1].ty \in Gets
                              /\ Active(s, i - 1) /\ ~Holds(s, i - 1)
<1>1. /\ i - 1 \in 1 .. Len(s) /\ s[i - 1] \in Frames /\ s[i] \in Frames
      /\ Link(s[i - 1], s[i]) /\ FrameOK(s[i]) /\ FrameOK(s[i - 1])
      /\ i - 1 < Len(s) /\ i - 1 + 1 = i
  <2>1. i - 1 \in 1 .. Len(s) /\ i - 1 < Len(s) /\ i - 1 + 1 = i
    BY LenProperties
  <2> QED
    BY <2>1, ElementOfSeq DEF Shape
<1>2. CASE IsAccess(s[i])
  BY <1>1, <1>2, Classes, FrameTypes, Family DEF Link, FrameOK, After, Active, Holds
<1>3. CASE ~IsAccess(s[i])
  BY <1>1, <1>3, Classes, FrameTypes, Family DEF Link, FrameOK, Holds, Gets
<1> QED
  BY <1>1, <1>2, <1>3

(* A parent that has answered, or serves a put, has no call under way.     *)
LEMMA Settled ==
  ASSUME NEW s \in Seq(Frames), Shape(s), NEW i \in 1 .. Len(s), i > 1, IsAccess(s[i]),
         s[i].at = "end" \/ (s[i].at = "dir" /\ s[i].ty \in Puts)
  PROVE  i = Len(s) /\ Holds(s, i)
<1>1. s[i].n \notin Leaves /\ Len(s) \in Nat /\ i \in Nat /\ FrameOK(s[i])
  BY Callers, LenProperties DEF Shape
<1>2. ASSUME i < Len(s) PROVE FALSE
  <2>1. i + 1 \in 1 .. Len(s) /\ i + 1 > 1 /\ (i + 1) - 1 = i
    BY <1>1, <1>2
  <2>2. Link(s[i], s[i + 1])
    BY <2>1 DEF Shape
  <2> QED
    BY <1>1, <2>2 DEF Link, After, FrameOK, Gets, Puts
<1> QED
  BY <1>1, <1>2 DEF Holds

------------------------------------------------------------------------------
(* A change of the last frame, a call and a return keep the shape.         *)

(* Frame f is what frame e has become.                                     *)
SameCall(e, f) ==
  /\ f \in Frames /\ FrameOK(f) /\ f.n = e.n /\ f.a = e.a
  /\ IsAccess(f) <=> IsAccess(e)
  /\ IsAccess(f) => f.ch = e.ch
  /\ f.ty = e.ty \/ {e.ty, f.ty} \subseteq Puts

LEMMA ShapeOfReplaced ==
  ASSUME NEW s \in Seq(Frames), NEW u \in Seq(Frames), s # <<>>, Shape(s),
         NEW f, Replaced(s, u, f), SameCall(s[Len(s)], f)
  PROVE  Shape(u)
<1>1. Len(s) \in Nat /\ Len(s) >= 1
  BY Tops
<1>2. ASSUME NEW i \in 1 .. Len(u) PROVE FrameOK(u[i])
  BY <1>1, <1>2 DEF Replaced, SameCall, Shape
<1>3. ASSUME NEW i \in 1 .. Len(u), i > 1 PROVE Link(u[i - 1], u[i])
  <2>1. CASE i < Len(s)
    BY <1>1, <1>3, <2>1 DEF Replaced, Shape
  <2>2. CASE i = Len(s)
    <3>1. Link(s[i - 1], s[i]) /\ u[i - 1] = s[i - 1] /\ u[i] = f
      BY <1>1, <1>3, <2>2 DEF Replaced, Shape
    <3> QED
      BY <2>2, <3>1 DEF SameCall, Link, Gets, Puts, IsAccess
  <2> QED
    BY <1>1, <2>1, <2>2 DEF Replaced
<1>4. ASSUME NEW i \in 1 .. Len(u) PROVE IsAccess(u[i]) <=> IsAccess(s[i])
  BY <1>1, <1>4 DEF Replaced, SameCall
<1> QED
  BY <1>2, <1>3, <1>4 DEF Shape, Replaced

LEMMA ShapeOfPushed ==
  ASSUME NEW s \in Seq(Frames), NEW u \in Seq(Frames), s # <<>>, Shape(s),
         NEW f, NEW g, Pushed(s, u, f, g), SameCall(s[Len(s)], f), Link(f, g), FrameOK(g)
  PROVE  Shape(u)
<1>1. Len(s) \in Nat /\ Len(s) >= 1
  BY Tops
<1>2. ASSUME NEW i \in 1 .. Len(u) PROVE FrameOK(u[i])
  BY <1>1, <1>2 DEF Pushed, SameCall, Shape
<1>3. ASSUME NEW i \in 1 .. Len(u), i > 1 PROVE Link(u[i - 1], u[i])
  <2>1. CASE i < Len(s)
    BY <1>1, <1>3, <2>1 DEF Pushed, Shape
  <2>2. CASE i = Len(s)
    <3>1. Link(s[i - 1], s[i]) /\ u[i - 1] = s[i - 1] /\ u[i] = f
      BY <1>1, <1>3, <2>2 DEF Pushed, Shape
    <3> QED
      BY <2>2, <3>1 DEF SameCall, Link, Gets, Puts, IsAccess
  <2>3. CASE i = Len(s) + 1
    BY <1>1, <1>3, <2>3 DEF Pushed
  <2> QED
    BY <1>1, <2>1, <2>2, <2>3 DEF Pushed
<1>4. ASSUME NEW i \in 1 .. Len(s) PROVE IsAccess(u[i]) <=> IsAccess(s[i])
  BY <1>1, <1>4 DEF Pushed, SameCall
<1>5. IsAccess(g) => IsAccess(f)
  BY DEF Link
<1>6. ASSUME NEW i \in 1 .. Len(u), NEW j \in 1 .. Len(u), i < j, IsAccess(u[j])
      PROVE  IsAccess(u[i])
  <2>1. CASE j <= Len(s)
    BY <1>1, <1>4, <1>6, <2>1 DEF Shape, Pushed
  <2>2. CASE j = Len(s) + 1
    <3>1. IsAccess(f) /\ IsAccess(s[Len(s)])
      BY <1>1, <1>5, <1>6, <2>2 DEF Pushed, SameCall
    <3> QED
      BY <1>1, <1>4, <1>6, <2>2, <3>1 DEF Shape, Pushed
  <2> QED
    BY <1>1, <1>6, <2>1, <2>2 DEF Pushed
<1> QED
  BY <1>2, <1>3, <1>6 DEF Shape

LEMMA ShapeOfPopped ==
  ASSUME NEW s \in Seq(Frames), NEW u \in Seq(Frames), s # <<>>, Shape(s), Popped(s, u)
  PROVE  Shape(u)
<1>1. Len(s) \in Nat /\ Len(s) >= 1
  BY Tops
<1> QED
  BY <1>1 DEF Popped, Shape

------------------------------------------------------------------------------
(* What a step changes for a thread that does not take it.                 *)

(* Other caches have lost a's line at n, or the right to write it.         *)
Lost(n, a) == \/ Valid(st[n][a]) /\ st'[n][a] = "I"
              \/ Excl(st[n][a]) /\ st'[n][a] = "S"

SameTags(n) == \A a \in Addrs : st[n][a] = "none" <=> st'[n][a] = "none"
FewerSharers(n) == \A a \in Addrs : dir'[n][a].sh \subseteq dir[n][a].sh
SameRights(n) ==
  \A a \in Addrs : /\ Valid(st[n][a]) <=> Valid(st'[n][a])
                   /\ Excl(st[n][a]) <=> Excl(st'[n][a])
SameCache(n) == st'[n] = st[n] /\ dir'[n] = dir[n]

LEMMA KeepReq ==
  ASSUME NEW f \in AccessFrames, ReqOK(f),
         f.ch # Mem =>
           /\ FewerSharers(f.ch)
           /\ \/ st'[f.ch][f.a] = st[f.ch][f.a]
              \/ /\ Lost(f.ch, f.a)
                 /\ f.at # "end" /\ ~(f.at = "dir" /\ f.ty \in Puts)
  PROVE  ReqOK(f)'
<1>1. f.a \in Addrs /\ f.ty \in Gets \cup Puts
  BY FrameTypes
<1>2. SUFFICES ASSUME f.ch # Mem PROVE ReqOK(f)'
  BY DEF ReqOK
<1>3. dir[f.ch][f.a].sh = {} => dir'[f.ch][f.a].sh = {}
  BY <1>1, <1>2 DEF FewerSharers
<1>4. CASE st'[f.ch][f.a] = st[f.ch][f.a]
  BY <1>1, <1>2, <1>3, <1>4 DEF ReqOK
<1>5. CASE Lost(f.ch, f.a) /\ f.at # "end" /\ ~(f.at = "dir" /\ f.ty \in Puts)
  BY <1>1, <1>2, <1>3, <1>5 DEF ReqOK, Lost, Valid, Excl, Gets, Puts
<1> QED
  BY <1>2, <1>4, <1>5

(* What a frame relies on when it is left alone: in the stack w as in s.   *)
LEMMA FrameStable ==
  ASSUME NEW s \in Seq(Frames), NEW w \in Seq(Frames), Shape(s),
         NEW i \in 1 .. Len(s), i \in 1 .. Len(w), w[i] = s[i], FrameClaim(s, i),
         IsAccess(s[1]) /\ s[1].n \in Leaves,
         i > 1 /\ IsAccess(s[i]) =>
           LET c == s[i - 1].n IN
           /\ FewerSharers(c)
           /\ \A a \in Addrs : st'[c][a] = st[c][a] \/ Lost(c, a)
           /\ s[i].at = "end" \/ (s[i].at = "dir" /\ s[i].ty \in Puts) => st'[c] = st[c],
         IsAccess(s[i]) /\ s[i].at \in {"evict", "insert"} => SameTags(s[i].n),
         Holds(w, i) => Holds(s, i),
         Holds(s, i) \/ s[i].at = "fill" => st'[s[i].n] = st[s[i].n],
         ~IsAccess(s[i]) => SameRights(s[i].n)
  PROVE  FrameClaim(w, i)'
<1> DEFINE f == s[i]
<1>1. f \in Frames /\ Len(s) \in Nat /\ w[i] = f
  BY LenProperties, ElementOfSeq
<1>2. ASSUME IsAccess(f) PROVE ReqOK(f)'
  <2>1. f \in AccessFrames /\ ReqOK(f) /\ f.a \in Addrs /\ FrameOK(f)
    BY <1>1, <1>2, Classes, FrameTypes DEF FrameClaim, Shape
  <2>2. ASSUME f.ch # Mem
        PROVE  /\ FewerSharers(f.ch)
               /\ \/ st'[f.ch][f.a] = st[f.ch][f.a]
                  \/ /\ Lost(f.ch, f.a)
                     /\ f.at # "end" /\ ~(f.at = "dir" /\ f.ty \in Puts)
    <3>1. i > 1
      BY <1>1, <1>2, <2>1, <2>2 DEF FrameOK
    <3>2. f.ch = s[i - 1].n
      BY <1>2, <3>1, Callers
    <3> QED
      BY <1>2, <2>1, <3>1, <3>2
  <2> QED
    BY <2>1, <2>2, KeepReq
<1>3. ASSUME IsAccess(f) PROVE VictimOK(f)'
  <2>1. f \in AccessFrames /\ VictimOK(f) /\ f.a \in Addrs
    BY <1>1, <1>3, Classes, FrameTypes DEF FrameClaim
  <2>2. f.at \in {"evict", "insert"} => SameTags(f.n)
    BY <1>3
  <2> QED
    BY <2>1, <2>2 DEF VictimOK, SameTags, Tagged
<1>4. ASSUME IsAccess(f), Holds(w, i) \/ f.at = "fill" PROVE OwnOK(f)'
  <2>1. OwnOK(f) /\ st'[f.n] = st[f.n]
    BY <1>4 DEF FrameClaim
  <2> QED
    BY <2>1 DEF OwnOK
<1>5. ASSUME ~IsAccess(f) PROVE InvOK(f)'
  <2>1. InvOK(f) /\ SameRights(f.n) /\ f.a \in Addrs
    BY <1>1, <1>5, Classes, FrameTypes DEF FrameClaim
  <2> QED
    BY <2>1 DEF InvOK, SameRights
<1> QED
  BY <1>1, <1>2, <1>3, <1>4, <1>5 DEF FrameClaim

LEMMA Undisturbed ==
  ASSUME Types, Types', NEW u \in Threads, ThreadOK(u), stack'[u] = stack[u], wb'[u] = wb[u],
         \A n \in Caches : /\ tcc[n] = u => tcc'[n] = u
                           /\ bcc[n] = u => bcc'[n] = u,
         \A n \in Leaves : flock[n] = u => flock'[n] = u,
         \A i \in 1 .. Len(stack[u]) :
           LET n == stack[u][i].n IN
           /\ Active(stack[u], i) =>
                /\ SameTags(n) /\ FewerSharers(n)
                /\ \A a \in Addrs : st'[n][a] = st[n][a] \/ Lost(n, a)
           /\ Holds(stack[u], i) \/ stack[u][i].at = "fill" => st'[n] = st[n]
           /\ Holds(stack[u], i) => dir'[n] = dir[n]
           /\ i < Len(stack[u]) /\ Active(stack[u], i) /\ Holds(stack[u], i + 1) => st'[n] = st[n]
           /\ ~IsAccess(stack[u][i]) => SameRights(n)
  PROVE  ThreadOK(u)'
<1> DEFINE s == stack[u]
<1>1. /\ s \in Seq(Frames) /\ Len(s) \in Nat /\ Shape(s) /\ s' = s
      /\ \A i \in 1 .. Len(s) : s[i] \in Frames
  BY LenProperties, ElementOfSeq DEF Types, ThreadOK
<1>2. Shape(s)' /\ Rooted(u)' /\ Once(s)'
  <2>1. Shape(s)' <=> Shape(s)
    BY <1>1, Zenon
  <2>2. Once(s)' <=> Once(s)
    BY <1>1, Zenon
  <2> QED
    BY <1>1, <2>1, <2>2 DEF ThreadOK, Rooted, Busy
<1>3. Locked(u)'
  <2>1. ASSUME NEW i \in 1 .. Len(s) PROVE s[i].n \in Caches /\ (s[i].at = "fill" => s[i].n \in Leaves)
    BY <1>1, Classes, FrameTypes DEF Shape, FrameOK
  <2> QED
    BY <1>1, <2>1 DEF ThreadOK, Locked
<1>4. FramesOK(s)'
  <2>1. PICK w \in Seq(Frames) : w = s
    BY <1>1
  <2>2. Shape(w) /\ (\A i \in 1 .. Len(w) : FrameClaim(w, i)) /\ (w # <<>> => IsAccess(w[1]) /\ w[1].n \in Leaves)
    BY <1>1, <2>1 DEF ThreadOK, FramesOK, Rooted, Busy, Threads
  <2>3. ASSUME NEW i \in 1 .. Len(w) PROVE FrameClaim(w, i)'
    <3>1. i > 1 /\ IsAccess(w[i]) =>
            /\ i - 1 \in 1 .. Len(w) /\ Active(w, i - 1) /\ w[i] \in Frames
            /\ i - 1 < Len(w) /\ (i - 1) + 1 = i
      BY <2>2, Callers, LenProperties
    <3>2. i > 1 /\ IsAccess(w[i]) =>
            LET c == w[i - 1].n IN
            /\ FewerSharers(c)
            /\ \A a \in Addrs : st'[c][a] = st[c][a] \/ Lost(c, a)
            /\ w[i].at = "end" \/ (w[i].at = "dir" /\ w[i].ty \in Puts) => st'[c] = st[c]
      <4>1. i > 1 /\ IsAccess(w[i]) /\ (w[i].at = "end" \/ (w[i].at = "dir" /\ w[i].ty \in Puts))
              => Holds(w, i)
        BY <2>2, Settled
      <4> QED
        BY <2>1, <3>1, <4>1
    <3>3. IsAccess(w[i]) /\ w[i].at \in {"evict", "insert"} => SameTags(w[i].n)
      BY <2>1 DEF Active
    <3>4. Holds(w, i) \/ w[i].at = "fill" => st'[w[i].n] = st[w[i].n]
      BY <2>1
    <3>5. ~IsAccess(w[i]) => SameRights(w[i].n)
      BY <2>1
    <3> QED
      BY <2>2, <3>2, <3>3, <3>4, <3>5, FrameStable
  <2> QED
    BY <1>1, <2>1, <2>3 DEF FramesOK, FrameClaim, Holds, IsAccess
<1>5. WritebackOK(u)'
  <2>1. SUFFICES ASSUME wb[u] # NoAddr PROVE WritebackOK(u)'
    BY DEF WritebackOK
  <2>2. Busy(u) /\ Len(s) \in 1 .. Len(s) /\ Top(u)' = Top(u) /\ Top(u) = s[Len(s)]
    BY <1>1, <2>1, Tops DEF ThreadOK, WritebackOK, Busy, Top
  <2>3. Holds(s, Len(s))
    <3>1. Top(u).at \in {"evict", "dir", "down"}
      BY <2>1 DEF ThreadOK, WritebackOK
    <3>2. s[Len(s)] \in Frames
      BY <1>1, <2>2
    <3> QED
      BY <1>1, <2>2, <3>1, <3>2, Classes, FrameTypes DEF Holds
  <2>4. st'[Top(u).n] = st[Top(u).n] /\ dir'[Top(u).n] = dir[Top(u).n]
    BY <2>2, <2>3
  <2> QED
    BY <2>1, <2>2, <2>4 DEF ThreadOK, WritebackOK, Busy
<1> QED
  BY <1>2, <1>3, <1>4, <1>5 DEF ThreadOK

(* A step of t moves nobody else and takes nobody's locks.                 *)
Alone(t) ==
  \A u \in Threads \ {t} :
    /\ stack'[u] = stack[u] /\ wb'[u] = wb[u]
    /\ \A n \in Caches : /\ tcc[n] = u => tcc'[n] = u
                         /\ bcc[n] = u => bcc'[n] = u
    /\ \A n \in Leaves : flock[n] = u => flock'[n] = u

Threaded == \A t \in Threads : ThreadOK(t)

(* t works on cache m, which it has locked or is locking.                  *)
LEMMA OthersSeeOwn ==
  ASSUME Types, Types', Threaded, NEW t \in Threads, Alone(t), NEW m \in Caches,
         NEW k \in 1 .. Len(stack[t]), stack[t][k].n = m, Active(stack[t], k),
         bcc[m] \in {NoThread, t},
         \A n \in Caches \ {m} : SameCache(n),
         m # Root => SameRights(m)
  PROVE  \A u \in Threads \ {t} : ThreadOK(u)'
<1> SUFFICES ASSUME NEW u \in Threads \ {t} PROVE ThreadOK(u)'
  OBVIOUS
<1> DEFINE s == stack[u]
<1>1. /\ s \in Seq(Frames) /\ Shape(s) /\ ThreadOK(u) /\ ThreadOK(t)
      /\ \A i \in 1 .. Len(s) : s[i] \in Frames /\ s[i].n \in Caches
  BY ElementOfSeq, Classes, FrameTypes DEF Threaded, ThreadOK, Types
<1>2. ASSUME NEW i \in 1 .. Len(s), Active(s, i) PROVE s[i].n # m
  BY <1>1, <1>2, ActiveOnce
<1>3. ASSUME NEW i \in 1 .. Len(s), Holds(s, i) PROVE s[i].n # m
  BY <1>1, <1>3, Family DEF ThreadOK, Locked
<1>4. ASSUME NEW i \in 1 .. Len(s), s[i].at = "fill" PROVE Active(s, i)
  BY <1>1, <1>4, Classes, FrameTypes DEF Active
<1>5. ASSUME NEW i \in 1 .. Len(s), ~IsAccess(s[i]) PROVE SameRights(s[i].n)
  <2>1. s[i].n # Root
    BY <1>1, <1>5 DEF Shape, FrameOK
  <2> QED
    BY <1>1, <2>1 DEF SameCache, SameRights
<1>6. \A n \in Caches \ {m} : /\ st'[n] = st[n] /\ dir'[n] = dir[n]
                              /\ SameTags(n) /\ FewerSharers(n)
  BY DEF SameCache, SameTags, FewerSharers
<1> QED
  BY <1>1, <1>2, <1>3, <1>4, <1>5, <1>6, Undisturbed DEF Alone

(* t serves the child ch of cache m, at which it waits.                    *)
LEMMA OthersSeeServe ==
  ASSUME Types, Types', Threaded, NEW t \in Threads, Alone(t), NEW m \in Caches, NEW ch \in Caches,
         NEW k \in 1 .. Len(stack[t]), k > 1, stack[t][k].n = m, stack[t][k].ch = ch,
         IsAccess(stack[t][k]), stack[t][k].at = "dir", Holds(stack[t], k),
         \A n \in Caches \ {m, ch} : SameCache(n),
         SameRights(m)
  PROVE  \A u \in Threads \ {t} : ThreadOK(u)'
<1> SUFFICES ASSUME NEW u \in Threads \ {t} PROVE ThreadOK(u)'
  OBVIOUS
<1> DEFINE s == stack[u]
<1>1. /\ s \in Seq(Frames) /\ Shape(s) /\ ThreadOK(u) /\ ThreadOK(t)
      /\ stack[t] \in Seq(Frames) /\ Shape(stack[t])
      /\ \A i \in 1 .. Len(s) : s[i] \in Frames /\ s[i].n \in Caches
  BY ElementOfSeq, Classes, FrameTypes DEF Threaded, ThreadOK, Types
<1>2. /\ k - 1 \in 1 .. Len(stack[t]) /\ stack[t][k - 1].n = ch /\ Active(stack[t], k - 1)
      /\ Active(stack[t], k) /\ ch \in Caches \ {Root} /\ m = Parent[ch]
  BY <1>1, Callers DEF Active
<1>3. ASSUME NEW i \in 1 .. Len(s), Active(s, i) PROVE s[i].n \notin {m, ch}
  BY <1>1, <1>2, <1>3, ActiveOnce
<1>4. ASSUME NEW i \in 1 .. Len(s), Holds(s, i) PROVE s[i].n # m
  BY <1>1, <1>4, HoldsOnce
<1>5. ASSUME NEW i \in 1 .. Len(s), ~IsAccess(s[i]) PROVE s[i].n # ch
  <2>1. i > 1
    BY <1>1, <1>5, LenProperties, EmptySeq DEF ThreadOK, Rooted, Busy
  <2>2. i - 1 \in 1 .. Len(s) /\ s[i - 1].n = Parent[s[i].n] /\ Holds(s, i - 1)
    BY <1>1, <1>5, <2>1, Callers
  <2> QED
    BY <1>2, <1>4, <2>2
<1>6. ASSUME NEW i \in 1 .. Len(s), s[i].at = "fill" PROVE Active(s, i)
  BY <1>1, <1>6, Classes, FrameTypes DEF Active
<1>7. ASSUME NEW i \in 1 .. Len(s), Holds(s, i) PROVE s[i].n \notin {m, ch}
  BY <1>3, <1>4, <1>5, <1>7 DEF Holds, Active
<1>8. \A n \in Caches \ {m, ch} : /\ st'[n] = st[n] /\ dir'[n] = dir[n]
                                  /\ SameTags(n) /\ FewerSharers(n) /\ SameRights(n)
  BY DEF SameCache, SameTags, FewerSharers, SameRights
<1>9. ASSUME NEW i \in 1 .. Len(s), ~IsAccess(s[i]) PROVE SameRights(s[i].n)
  BY <1>1, <1>5, <1>8, <1>9
<1> QED
  BY <1>1, <1>3, <1>6, <1>7, <1>8, <1>9, Undisturbed DEF Alone

(* t takes line a away from cache m, below p.                              *)
LEMMA OthersSeeLoss ==
  ASSUME Types, Types', Threaded, NEW t \in Threads, Alone(t),
         NEW m \in Caches \ {Root}, NEW p \in Caches, p = Parent[m], NEW a \in Addrs,
         NEW k \in 1 .. Len(stack[t]), k > 1, stack[t][k].n = m,
         ~IsAccess(stack[t][k]), Holds(stack[t], k),
         m \in Leaves => flock[m] = NoThread,
         \A n \in Caches \ {m, p} : SameCache(n),
         dir'[m] = dir[m], st'[p] = st[p], FewerSharers(p),
         Lost(m, a), \A b \in Addrs \ {a} : st'[m][b] = st[m][b]
  PROVE  \A u \in Threads \ {t} : ThreadOK(u)'
<1> SUFFICES ASSUME NEW u \in Threads \ {t} PROVE ThreadOK(u)'
  OBVIOUS
<1> DEFINE s == stack[u]
<1>1. /\ s \in Seq(Frames) /\ Shape(s) /\ ThreadOK(u) /\ ThreadOK(t)
      /\ stack[t] \in Seq(Frames) /\ Shape(stack[t])
      /\ \A i \in 1 .. Len(s) : s[i] \in Frames /\ s[i].n \in Caches
  BY ElementOfSeq, Classes, FrameTypes DEF Threaded, ThreadOK, Types
<1>2. k - 1 \in 1 .. Len(stack[t]) /\ stack[t][k - 1].n = p /\ Holds(stack[t], k - 1)
  BY <1>1, Callers
<1>3. ASSUME NEW i \in 1 .. Len(s), Holds(s, i) PROVE s[i].n \notin {m, p}
  BY <1>1, <1>2, <1>3, HoldsOnce
<1>4. ASSUME NEW i \in 1 .. Len(s), ~IsAccess(s[i]) PROVE s[i].n # m
  <2>1. i > 1
    BY <1>1, <1>4, LenProperties, EmptySeq DEF ThreadOK, Rooted, Busy
  <2>2. i - 1 \in 1 .. Len(s) /\ s[i - 1].n = Parent[s[i].n] /\ Holds(s, i - 1)
    BY <1>1, <1>4, <2>1, Callers
  <2> QED
    BY <1>3, <2>2
<1>5. ASSUME NEW i \in 1 .. Len(s), s[i].at = "fill" PROVE s[i].n # m
  <2>1. s[i].n \in Leaves /\ flock[s[i].n] = u
    BY <1>1, <1>5, Classes, FrameTypes DEF ThreadOK, Locked, Shape, FrameOK
  <2> QED
    BY <2>1, Family
<1>6. ASSUME NEW i \in 1 .. Len(s), i < Len(s), Active(s, i), Holds(s, i + 1) PROVE s[i].n # m
  <2>1. i + 1 \in 1 .. Len(s) /\ i + 1 > 1 /\ (i + 1) - 1 = i
    BY <1>1, <1>6, LenProperties
  <2>2. CASE IsAccess(s[i + 1])
    BY <1>1, <1>3, <1>6, <2>1, <2>2, Callers
  <2>3. CASE ~IsAccess(s[i + 1])
    BY <1>1, <1>3, <1>6, <2>1, <2>3, Callers
  <2> QED
    BY <2>2, <2>3
<1>7. /\ \A n \in Caches \ {m, p} : st'[n] = st[n] /\ dir'[n] = dir[n]
      /\ \A n \in Caches \ {m} : st'[n] = st[n] /\ SameRights(n)
      /\ \A n \in Caches : /\ SameTags(n) /\ FewerSharers(n)
                           /\ \A b \in Addrs : st'[n][b] = st[n][b] \/ Lost(n, b)
  BY DEF SameCache, SameTags, FewerSharers, SameRights, Lost, Valid, Excl
<1> QED
  BY <1>1, <1>3, <1>4, <1>5, <1>6, <1>7, Undisturbed DEF Alone
LEMMA OthersSeeNothing ==
  ASSUME Types, Types', Threaded, NEW t \in Threads, Alone(t), UNCHANGED <<st, dir>>
  PROVE  \A u \in Threads \ {t} : ThreadOK(u)'
<1> SUFFICES ASSUME NEW u \in Threads \ {t} PROVE ThreadOK(u)'
  OBVIOUS
<1>1. /\ \A n \in Caches : SameTags(n) /\ FewerSharers(n) /\ SameRights(n)
      /\ \A i \in 1 .. Len(stack[u]) : stack[u][i].n \in Caches
  BY ElementOfSeq, Classes, FrameTypes DEF SameTags, FewerSharers, SameRights, Types
<1> QED
  BY <1>1, Undisturbed DEF Alone, Threaded

(* The frames below the last one rely on the same.                         *)
LEMMA BelowNothing ==
  ASSUME NEW s \in Seq(Frames), NEW w \in Seq(Frames), FramesOK(s), UNCHANGED <<st, dir>>,
         NEW i \in 1 .. Len(s), w[i] = s[i], Holds(w, i) => Holds(s, i)
  PROVE  FrameClaim(w, i)'
BY DEF FramesOK, FrameClaim, ReqOK, VictimOK, OwnOK, InvOK, Tagged

LEMMA BelowOwn ==
  ASSUME NEW s \in Seq(Frames), NEW w \in Seq(Frames), s # <<>>, Shape(s), FramesOK(s),
         IsAccess(s[1]) /\ s[1].n \in Leaves,
         Len(w) >= Len(s), \A i \in 1 .. Len(s) - 1 : w[i] = s[i],
         IsAccess(s[Len(s)]), IsAccess(w[Len(s)]),
         NEW m \in Caches, \A i \in 1 .. Len(s) - 1 : s[i].n # m,
         \A n \in Caches \ {m} : SameCache(n)
  PROVE  \A i \in 1 .. Len(s) - 1 : FrameClaim(w, i)'
<1> SUFFICES ASSUME NEW i \in 1 .. Len(s) - 1 PROVE FrameClaim(w, i)'
  OBVIOUS
<1>1. /\ Len(s) \in Nat /\ Len(s) >= 1 /\ i \in 1 .. Len(s) /\ i < Len(s) /\ Len(s) \in 1 .. Len(s)
      /\ s[i] \in Frames /\ w[i] = s[i] /\ FrameClaim(s, i) /\ s[i].n # m /\ s[i].n \in Caches
      /\ Len(w) \in Nat /\ i \in 1 .. Len(w) /\ i < Len(w)
  BY Tops, LenProperties, ElementOfSeq, Classes, FrameTypes DEF FramesOK
<1>2. IsAccess(s[i])
  BY <1>1 DEF Shape
<1>3. Holds(w, i) => Holds(s, i)
  <2>1. CASE i = Len(s) - 1
    BY <1>1, <1>2, <2>1 DEF Holds
  <2>2. CASE i < Len(s) - 1
    <3>1. i + 1 \in 1 .. Len(s) - 1 /\ w[i + 1] = s[i + 1]
      BY <1>1, <2>2
    <3> QED
      BY <1>1, <1>2, <3>1 DEF Holds
  <2> QED
    BY <1>1, <2>1, <2>2
<1>4. i > 1 => i - 1 \in 1 .. Len(s) - 1 /\ s[i - 1].n \in Caches \ {m}
  <2>1. i > 1 => i - 1 \in 1 .. Len(s) - 1 /\ i - 1 \in 1 .. Len(s)
    BY <1>1
  <2> QED
    BY <1>1, <2>1, ElementOfSeq, Classes, FrameTypes
<1>5. /\ SameTags(s[i].n) /\ st'[s[i].n] = st[s[i].n]
      /\ i > 1 => FewerSharers(s[i - 1].n) /\ st'[s[i - 1].n] = st[s[i - 1].n]
  BY <1>1, <1>4 DEF SameCache, SameTags, FewerSharers
<1> QED
  BY <1>1, <1>2, <1>3, <1>5, FrameStable

LEMMA BelowServe ==
  ASSUME NEW s \in Seq(Frames), NEW w \in Seq(Frames), Len(s) > 1, Shape(s), FramesOK(s),
         IsAccess(s[1]) /\ s[1].n \in Leaves, Once(s),
         NEW f, Replaced(s, w, f), IsAccess(f), IsAccess(s[Len(s)]), Active(s, Len(s)),
         NEW m \in Caches, NEW ch \in Caches, s[Len(s)].n = m, s[Len(s)].ch = ch,
         SameTags(ch), \A n \in Caches \ {m, ch} : SameCache(n)
  PROVE  \A i \in 1 .. Len(s) - 1 : FrameClaim(w, i)'
<1> SUFFICES ASSUME NEW i \in 1 .. Len(s) - 1 PROVE FrameClaim(w, i)'
  OBVIOUS
<1>0. s # <<>> /\ Len(s) \in Nat
  BY EmptySeq, LenProperties
<1>1. /\ Len(s) \in 1 .. Len(s) /\ i \in 1 .. Len(s) /\ i < Len(s)
      /\ s[i] \in Frames /\ w[i] = s[i] /\ FrameClaim(s, i) /\ s[i].n \in Caches
      /\ i \in 1 .. Len(w) /\ i < Len(w) /\ i + 1 \in 1 .. Len(s)
      /\ i + 1 > 1 /\ (i + 1) - 1 = i
  BY <1>0, ElementOfSeq, Classes, FrameTypes DEF FramesOK, Replaced
<1>2. IsAccess(s[i]) /\ IsAccess(s[i + 1]) /\ IsAccess(w[i + 1])
  <2>1. IsAccess(s[i]) /\ IsAccess(s[i + 1])
    BY <1>1 DEF Shape
  <2>2. i + 1 = Len(s) \/ i + 1 \in 1 .. Len(s) - 1
    BY <1>0, <1>1
  <2> QED
    BY <2>1, <2>2 DEF Replaced
<1>3. ~Holds(w, i) /\ s[i].at # "fill" /\ Active(s, i) /\ ~Holds(s, i)
  <2>1. Active(s, i) /\ ~Holds(s, i) /\ s[i].at \in {"insert", "dir", "end"}
    <3>1. \A j \in 1 .. Len(s) : j > 1 /\ IsAccess(s[j]) =>
            Active(s, j - 1) /\ ~Holds(s, j - 1) /\ s[j - 1].at \in {"insert", "dir", "end"}
      BY Callers
    <3> QED
      BY <1>1, <1>2, <3>1
  <2>2. ~Holds(w, i)
    BY <1>1, <1>2 DEF Holds
  <2> QED
    BY <2>1, <2>2
<1>4. s[i].n # m
  BY <1>1, <1>3 DEF Once
<1>5. SameTags(s[i].n)
  BY <1>1, <1>4 DEF SameCache, SameTags
<1>6. ASSUME i > 1 PROVE s[i - 1].n \in Caches \ {m, ch}
  <2>1. i - 1 \in 1 .. Len(s) /\ Active(s, i - 1) /\ s[i - 1] \in Frames
    BY <1>1, <1>2, <1>6, Callers
  <2>2. s[i - 1].n \in Caches /\ s[i - 1].n # m
    <3>1. s[i - 1].n \in Caches
      BY <2>1, Classes, FrameTypes
    <3>2. i - 1 # Len(s)
      BY <1>1, <2>1
    <3>3. s[i - 1].n = s[Len(s)].n /\ Active(s, i - 1) /\ Active(s, Len(s)) => i - 1 = Len(s)
      BY <1>1, <2>1 DEF Once
    <3> QED
      BY <2>1, <3>1, <3>2, <3>3
  <2>3. /\ Len(s) - 1 \in 1 .. Len(s) /\ Active(s, Len(s) - 1) /\ s[Len(s) - 1].n = ch
    BY <1>0, <1>1, Callers
  <2>4. s[i - 1].n # ch
    BY <1>0, <1>1, <2>1, <2>3 DEF Once
  <2> QED
    BY <2>2, <2>4
<1>7. i > 1 => FewerSharers(s[i - 1].n) /\ st'[s[i - 1].n] = st[s[i - 1].n]
  BY <1>6 DEF SameCache, FewerSharers
<1> QED
  BY <1>1, <1>2, <1>3, <1>5, <1>7, FrameStable

LEMMA BelowLoss ==
  ASSUME NEW s \in Seq(Frames), NEW w \in Seq(Frames), Len(s) > 1, Shape(s), FramesOK(s),
         IsAccess(s[1]) /\ s[1].n \in Leaves, Once(s), Popped(s, w),
         NEW m \in Caches, NEW p \in Caches, s[Len(s)].n = m, NEW a \in Addrs,
         ~IsAccess(s[Len(s)]), Holds(s, Len(s)),
         m \in Leaves => ~\E i \in 1 .. Len(s) : s[i].at = "fill",
         \A n \in Caches \ {m, p} : SameCache(n),
         dir'[m] = dir[m], st'[p] = st[p], FewerSharers(p),
         Lost(m, a), \A b \in Addrs \ {a} : st'[m][b] = st[m][b]
  PROVE  \A i \in 1 .. Len(s) - 1 : FrameClaim(w, i)'
<1> SUFFICES ASSUME NEW i \in 1 .. Len(s) - 1 PROVE FrameClaim(w, i)'
  OBVIOUS
<1>0. s # <<>> /\ Len(s) \in Nat
  BY EmptySeq, LenProperties
<1>1. /\ Len(s) \in 1 .. Len(s) /\ i \in 1 .. Len(s) /\ i < Len(s) /\ i # Len(s)
      /\ s[i] \in Frames /\ w[i] = s[i] /\ FrameClaim(s, i) /\ s[i].n \in Caches
      /\ i \in 1 .. Len(w) /\ Len(w) = Len(s) - 1
  BY <1>0, ElementOfSeq, Classes, FrameTypes DEF FramesOK, Popped
<1>2. Holds(w, i) => Holds(s, i)
  <2>1. CASE i = Len(s) - 1
    BY <1>0, <1>1, <2>1, Callers
  <2>2. CASE i < Len(s) - 1
    <3>1. i + 1 \in 1 .. Len(s) - 1 /\ w[i + 1] = s[i + 1]
      BY <1>0, <1>1, <2>2 DEF Popped
    <3> QED
      BY <1>0, <1>1, <2>2, <3>1 DEF Holds
  <2> QED
    BY <1>0, <1>1, <2>1, <2>2
<1>3. Holds(s, i) => s[i].n # m
  BY <1>1 DEF Once
<1>4. /\ \A n \in Caches \ {m} : st'[n] = st[n] /\ SameRights(n)
      /\ \A n \in Caches : /\ SameTags(n) /\ FewerSharers(n)
                           /\ \A b \in Addrs : st'[n][b] = st[n][b] \/ Lost(n, b)
  BY DEF SameCache, SameTags, FewerSharers, SameRights, Lost, Valid, Excl
<1>5. ~IsAccess(s[i]) => Holds(s, i)
  <2>1. i + 1 \in 1 .. Len(s) /\ i + 1 > 1 /\ (i + 1) - 1 = i
    BY <1>0, <1>1
  <2> QED
    BY <2>1, Callers DEF Shape
<1>6. s[i].at = "fill" => s[i].n # m
  <2>1. s[i].at = "fill" => s[i].n \in Leaves
    BY <1>1, Classes, FrameTypes DEF Shape, FrameOK
  <2> QED
    BY <1>1, <2>1
<1>7. ASSUME i > 1, IsAccess(s[i])
      PROVE  /\ s[i - 1].n \in Caches
             /\ ~(s[i].at = "end" \/ (s[i].at = "dir" /\ s[i].ty \in Puts))
  BY <1>1, <1>7, Callers, Settled
<1> QED
  BY <1>1, <1>2, <1>3, <1>4, <1>5, <1>6, <1>7, FrameStable

------------------------------------------------------------------------------
(* The parts of a step.                                                    *)

LEMMA Begun ==
  ASSUME IInv, NEW t \in Threads, Busy(t)
  PROVE  LET s == stack[t] IN
         /\ s \in Seq(Frames) /\ s # <<>> /\ Len(s) \in Nat /\ Len(s) >= 1 /\ Len(s) \in 1 .. Len(s)
         /\ Top(t) = s[Len(s)] /\ Top(t) \in Frames /\ Top(t).n \in Caches /\ Top(t).a \in Addrs
         /\ IsAccess(s[1]) /\ s[1].n = t /\ s[1].n \in Leaves
         /\ Shape(s) /\ Once(s) /\ FramesOK(s) /\ Locked(t) /\ WritebackOK(t)
         /\ FrameOK(Top(t)) /\ FrameClaim(s, Len(s))
         /\ \A i \in 1 .. Len(s) : s[i] \in Frames /\ s[i].n \in Caches
<1> DEFINE s == stack[t]
<1>1. /\ s \in Seq(Frames) /\ s # <<>> /\ Len(s) \in Nat /\ Len(s) >= 1 /\ Len(s) \in 1 .. Len(s)
      /\ \A i \in 1 .. Len(s) : s[i] \in Frames
  BY Tops DEF IInv, Types, Busy
<1>2. Top(t) = s[Len(s)] /\ Top(t) \in Frames
  BY <1>1 DEF Top
<1>3. \A f \in Frames : f.n \in Caches /\ f.a \in Addrs
  BY Classes, FrameTypes
<1>4. ThreadOK(t)
  BY DEF IInv
<1>5. IsAccess(s[1]) /\ s[1].n = t /\ s[1].n \in Leaves
  BY <1>4 DEF ThreadOK, Rooted, Threads
<1>6. FrameOK(Top(t)) /\ FrameClaim(s, Len(s))
  BY <1>1, <1>2, <1>4 DEF ThreadOK, Shape, FramesOK
<1> QED
  BY <1>1, <1>2, <1>3, <1>4, <1>5, <1>6 DEF ThreadOK

(* The threads' stacks when that of t becomes w.                           *)
StackIs(t, w) ==
  /\ w \in Seq(Frames) /\ stack'[t] = w
  /\ stack' \in [Threads -> Seq(Frames)]
  /\ \A u \in Threads \ {t} : stack'[u] = stack[u]

LEMMA StackChanges ==
  ASSUME Types, NEW t \in Threads, NEW w \in Seq(Frames), stack' = [stack EXCEPT ![t] = w]
  PROVE  StackIs(t, w)
BY DEF Types, StackIs

LEMMA Moves ==
  ASSUME IInv, NEW t \in Threads, Busy(t), IsAccess(Top(t)),
         NEW l \in {"tcc", "bcc", "evict", "insert", "dir", "end", "fill"}, Goto(t, l)
  PROVE  \E f \in AccessFrames : \E w \in Seq(Frames) :
           /\ f = [Top(t) EXCEPT !.at = l]
           /\ f.n = Top(t).n /\ f.ty = Top(t).ty /\ f.a = Top(t).a /\ f.ch = Top(t).ch
           /\ f.init = Top(t).init /\ f.v = Top(t).v /\ f.at = l
           /\ Replaced(stack[t], w, f) /\ StackIs(t, w)
<1> DEFINE f == [Top(t) EXCEPT !.at = l]  s == stack[t]
<1>1. /\ f \in AccessFrames
      /\ f.n = Top(t).n /\ f.ty = Top(t).ty /\ f.a = Top(t).a /\ f.ch = Top(t).ch
      /\ f.init = Top(t).init /\ f.v = Top(t).v /\ f.at = l
  <2>1. PICK e \in AccessFrames : e = Top(t)
    BY Begun, Classes
  <2>2. LET g == [e EXCEPT !.at = l] IN
        /\ g \in AccessFrames /\ g.n = e.n /\ g.ty = e.ty /\ g.a = e.a /\ g.ch = e.ch
        /\ g.init = e.init /\ g.v = e.v /\ g.at = l
    BY MoveAccess
  <2> QED
    BY <2>1, <2>2, Zenon
<1>2. s \in Seq(Frames) /\ s # <<>> /\ Len(s) \in 1 .. Len(s) /\ f \in Frames
  BY <1>1, Begun DEF Frames
<1>3. MoveTo(s, l) = [s EXCEPT ![Len(s)] = f]
  BY <1>2 DEF MoveTo, Top
<1>4. stack' = [stack EXCEPT ![t] = MoveTo(s, l)]
  BY DEF Goto, IInv, Types
<1>5. MoveTo(s, l) \in Seq(Frames) /\ Replaced(s, MoveTo(s, l), f)
  BY <1>2, <1>3, ReplaceTop
<1>6. StackIs(t, MoveTo(s, l))
  BY <1>4, <1>5, StackChanges DEF IInv
<1> QED
  BY <1>1, <1>5, <1>6

LEMMA MovesInv ==
  ASSUME IInv, NEW t \in Threads, Busy(t), ~IsAccess(Top(t)), Goto(t, "down")
  PROVE  \E f \in InvFrames : \E w \in Seq(Frames) :
           /\ f.n = Top(t).n /\ f.ty = Top(t).ty /\ f.a = Top(t).a /\ f.at = "down"
           /\ Replaced(stack[t], w, f) /\ StackIs(t, w)
<1> DEFINE f == [Top(t) EXCEPT !.at = "down"]  s == stack[t]
<1>1. /\ f \in InvFrames /\ f.n = Top(t).n /\ f.ty = Top(t).ty /\ f.a = Top(t).a /\ f.at = "down"
  BY Begun, Classes, MoveInv
<1>2. s \in Seq(Frames) /\ s # <<>> /\ Len(s) \in 1 .. Len(s) /\ f \in Frames
  BY <1>1, Begun DEF Frames
<1>3. MoveTo(s, "down") = [s EXCEPT ![Len(s)] = f]
  BY <1>2 DEF MoveTo, Top
<1>4. stack' = [stack EXCEPT ![t] = MoveTo(s, "down")]
  BY DEF Goto, IInv, Types
<1>5. MoveTo(s, "down") \in Seq(Frames) /\ Replaced(s, MoveTo(s, "down"), f)
  BY <1>2, <1>3, ReplaceTop
<1>6. StackIs(t, MoveTo(s, "down"))
  BY <1>4, <1>5, StackChanges DEF IInv
<1> QED
  BY <1>1, <1>5, <1>6

(* Steps that change no line and no directory.                             *)
LEMMA Quiet ==
  ASSUME IInv, Types', UNCHANGED <<st, dir>>, ~aborted', FilterOK',
         NEW t \in Threads, Alone(t), ThreadOK(t)'
  PROVE  IInv'
<1>1. \A u \in Threads : ThreadOK(u)'
  <2>1. Types /\ Threaded
    BY DEF IInv, Threaded
  <2>2. \A u \in Threads \ {t} : ThreadOK(u)'
    BY <2>1, OthersSeeNothing
  <2> QED
    BY <2>2
<1>2. Fits'
  BY DEF IInv, Fits, Tagged
<1>3. DirOK'
  BY DEF IInv, DirOK
<1> QED
  BY <1>1, <1>2, <1>3 DEF IInv

(* A filter is worth what it was while its cache's lines stay and its core *)
(* is no less busy.                                                        *)
LEMMA FiltersStay ==
  ASSUME FilterOK, UNCHANGED <<st, filt>>, \A n \in Leaves : Busy(n) => Busy(n)'
  PROVE  FilterOK'
BY DEF FilterOK

(* The first frame stays.                                                  *)
LEMMA RootStays ==
  ASSUME IInv, NEW t \in Threads, Busy(t), NEW w \in Seq(Frames), stack'[t] = w,
         Len(w) >= Len(stack[t]) \/ (Len(w) = Len(stack[t]) - 1 /\ Len(stack[t]) > 1),
         \A i \in 1 .. Len(stack[t]) - 1 : w[i] = stack[t][i],
         Len(stack[t]) = 1 => w[1].n = Top(t).n /\ IsAccess(w[1])
  PROVE  Busy(t)' /\ Rooted(t)'
<1>1. Len(stack[t]) \in Nat /\ Len(stack[t]) >= 1 /\ IsAccess(stack[t][1]) /\ stack[t][1].n = t
      /\ Top(t) = stack[t][Len(stack[t])]
  BY Begun
<1>2. Len(w) \in Nat /\ Len(w) >= 1
  BY <1>1, LenProperties
<1>3. w # <<>>
  BY <1>2, EmptySeq
<1>4. w[1].n = t /\ IsAccess(w[1])
  <2>1. CASE Len(stack[t]) = 1
    BY <1>1, <2>1
  <2>2. CASE Len(stack[t]) > 1
    <3>1. w[1] = stack[t][1]
      BY <1>1, <2>2
    <3> QED
      BY <1>1, <3>1
  <2>3. \A n \in Nat : n >= 1 => n = 1 \/ n > 1
    OBVIOUS
  <2>4. Len(stack[t]) = 1 \/ Len(stack[t]) > 1
    BY <1>1, <2>3, Zenon
  <2> QED
    BY <2>1, <2>2, <2>4
<1> QED
  BY <1>3, <1>4 DEF Busy, Rooted, IsAccess

(* Frames below the last one hold what they held, when that one stays an   *)
(* access or an invalidation.                                              *)
LEMMA HoldsBelow ==
  ASSUME NEW s \in Seq(Frames), NEW w \in Seq(Frames), Len(s) >= 1, Len(w) >= Len(s),
         \A i \in 1 .. Len(s) - 1 : w[i] = s[i],
         IsAccess(w[Len(s)]) <=> IsAccess(s[Len(s)])
  PROVE  \A i \in 1 .. Len(s) - 1 :
           /\ Holds(w, i) <=> Holds(s, i)
           /\ Active(w, i) <=> Active(s, i)
<1> SUFFICES ASSUME NEW i \in 1 .. Len(s) - 1
             PROVE  (Holds(w, i) <=> Holds(s, i)) /\ (Active(w, i) <=> Active(s, i))
  OBVIOUS
<1>1. Len(s) \in Nat /\ Len(w) \in Nat /\ i < Len(s) /\ i < Len(w) /\ w[i] = s[i]
  BY LenProperties
<1>2. IsAccess(w[i + 1]) <=> IsAccess(s[i + 1])
  <2>1. i + 1 = Len(s) \/ i + 1 \in 1 .. Len(s) - 1
    BY <1>1
  <2> QED
    BY <2>1
<1> QED
  BY <1>1, <1>2 DEF Holds, Active

(* The last frame of t goes on, perhaps with a call: what that does to the *)
(* locks of t when the thread's stack becomes w.                           *)
GoesOn(t, w) ==
  LET k == Len(stack[t])
      n == Top(t).n
  IN
  /\ Len(w) >= k /\ Len(w) <= k + 1
  /\ \A i \in 1 .. k - 1 : w[i] = stack[t][i]
  /\ (IsAccess(w[k]) <=> IsAccess(Top(t))) /\ w[k].n = n
  /\ \A m \in Caches : tcc[m] = t => tcc'[m] = t
  /\ \A m \in Caches \ {n} : bcc[m] = t => bcc'[m] = t
  /\ bcc'[n] = t \/ Holds(stack[t], k) \/ bcc[n] # t
  /\ \A m \in Leaves : flock[m] = t => flock'[m] = t
  /\ w[k].at # "fill"
  /\ Active(w, k) =>
       Active(stack[t], k) \/ (n \notin Leaves /\ tcc[n] # t /\ tcc'[n] = t)
  /\ Holds(w, k) => bcc'[n] = t /\ (Holds(stack[t], k) \/ bcc[n] # t)
  /\ Len(w) = k + 1 => w[Len(w)].at \in {"tcc", "lock"}

LEMMA LocksKept ==
  ASSUME IInv, NEW t \in Threads, Busy(t), NEW w \in Seq(Frames), StackIs(t, w), Types',
         Shape(w), \A i \in 1 .. Len(w) : FrameClaim(w, i)', WritebackOK(t)',
         Len(w) >= Len(stack[t]), Len(w) <= Len(stack[t]) + 1,
         \A i \in 1 .. Len(stack[t]) - 1 : w[i] = stack[t][i],
         IsAccess(w[Len(stack[t])]) <=> IsAccess(Top(t)), w[Len(stack[t])].n = Top(t).n,
         \A n \in Caches : tcc[n] = t => tcc'[n] = t,
         \A n \in Caches \ {Top(t).n} : bcc[n] = t => bcc'[n] = t,
         \/ bcc'[Top(t).n] = t \/ Holds(stack[t], Len(stack[t])) \/ bcc[Top(t).n] # t,
         \A n \in Leaves : flock[n] = t => flock'[n] = t,
         w[Len(stack[t])].at # "fill",
         Active(w, Len(stack[t])) =>
           \/ Active(stack[t], Len(stack[t]))
           \/ Top(t).n \notin Leaves /\ tcc[Top(t).n] # t /\ tcc'[Top(t).n] = t,
         Holds(w, Len(stack[t])) =>
           /\ bcc'[Top(t).n] = t
           /\ Holds(stack[t], Len(stack[t])) \/ bcc[Top(t).n] # t,
         Len(w) = Len(stack[t]) + 1 => w[Len(w)].at \in {"tcc", "lock"}
  PROVE  ThreadOK(t)' /\ Busy(t)'
<1> DEFINE s == stack[t]
<1>4. /\ s \in Seq(Frames) /\ s # <<>> /\ Len(s) \in Nat /\ Len(s) >= 1 /\ Len(s) \in 1 .. Len(s)
      /\ Top(t) = s[Len(s)] /\ Top(t).n \in Caches /\ IsAccess(s[1]) /\ s[1].n \in Leaves
      /\ Shape(s) /\ Once(s) /\ Locked(t)
      /\ \A i \in 1 .. Len(s) : s[i] \in Frames /\ s[i].n \in Caches
  BY Begun
<1>5. Len(w) \in Nat /\ \A i \in 1 .. Len(w) : w[i] \in Frames /\ w[i].n \in Caches
  BY LenProperties, ElementOfSeq, Classes, FrameTypes
<1>6. \A i \in 1 .. Len(w) : i = Len(s) \/ i \in 1 .. Len(s) - 1 \/ (i = Len(s) + 1 /\ i = Len(w))
  BY <1>4, <1>5
<1>7. /\ \A i \in 1 .. Len(s) - 1 : w[i] = s[i] /\ i \in 1 .. Len(s) /\ i # Len(s)
      /\ \A i \in 1 .. Len(s) - 1 : /\ Holds(w, i) <=> Holds(s, i)
                                    /\ Active(w, i) <=> Active(s, i)
  <2>1. \A i \in 1 .. Len(s) - 1 : w[i] = s[i] /\ i \in 1 .. Len(s) /\ i # Len(s)
    BY <1>4
  <2> QED
    BY <1>4, <2>1, HoldsBelow
<1>8. ASSUME NEW i \in 1 .. Len(w), i = Len(s) + 1
      PROVE  ~Active(w, i) /\ ~Holds(w, i) /\ w[i].at # "fill"
  <2>1. w[i].at \in {"tcc", "lock"}
    BY <1>4, <1>5, <1>8
  <2> QED
    BY <1>5, <2>1, Classes, FrameTypes DEF Active, Holds
<1>9. /\ \A i \in 1 .. Len(s) :
           /\ Active(s, i) /\ s[i].n \notin Leaves => tcc[s[i].n] = t
           /\ Holds(s, i) => bcc[s[i].n] = t
           /\ s[i].at = "fill" => flock[s[i].n] = t
      /\ \A i \in 1 .. Len(s) - 1 : s[i].n = Top(t).n =>
           /\ ~Active(s, i) \/ ~Active(s, Len(s))
           /\ ~Holds(s, i) \/ ~Holds(s, Len(s))
      /\ w[Len(s)].n = Top(t).n
  BY <1>4, <1>7, Zenon DEF Locked, Once
<1>10. Busy(t)' /\ Rooted(t)'
  <2>1. Len(s) = 1 => w[1].n = Top(t).n /\ IsAccess(w[1])
    BY <1>4
  <2>2. stack'[t] = w
    BY DEF StackIs
  <2> QED
    BY <1>4, <1>7, <2>1, <2>2, RootStays
<1>13. Locked(t)'
  <2>1. ASSUME NEW i \in 1 .. Len(w)
        PROVE  /\ Active(w, i) /\ w[i].n \notin Leaves => tcc'[w[i].n] = t
               /\ Holds(w, i) => bcc'[w[i].n] = t
               /\ w[i].at = "fill" => flock'[w[i].n] = t
    <3>1. CASE i = Len(s)
      BY <1>4, <3>1 DEF Locked
    <3>2. CASE i \in 1 .. Len(s) - 1
      <4>1. w[i].at = "fill" => w[i].n \in Leaves
        BY <1>5, Classes, FrameTypes DEF Shape, FrameOK
      <4>2. w[i] = s[i] /\ s[i].n \in Caches /\ i \in 1 .. Len(s)
        BY <1>4, <1>7, <3>2
      <4>3. Active(w, i) /\ w[i].n \notin Leaves => tcc'[w[i].n] = t
        BY <1>7, <1>9, <3>2, <4>2, Zenon
      <4>4. Holds(w, i) => bcc'[w[i].n] = t
        <5>1. Holds(w, i) => Holds(s, i) /\ bcc[s[i].n] = t
          BY <1>7, <1>9, <3>2, <4>2, Zenon
        <5>2. CASE s[i].n = Top(t).n
          <6>1. Holds(w, i) => ~Holds(s, Len(s))
            BY <1>9, <3>2, <5>1, <5>2, Zenon
          <6> QED
            BY <4>2, <5>1, <5>2, <6>1, Zenon
        <5>3. CASE s[i].n # Top(t).n
          BY <4>2, <5>1, <5>3, Zenon
        <5> QED
          BY <5>2, <5>3
      <4>5. w[i].at = "fill" => flock'[w[i].n] = t
        BY <1>7, <1>9, <3>2, <4>1, <4>2, Zenon
      <4> QED
        BY <4>3, <4>4, <4>5
    <3>3. CASE i = Len(s) + 1
      BY <1>8, <3>3
    <3> QED
      BY <1>6, <3>1, <3>2, <3>3
  <2> QED
    BY <2>1 DEF Locked, StackIs, Active, Holds, IsAccess
<1>14. Once(w)
  <2>1. ASSUME NEW i \in 1 .. Len(s) - 1, Active(w, i), Active(w, Len(s)) PROVE w[i].n # w[Len(s)].n
    <3>1. SUFFICES ASSUME s[i].n = Top(t).n PROVE FALSE
      BY <1>7, <1>9, Zenon
    <3>2. Active(s, i) /\ i \in 1 .. Len(s)
      BY <1>7, <2>1, Zenon
    <3>3. ~Active(s, Len(s))
      BY <1>9, <3>1, <3>2, Zenon
    <3>4. Top(t).n \notin Leaves /\ tcc[Top(t).n] # t
      BY <2>1, <3>3, Zenon
    <3>5. s[i].n \notin Leaves => tcc[s[i].n] = t
      BY <1>9, <3>2, Zenon
    <3> QED
      BY <3>1, <3>4, <3>5, Zenon
  <2>2. ASSUME NEW i \in 1 .. Len(s) - 1, Holds(w, i), Holds(w, Len(s)) PROVE w[i].n # w[Len(s)].n
    <3>1. SUFFICES ASSUME s[i].n = Top(t).n PROVE FALSE
      BY <1>7, <1>9, Zenon
    <3>2. Holds(s, i) /\ i \in 1 .. Len(s)
      BY <1>7, <2>2, Zenon
    <3>3. ~Holds(s, Len(s))
      BY <1>9, <3>1, <3>2, Zenon
    <3>4. bcc[Top(t).n] # t
      BY <2>2, <3>3, Zenon
    <3>5. bcc[s[i].n] = t
      BY <1>9, <3>2, Zenon
    <3> QED
      BY <3>1, <3>4, <3>5, Zenon
  <2>3. ASSUME NEW i \in 1 .. Len(w), NEW j \in 1 .. Len(w), w[i].n = w[j].n,
               Active(w, i), Active(w, j)
        PROVE  i = j
    BY <1>4, <1>6, <1>7, <1>8, <2>1, <2>3 DEF Once
  <2>4. ASSUME NEW i \in 1 .. Len(w), NEW j \in 1 .. Len(w), w[i].n = w[j].n,
               Holds(w, i), Holds(w, j)
        PROVE  i = j
    BY <1>4, <1>6, <1>7, <1>8, <2>2, <2>4 DEF Once
  <2> QED
    BY <2>3, <2>4 DEF Once
<1>15. Shape(w)' /\ Once(w)' /\ FramesOK(w)'
  BY <1>14 DEF FramesOK, FrameClaim, Shape, Once, Active, Holds, IsAccess, FrameOK, Link
<1>16. stack'[t] = w
  BY DEF StackIs
<1>17. Shape(stack[t])' /\ Once(stack[t])' /\ FramesOK(stack[t])'
  BY <1>15, <1>16, Zenon DEF FramesOK
<1> QED
  BY <1>10, <1>13, <1>17 DEF ThreadOK

LEMMA KeepThread ==
  ASSUME IInv, NEW t \in Threads, Busy(t), NEW w \in Seq(Frames), StackIs(t, w), Types',
         GoesOn(t, w), Shape(w), \A i \in 1 .. Len(w) : FrameClaim(w, i)', WritebackOK(t)'
  PROVE  ThreadOK(t)' /\ Busy(t)'
BY LocksKept, Zenon DEF GoesOn

(* A step of t that changes neither lines nor directories, in which its    *)
(* last frame goes on.                                                     *)
LEMMA QuietStep ==
  ASSUME IInv, NEW t \in Threads, Busy(t), NEW w \in Seq(Frames), StackIs(t, w), Types',
         Alone(t), GoesOn(t, w), Shape(w), UNCHANGED <<st, dir, filt, aborted>>, WritebackOK(t)',
         \A i \in 1 .. Len(w) : i >= Len(stack[t]) => FrameClaim(w, i)'
  PROVE  IInv'
<1>0. PICK s \in Seq(Frames) : s = stack[t]
  BY Begun
<1>1. /\ Len(s) \in Nat /\ Len(s) >= 1 /\ FramesOK(s) /\ Top(t) = s[Len(s)] /\ Len(w) \in Nat
      /\ Len(s) \in 1 .. Len(s)
  BY <1>0, Begun, LenProperties
<1>2. /\ Len(w) >= Len(s) /\ \A i \in 1 .. Len(s) - 1 : w[i] = s[i]
      /\ IsAccess(w[Len(s)]) <=> IsAccess(s[Len(s)])
  BY <1>0, <1>1 DEF GoesOn
<1>3. \A i \in 1 .. Len(s) - 1 : w[i] = s[i] /\ i \in 1 .. Len(s) /\ (Holds(w, i) => Holds(s, i))
  BY <1>1, <1>2, HoldsBelow
<1>4. \A i \in 1 .. Len(s) - 1 : FrameClaim(w, i)'
  BY <1>1, <1>3, BelowNothing
<1>5. \A i \in 1 .. Len(w) : FrameClaim(w, i)'
  BY <1>0, <1>1, <1>4
<1>6. ThreadOK(t)' /\ Busy(t)'
  BY <1>5, KeepThread
<1>7. FilterOK'
  <2>1. \A u \in Leaves : Busy(u) => Busy(u)'
    BY <1>6 DEF StackIs, Busy, Threads
  <2> QED
    BY <2>1, FiltersStay DEF IInv
<1>8. ~aborted'
  BY DEF IInv
<1> QED
  BY <1>6, <1>7, <1>8, Quiet

(* The call of an invalidation.                                            *)
LEMMA Calls ==
  ASSUME IInv, NEW t \in Threads, Busy(t), NEW c \in Caches, NEW ty \in {"INV", "INVX"},
         NEW a \in Addrs, SendInval(t, c, ty, a)
  PROVE  \E g \in InvFrames : \E w \in Seq(Frames) :
           /\ g.n = c /\ g.ty = ty /\ g.a = a /\ g.at = "lock"
           /\ Pushed(stack[t], w, Top(t), g) /\ StackIs(t, w)
<1>0. PICK s \in Seq(Frames) : s = stack[t]
  BY Begun
<1> DEFINE g == [n |-> c, ty |-> ty, a |-> a, at |-> "lock"]
<1>1. g \in InvFrames /\ g.n = c /\ g.ty = ty /\ g.a = a /\ g.at = "lock"
  BY DEF InvFrames
<1>2. /\ Len(s) \in Nat /\ Len(s) >= 1 /\ Top(t) = s[Len(s)] /\ g \in Frames
  BY <1>0, <1>1, Begun DEF Frames
<1>3. stack' = [stack EXCEPT ![t] = Append(s, g)]
  BY <1>0 DEF SendInval, IInv, Types
<1>4. /\ Append(s, g) \in Seq(Frames) /\ Len(Append(s, g)) = Len(s) + 1
      /\ \A i \in 1 .. Len(s) : Append(s, g)[i] = s[i]
      /\ Append(s, g)[Len(s) + 1] = g
  BY <1>2, AppendProperties
<1>5. Pushed(s, Append(s, g), Top(t), g)
  BY <1>2, <1>4 DEF Pushed
<1>6. StackIs(t, Append(s, g))
  BY <1>3, <1>4, StackChanges DEF IInv
<1> QED
  BY <1>0, <1>1, <1>4, <1>5, <1>6

(* The exclusive bit is only ever set with one sharer.                     *)
LEMMA Exclusive ==
  ASSUME Types, DirOK, NEW n \in Caches, NEW a \in Addrs
  PROVE  /\ IsExclusive(dir[n][a]) <=> dir[n][a].ex
         /\ \A c \in dir[n][a].sh :
              /\ c \in Children(n) /\ c \in Caches \ {Root} /\ Parent[c] = n /\ Valid(st[c][a])
              /\ dir[n][a].ex => Excl(st[c][a])
         /\ dir[n][a].ex => \E c \in Children(n) : dir[n][a].sh = {c}
<1>1. dir[n][a].ex => \E c \in Children(n) : Excl(st[c][a]) /\ dir[n][a].sh = {c}
  BY DEF DirOK
<1>2. dir[n][a].ex => Cardinality(dir[n][a].sh) = 1
  BY <1>1, FS_Singleton
<1> QED
  BY <1>1, <1>2, Family DEF DirOK, IsExclusive

LEMMA Sharers ==
  ASSUME IInv, NEW n \in Caches, NEW a \in Addrs
  PROVE  /\ IsExclusive(dir[n][a]) <=> dir[n][a].ex
         /\ \A c \in dir[n][a].sh :
              /\ c \in Children(n) /\ c \in Caches \ {Root} /\ Parent[c] = n /\ Valid(st[c][a])
              /\ dir[n][a].ex => Excl(st[c][a])
<1>1. Types /\ DirOK
  BY DEF IInv
<1> QED
  BY <1>1, Exclusive

LEMMA CallKeeps ==
  ASSUME IInv, NEW t \in Threads, Busy(t), NEW c \in Children(Top(t).n),
         NEW ty \in {"INV", "INVX"}, NEW a \in Addrs, SendInval(t, c, ty, a),
         Holds(stack[t], Len(stack[t])),
         IF IsAccess(Top(t))
         THEN \/ Top(t).at = "evict" /\ ty = "INV" /\ a = Top(t).v
              \/ /\ Top(t).at = "dir" /\ Top(t).ty \in Gets /\ a = Top(t).a
                 /\ ty = IF Top(t).ty = "GETX" THEN "INV" ELSE "INVX"
         ELSE Top(t).at = "down" /\ ty = Top(t).ty /\ a = Top(t).a,
         IF ty = "INVX" THEN Excl(st[c][a]) ELSE Valid(st[c][a]),
         wb[t] = NoAddr, UNCHANGED <<st, dir, tcc, bcc, flock, filt, wb, fresh, aborted>>
  PROVE  IInv'
<1>0. PICK s \in Seq(Frames), n \in Caches : s = stack[t] /\ n = Top(t).n
  BY Begun
<1>1. /\ s # <<>> /\ Len(s) \in Nat /\ Len(s) >= 1 /\ Len(s) \in 1 .. Len(s)
      /\ Top(t) = s[Len(s)] /\ Top(t) \in Frames /\ Shape(s) /\ FrameOK(Top(t))
      /\ FrameClaim(s, Len(s)) /\ bcc[n] = t
  BY <1>0, Begun DEF Locked
<1>2. c \in Caches \ {Root} /\ Parent[c] = n
  BY <1>0, Family
<1>3. PICK g \in InvFrames, w \in Seq(Frames) :
           /\ g.n = c /\ g.ty = ty /\ g.a = a /\ g.at = "lock"
           /\ Pushed(stack[t], w, Top(t), g) /\ StackIs(t, w)
  BY <1>2, Calls
<1>4. /\ w[Len(s)] = s[Len(s)] /\ Len(w) = Len(s) + 1 /\ w[Len(s) + 1] = g
      /\ \A i \in 1 .. Len(s) - 1 : w[i] = s[i]
  BY <1>0, <1>1, <1>3 DEF Pushed
<1>5. ~IsAccess(g) /\ FrameOK(g) /\ Link(Top(t), g)
  BY <1>0, <1>2, <1>3, Classes DEF FrameOK, Link
<1>6. Shape(w)
  <2>1. SameCall(s[Len(s)], Top(t))
    BY <1>1 DEF SameCall
  <2> QED
    BY <1>0, <1>1, <1>3, <1>5, <2>1, ShapeOfPushed
<1>7. Types'
  BY <1>3 DEF IInv, Types, StackIs
<1>8. Alone(t)
  BY <1>3 DEF Alone, StackIs
<1>9. /\ Holds(w, Len(s)) /\ Holds(s, Len(s)) /\ w[Len(s)].at # "fill"
      /\ Active(w, Len(s)) <=> Active(s, Len(s))
  <2>1. Holds(s, Len(s))
    BY <1>0
  <2> QED
    BY <1>1, <1>4, <1>5, <2>1 DEF Holds, Active
<1>10. FrameClaim(w, Len(s))' /\ FrameClaim(w, Len(s) + 1)'
  <2>1. FrameClaim(w, Len(s))'
    BY <1>1, <1>4, <1>9 DEF FrameClaim, ReqOK, VictimOK, OwnOK, InvOK, Tagged
  <2>2. FrameClaim(w, Len(s) + 1)'
    BY <1>3, <1>4, <1>5 DEF FrameClaim, InvOK
  <2> QED
    BY <2>1, <2>2
<1>11. WritebackOK(t)'
  BY DEF WritebackOK
<1>12. GoesOn(t, w)
  BY <1>0, <1>1, <1>3, <1>4, <1>9 DEF GoesOn
<1>13. \A i \in 1 .. Len(w) : i >= Len(stack[t]) => FrameClaim(w, i)'
  <2>1. \A i \in 1 .. Len(w) : i >= Len(s) => i = Len(s) \/ i = Len(s) + 1
    BY <1>1, <1>4
  <2> QED
    BY <1>0, <1>10, <2>1
<1> QED
  BY <1>3, <1>6, <1>7, <1>8, <1>11, <1>12, <1>13, QuietStep

(* A frame's cache is no other's below it, once the access has begun.      *)
LEMMA OwnCache ==
  ASSUME IInv, NEW t \in Threads, Busy(t), IsAccess(Top(t)), Active(stack[t], Len(stack[t]))
  PROVE  /\ \A i \in 1 .. Len(stack[t]) - 1 : stack[t][i].n # Top(t).n
         /\ Top(t).n \in Leaves => Len(stack[t]) = 1 /\ Top(t).n = t
<1>0. PICK s \in Seq(Frames) : s = stack[t]
  BY Begun
<1>1. /\ Len(s) \in Nat /\ Len(s) >= 1 /\ Len(s) \in 1 .. Len(s) /\ Top(t) = s[Len(s)]
      /\ Shape(s) /\ Once(s) /\ s[1].n = t /\ IsAccess(s[Len(s)]) /\ Active(s, Len(s))
  BY <1>0, Begun
<1>2. ASSUME NEW i \in 1 .. Len(s) - 1 PROVE s[i].n # Top(t).n
  <2>1. /\ i \in 1 .. Len(s) /\ i + 1 \in 1 .. Len(s) /\ i + 1 > 1 /\ (i + 1) - 1 = i
        /\ i < Len(s) /\ i + 1 <= Len(s)
    BY <1>1
  <2>2. IsAccess(s[i + 1])
    BY <1>1, <2>1 DEF Shape
  <2>3. \A j \in 1 .. Len(s) : j > 1 /\ IsAccess(s[j]) => Active(s, j - 1)
    BY <1>1, Callers
  <2>4. Active(s, i)
    BY <2>1, <2>2, <2>3
  <2> QED
    BY <1>1, <2>1, <2>4 DEF Once
<1>3. Top(t).n \in Leaves => Len(s) = 1
  BY <1>1, OnlyFirstInLeaf
<1> QED
  BY <1>0, <1>1, <1>2, <1>3

(* The directories are true after a step that changes only the lines of m, *)
(* if m keeps its rights, or is the root and loses no line that is below.  *)
LEMMA DirStays ==
  ASSUME IInv, UNCHANGED dir, NEW m \in Caches, \A n \in Caches \ {m} : st'[n] = st[n],
         m # Root => SameRights(m),
         \A a \in Addrs : \/ dir[m][a].sh = {}
                          \/ /\ Valid(st[m][a]) => Valid(st'[m][a])
                             /\ Excl(st[m][a]) => Excl(st'[m][a])
  PROVE  DirOK'
<1>1. \A c \in Caches \ {Root} : SameRights(c)
  BY DEF SameRights
<1>2. ASSUME NEW n \in Caches, NEW a \in Addrs
      PROVE  /\ dir'[n][a].sh = {c \in Children(n) : Valid(st'[c][a])}
             /\ dir'[n][a].ex <=> \E c \in Children(n) : Excl(st'[c][a])
             /\ \A c \in Children(n) :
                  /\ Valid(st'[c][a]) => Valid(st'[n][a])
                  /\ Excl(st'[c][a]) => Excl(st'[n][a]) /\ dir'[n][a].sh = {c}
  <2>1. /\ dir[n][a].sh = {c \in Children(n) : Valid(st[c][a])}
        /\ dir[n][a].ex <=> \E c \in Children(n) : Excl(st[c][a])
        /\ \A c \in Children(n) :
             /\ Valid(st[c][a]) => Valid(st[n][a])
             /\ Excl(st[c][a]) => Excl(st[n][a]) /\ dir[n][a].sh = {c}
        /\ dir'[n][a] = dir[n][a]
    BY DEF IInv, DirOK
  <2>2. \A c \in Children(n) : /\ Valid(st[c][a]) <=> Valid(st'[c][a])
                               /\ Excl(st[c][a]) <=> Excl(st'[c][a])
    BY <1>1, Family DEF SameRights
  <2>3. dir[n][a].sh # {} => /\ Valid(st[n][a]) => Valid(st'[n][a])
                             /\ Excl(st[n][a]) => Excl(st'[n][a])
    <3>1. CASE n = m
      BY <3>1
    <3>2. CASE n # m
      BY <3>2
    <3> QED
      BY <3>1, <3>2
  <2>4. \A c \in Children(n) : Excl(st[c][a]) => Valid(st[c][a])
    BY DEF Excl, Valid
  <2> QED
    BY <2>1, <2>2, <2>3, <2>4
<1> QED
  BY <1>2 DEF DirOK, Valid, Excl, Children

LEMMA OwnStep ==
  ASSUME IInv, NEW t \in Threads, Busy(t), IsAccess(Top(t)), Active(stack[t], Len(stack[t])),
         NEW m \in Caches, m = Top(t).n, bcc[m] \in {NoThread, t},
         NEW w \in Seq(Frames), StackIs(t, w), Types', Alone(t), GoesOn(t, w), Shape(w),
         UNCHANGED <<dir, filt>>, ~aborted', WritebackOK(t)', Fits',
         \A i \in 1 .. Len(w) : i >= Len(stack[t]) => FrameClaim(w, i)',
         \A n \in Caches \ {m} : st'[n] = st[n],
         m # Root => SameRights(m),
         \A a \in Addrs : \/ dir[m][a].sh = {}
                          \/ /\ Valid(st[m][a]) => Valid(st'[m][a])
                             /\ Excl(st[m][a]) => Excl(st'[m][a])
  PROVE  IInv'
<1>0. PICK s \in Seq(Frames) : s = stack[t]
  BY Begun
<1>1. /\ Len(s) \in Nat /\ Len(s) >= 1 /\ FramesOK(s) /\ Top(t) = s[Len(s)] /\ Len(w) \in Nat
      /\ Len(s) \in 1 .. Len(s) /\ s # <<>> /\ Shape(s) /\ IsAccess(s[1]) /\ s[1].n \in Leaves
  BY <1>0, Begun, LenProperties
<1>2. /\ Len(w) >= Len(s) /\ \A i \in 1 .. Len(s) - 1 : w[i] = s[i]
      /\ IsAccess(w[Len(s)]) /\ IsAccess(s[Len(s)])
  BY <1>0, <1>1 DEF GoesOn
<1>3. /\ \A i \in 1 .. Len(s) - 1 : s[i].n # m
      /\ m \in Leaves => m = t
  BY <1>0, OwnCache
<1>4. \A n \in Caches \ {m} : SameCache(n)
  BY DEF SameCache
<1>5. \A i \in 1 .. Len(s) - 1 : FrameClaim(w, i)'
  BY <1>1, <1>2, <1>3, <1>4, BelowOwn
<1>6. \A i \in 1 .. Len(w) : FrameClaim(w, i)'
  BY <1>0, <1>1, <1>5
<1>7. ThreadOK(t)' /\ Busy(t)'
  BY <1>6, KeepThread
<1>8. \A u \in Threads \ {t} : ThreadOK(u)'
  <2>1. s[Len(s)].n = m /\ Active(s, Len(s))
    BY <1>0, <1>1
  <2>2. Types /\ Threaded
    BY DEF IInv, Threaded
  <2> QED
    BY <1>0, <1>1, <1>4, <2>1, <2>2, OthersSeeOwn
<1>9. DirOK'
  BY DirStays
<1>10. FilterOK'
  <2>1. ASSUME NEW n \in Leaves PROVE ~Busy(n)' => ~Busy(n) /\ st'[n] = st[n]
    <3>1. CASE n = t
      BY <1>7, <3>1
    <3>2. CASE n # t
      BY <1>3, <3>2, Family DEF StackIs, Busy, Threads
    <3> QED
      BY <3>1, <3>2
  <2>2. FilterOK
    BY DEF IInv
  <2> QED
    BY <2>1, <2>2 DEF FilterOK
<1> QED
  BY <1>7, <1>8, <1>9, <1>10 DEF IInv

LEMMA Replaces ==
  ASSUME IInv, NEW t \in Threads, Busy(t), NEW g \in AccessFrames,
         stack' = [stack EXCEPT ![t] = Frame(t, g)]
  PROVE  \E w \in Seq(Frames) : Replaced(stack[t], w, g) /\ StackIs(t, w)
<1>0. PICK s \in Seq(Frames) : s = stack[t]
  BY Begun
<1>1. s # <<>> /\ g \in Frames
  BY <1>0, Begun DEF Frames
<1>2. Frame(t, g) = [s EXCEPT ![Len(s)] = g]
  BY <1>0 DEF Frame
<1>3. Frame(t, g) \in Seq(Frames) /\ Replaced(s, Frame(t, g), g)
  BY <1>1, <1>2, ReplaceTop
<1> QED
  BY <1>0, <1>3, StackChanges DEF IInv

LEMMA Sends ==
  ASSUME IInv, NEW t \in Threads, Busy(t), NEW g \in AccessFrames, NEW r \in AccessFrames,
         stack' = [stack EXCEPT ![t] = Append(Frame(t, g), r)]
  PROVE  \E w \in Seq(Frames) : Pushed(stack[t], w, g, r) /\ StackIs(t, w)
<1>0. PICK s \in Seq(Frames) : s = stack[t]
  BY Begun
<1>1. s # <<>> /\ g \in Frames /\ r \in Frames
  BY <1>0, Begun DEF Frames
<1>2. Frame(t, g) = [s EXCEPT ![Len(s)] = g]
  BY <1>0 DEF Frame
<1>3. /\ Append(Frame(t, g), r) \in Seq(Frames)
      /\ Pushed(s, Append(Frame(t, g), r), g, r)
  BY <1>1, <1>2, PushTop
<1> QED
  BY <1>0, <1>3, StackChanges DEF IInv

(* The last frame of t is an access that has its cache, or is taking it.   *)
AtWork(t) ==
  LET s == stack[t]  n == Top(t).n IN
  /\ Busy(t) /\ IsAccess(Top(t)) /\ Top(t).at \in {"bcc", "evict", "insert"}
  /\ bcc[n] \in {NoThread, t} /\ (Holds(s, Len(s)) \/ bcc[n] # t)

LEMMA Working ==
  ASSUME IInv, NEW t \in Threads, AtWork(t)
  PROVE  /\ Busy(t) /\ IsAccess(Top(t)) /\ Active(stack[t], Len(stack[t])) /\ Top(t).n \in Caches
         /\ Top(t) \in AccessFrames
         /\ Top(t).ch # Mem =>
              /\ Top(t).ch \in Caches \ {Root} /\ Top(t).n = Parent[Top(t).ch]
              /\ Top(t).ch # Top(t).n /\ Top(t).ch \in Children(Top(t).n)
<1>0. PICK s \in Seq(Frames) : s = stack[t]
  BY Begun DEF AtWork
<1>1. /\ Busy(t) /\ s # <<>> /\ Len(s) \in Nat /\ Len(s) >= 1 /\ Len(s) \in 1 .. Len(s)
      /\ Top(t) = s[Len(s)] /\ Shape(s) /\ IsAccess(Top(t)) /\ Top(t) \in AccessFrames
      /\ FrameOK(Top(t)) /\ Top(t).at # "tcc" /\ Top(t).n \in Caches
      /\ s[1].n \in Leaves
  BY <1>0, Begun, Classes DEF AtWork
<1>2. ASSUME Top(t).ch # Mem
      PROVE  Top(t).ch \in Caches \ {Root} /\ Top(t).n = Parent[Top(t).ch]
  <2>1. Len(s) > 1
    <3>1. Top(t).n \notin Leaves
      BY <1>1, <1>2 DEF FrameOK
    <3> QED
      BY <1>1, <3>1
  <2> QED
    BY <1>1, <2>1, Callers
<1> QED
  BY <1>0, <1>1, <1>2, Family DEF Active

(* An array of n that may take the place of the present one.               *)
FitsIn(n, row) ==
  /\ row \in [Addrs -> States]
  /\ IsFiniteSet({a \in Addrs : row[a] # "none"})
  /\ Cardinality({a \in Addrs : row[a] # "none"}) <= Lines[n]
Keeps(n, row) ==
  /\ n # Root => \A a \in Addrs : /\ Valid(st[n][a]) <=> Valid(row[a])
                                  /\ Excl(st[n][a]) <=> Excl(row[a])
  /\ \A a \in Addrs : \/ dir[n][a].sh = {}
                      \/ /\ Valid(st[n][a]) => Valid(row[a])
                         /\ Excl(st[n][a]) => Excl(row[a])

LEMMA RowFits ==
  ASSUME IInv, NEW n \in Caches, NEW row, FitsIn(n, row), st' = [st EXCEPT ![n] = row]
  PROVE  /\ Fits' /\ st' \in [Caches -> [Addrs -> States]] /\ st'[n] = row
         /\ \A m \in Caches \ {n} : st'[m] = st[m]
<1>1. /\ st' \in [Caches -> [Addrs -> States]] /\ st'[n] = row
      /\ \A m \in Caches \ {n} : st'[m] = st[m]
  BY DEF IInv, Types, FitsIn
<1>2. ASSUME NEW m \in Caches
      PROVE  IsFiniteSet({a \in Addrs : st'[m][a] # "none"}) /\
             Cardinality({a \in Addrs : st'[m][a] # "none"}) <= Lines[m]
  <2>1. CASE m = n
    BY <1>1, <2>1 DEF FitsIn
  <2>2. CASE m # n
    <3>1. st'[m] = st[m]
      BY <1>1, <2>2
    <3> QED
      BY <3>1 DEF IInv, Fits, Tagged
  <2> QED
    BY <2>1, <2>2
<1> QED
  BY <1>1, <1>2 DEF Fits, Tagged

(* What a step of t at its own cache does not touch.                       *)
OwnWork(t) ==
  /\ UNCHANGED <<dir, tcc, flock, filt>>
  /\ aborted' = FALSE
  /\ wb' \in [Threads -> Addrs \cup {NoAddr}] /\ wb'[t] = NoAddr
  /\ \A u \in Threads \ {t} : wb'[u] = wb[u]
  /\ fresh' \in [Addrs -> SUBSET (Caches \cup {Mem})]

(* The last frame of t has become g, and its cache's array is row.         *)
LEMMA StaysKeeps ==
  ASSUME IInv, NEW t \in Threads, AtWork(t), OwnWork(t),
         NEW n \in Caches, n = Top(t).n,
         NEW g \in AccessFrames, SameCall(Top(t), g),
         g.at \in {"evict", "insert", "dir", "end"},
         stack' = [stack EXCEPT ![t] = Frame(t, g)],
         NEW row, FitsIn(n, row), Keeps(n, row), st' = [st EXCEPT ![n] = row],
         bcc' = [bcc EXCEPT ![n] = t],
         ReqOK(g), g.at \in {"evict", "insert"} => row[g.v] # "none" /\ row[g.a] = "none",
         OwnOK(g)'
  PROVE  IInv'
<1>0. PICK s \in Seq(Frames) : s = stack[t]
  BY Begun DEF AtWork
<1>1. /\ Busy(t) /\ s # <<>> /\ Len(s) \in Nat /\ Len(s) >= 1 /\ Len(s) \in 1 .. Len(s)
      /\ Top(t) = s[Len(s)] /\ Shape(s) /\ g \in Frames /\ IsAccess(g)
      /\ IsAccess(s[Len(s)]) /\ Active(s, Len(s))
  BY <1>0, Begun, Working, Classes DEF AtWork, Frames
<1>2. PICK w \in Seq(Frames) : Replaced(s, w, g) /\ StackIs(t, w)
  BY <1>0, <1>1, Replaces
<1>3. /\ w[Len(s)] = g /\ Len(w) = Len(s) /\ \A i \in 1 .. Len(s) - 1 : w[i] = s[i]
  BY <1>2 DEF Replaced
<1>4. Shape(w)
  BY <1>1, <1>2, ShapeOfReplaced
<1>5. /\ Fits' /\ st' \in [Caches -> [Addrs -> States]] /\ st'[n] = row
      /\ \A m \in Caches \ {n} : st'[m] = st[m]
  BY RowFits
<1>6. bcc' \in [Caches -> Threads \cup {NoThread}] /\ bcc'[n] = t
      /\ \A m \in Caches \ {n} : bcc'[m] = bcc[m]
  BY DEF IInv, Types
<1>7. Types'
  BY <1>2, <1>5, <1>6 DEF IInv, Types, StackIs, OwnWork
<1>8. bcc[n] \in {NoThread, t} /\ (Holds(s, Len(s)) \/ bcc[n] # t)
  BY <1>0 DEF AtWork
<1>9. Alone(t)
  <2>1. ASSUME NEW u \in Threads \ {t}, NEW m \in Caches, bcc[m] = u PROVE bcc'[m] = u
    BY <1>6, <1>8, <2>1, Family
  <2> QED
    BY <1>2, <2>1 DEF Alone, StackIs, OwnWork
<1>10. GoesOn(t, w)
  <2>1. g.n = n /\ g.at # "fill" /\ g.at # "tcc"
    BY DEF SameCall
  <2> QED
    BY <1>0, <1>1, <1>3, <1>6, <1>8, <2>1 DEF GoesOn, OwnWork
<1>11. FrameClaim(w, Len(s))'
  <2>1. ReqOK(g)'
    <3>1. g.ch # Mem => g.ch \in Caches /\ g.ch # n
      BY <1>1, Working DEF SameCall
    <3>2. g.ch # Mem => st'[g.ch] = st[g.ch]
      BY <1>5, <3>1
    <3>3. dir' = dir /\ ReqOK(g)
      BY DEF OwnWork
    <3> QED
      BY <3>2, <3>3 DEF ReqOK
  <2>2. VictimOK(g)'
    <3>1. g.n = n /\ g.a \in Addrs /\ (g.at \in {"evict", "insert"} => g.v \in Addrs)
      BY <1>1, FrameTypes DEF SameCall, FrameOK
    <3> QED
      BY <1>5, <3>1 DEF VictimOK, Tagged
  <2> QED
    BY <1>1, <1>3, <2>1, <2>2 DEF FrameClaim
<1>12. \A i \in 1 .. Len(w) : i >= Len(stack[t]) => FrameClaim(w, i)'
  BY <1>0, <1>1, <1>3, <1>11
<1>13. n # Root => SameRights(n)
  BY <1>5 DEF Keeps, SameRights
<1>14. \A a \in Addrs : \/ dir[n][a].sh = {}
                        \/ /\ Valid(st[n][a]) => Valid(st'[n][a])
                           /\ Excl(st[n][a]) => Excl(st'[n][a])
  BY <1>5 DEF Keeps
<1>15. UNCHANGED <<dir, filt>> /\ ~aborted' /\ WritebackOK(t)'
  BY DEF OwnWork, WritebackOK
<1> QED
  BY <1>0, <1>1, <1>2, <1>4, <1>5, <1>7, <1>8, <1>9, <1>10, <1>12, <1>13, <1>14, <1>15, OwnStep

(* The last frame of t has become g and waits for request r to its parent. *)
LEMMA SendsKeeps ==
  ASSUME IInv, NEW t \in Threads, AtWork(t), OwnWork(t),
         NEW n \in Caches \ {Root}, n = Top(t).n,
         NEW g \in AccessFrames, SameCall(Top(t), g), g.at \in {"insert", "dir", "end"},
         NEW r \in AccessFrames, r.n = Parent[n], r.at = "tcc", r.ch = n, r.v = NoAddr,
         stack' = [stack EXCEPT ![t] = Append(Frame(t, g), r)],
         NEW row, FitsIn(n, row), Keeps(n, row), st' = [st EXCEPT ![n] = row],
         bcc' = [bcc EXCEPT ![n] = NoThread],
         ReqOK(g), g.at = "insert" => row[g.v] # "none" /\ row[g.a] = "none",
         IF r.ty \in Gets
         THEN /\ g.ty = r.ty /\ g.a = r.a /\ g.at = After(n)
              /\ row[r.a] = r.init /\ r.init \in {"I", "S"} /\ (r.ty = "GETS" => r.init = "I")
         ELSE /\ g.at = "insert" /\ r.a = g.v /\ dir[n][r.a].sh = {}
              /\ row[r.a] = r.init /\ r.init \in IF r.ty = "PUTX" THEN {"M"} ELSE {"S", "E"}
  PROVE  IInv'
<1>0. PICK s \in Seq(Frames) : s = stack[t]
  BY Begun DEF AtWork
<1>1. /\ Busy(t) /\ s # <<>> /\ Len(s) \in Nat /\ Len(s) >= 1 /\ Len(s) \in 1 .. Len(s)
      /\ Top(t) = s[Len(s)] /\ Shape(s) /\ g \in Frames /\ IsAccess(g)
      /\ IsAccess(s[Len(s)]) /\ Active(s, Len(s)) /\ r \in Frames /\ IsAccess(r)
      /\ g.n = n /\ FrameOK(g)
  BY <1>0, Begun, Working, Classes DEF AtWork, Frames, SameCall
<1>2. PICK w \in Seq(Frames) : Pushed(s, w, g, r) /\ StackIs(t, w)
  BY <1>0, <1>1, Sends
<1>3. /\ w[Len(s)] = g /\ Len(w) = Len(s) + 1 /\ w[Len(s) + 1] = r
      /\ \A i \in 1 .. Len(s) - 1 : w[i] = s[i]
  BY <1>2 DEF Pushed
<1>4. Shape(w)
  <2>1. FrameOK(r)
    BY <1>1, Family DEF FrameOK
  <2>2. Link(g, r)
    BY <1>1 DEF Link
  <2> QED
    BY <1>1, <1>2, <2>1, <2>2, ShapeOfPushed
<1>5. /\ Fits' /\ st' \in [Caches -> [Addrs -> States]] /\ st'[n] = row
      /\ \A m \in Caches \ {n} : st'[m] = st[m]
  BY RowFits
<1>6. bcc' \in [Caches -> Threads \cup {NoThread}] /\ bcc'[n] = NoThread
      /\ \A m \in Caches \ {n} : bcc'[m] = bcc[m]
  BY DEF IInv, Types
<1>7. Types'
  BY <1>2, <1>5, <1>6 DEF IInv, Types, StackIs, OwnWork
<1>8. bcc[n] \in {NoThread, t} /\ (Holds(s, Len(s)) \/ bcc[n] # t)
  BY <1>0 DEF AtWork
<1>9. Alone(t)
  <2>1. ASSUME NEW u \in Threads \ {t}, NEW m \in Caches, bcc[m] = u PROVE bcc'[m] = u
    BY <1>6, <1>8, <2>1, Family
  <2> QED
    BY <1>2, <2>1 DEF Alone, StackIs, OwnWork
<1>10. ~Holds(w, Len(s)) /\ ~Holds(w, Len(s) + 1) /\ ~Active(w, Len(s) + 1)
  BY <1>1, <1>3 DEF Holds, Active
<1>11. GoesOn(t, w)
  <2>1. g.at # "fill" /\ g.at # "tcc"
    OBVIOUS
  <2> QED
    BY <1>0, <1>1, <1>3, <1>6, <1>8, <1>10, <2>1 DEF GoesOn, OwnWork
<1>12. FrameClaim(w, Len(s))'
  <2>1. ReqOK(g)'
    <3>1. g.ch # Mem => g.ch \in Caches /\ g.ch # n
      BY <1>1, Working DEF SameCall
    <3>2. g.ch # Mem => st'[g.ch] = st[g.ch]
      BY <1>5, <3>1
    <3>3. dir' = dir /\ ReqOK(g)
      BY DEF OwnWork
    <3> QED
      BY <3>2, <3>3 DEF ReqOK
  <2>2. VictimOK(g)'
    <3>1. g.a \in Addrs /\ (g.at \in {"evict", "insert"} => g.v \in Addrs)
      BY <1>1, FrameTypes DEF FrameOK
    <3> QED
      BY <1>1, <1>5, <3>1 DEF VictimOK, Tagged
  <2> QED
    BY <1>1, <1>3, <1>10, <2>1, <2>2 DEF FrameClaim
<1>13. FrameClaim(w, Len(s) + 1)'
  <2>1. ReqOK(r)'
    BY <1>5 DEF ReqOK, OwnWork
  <2>2. VictimOK(r)'
    BY DEF VictimOK
  <2> QED
    BY <1>1, <1>3, <1>10, <2>1, <2>2 DEF FrameClaim
<1>14. \A i \in 1 .. Len(w) : i >= Len(stack[t]) => FrameClaim(w, i)'
  <2>1. \A i \in 1 .. Len(w) : i >= Len(s) => i = Len(s) \/ i = Len(s) + 1
    BY <1>1, <1>3
  <2> QED
    BY <1>0, <1>12, <1>13, <2>1
<1>15. SameRights(n)
  BY <1>5 DEF Keeps, SameRights
<1>16. \A a \in Addrs : \/ dir[n][a].sh = {}
                        \/ /\ Valid(st[n][a]) => Valid(st'[n][a])
                           /\ Excl(st[n][a]) => Excl(st'[n][a])
  BY <1>5 DEF Keeps
<1>17. UNCHANGED <<dir, filt>> /\ ~aborted' /\ WritebackOK(t)'
  BY DEF OwnWork, WritebackOK
<1> QED
  BY <1>0, <1>1, <1>2, <1>4, <1>5, <1>7, <1>8, <1>9, <1>11, <1>14, <1>15, <1>16, <1>17, OwnStep

LEMMA FitsChange ==
  ASSUME NEW n, NEW row, FitsIn(n, row), NEW a \in Addrs, row[a] # "none",
         NEW s \in States \ {"none"}
  PROVE  FitsIn(n, [row EXCEPT ![a] = s])
<1>1. [row EXCEPT ![a] = s] \in [Addrs -> States]
  BY DEF FitsIn
<1>2. {b \in Addrs : [row EXCEPT ![a] = s][b] # "none"} = {b \in Addrs : row[b] # "none"}
  BY DEF FitsIn
<1> QED
  BY <1>1, <1>2 DEF FitsIn

LEMMA KeepsChange ==
  ASSUME NEW n \in Caches, NEW row \in [Addrs -> States], Keeps(n, row), NEW a \in Addrs, NEW s,
         n # Root => /\ Valid(row[a]) <=> Valid(s)
                     /\ Excl(row[a]) <=> Excl(s),
         dir[n][a].sh = {} \/ (Valid(s) /\ (Excl(row[a]) => Excl(s)))
  PROVE  Keeps(n, [row EXCEPT ![a] = s])
<1>1. \A b \in Addrs : [row EXCEPT ![a] = s][b] = IF b = a THEN s ELSE row[b]
  OBVIOUS
<1> QED
  BY <1>1 DEF Keeps

LEMMA MemFreshType ==
  ASSUME Types, NEW ty, NEW a \in Addrs, NEW s
  PROVE  MemFresh(ty, a, s) \in SUBSET (Caches \cup {Mem})
BY Family DEF Types, MemFresh

(* A request to the parent, or to memory.                                  *)
LEMMA SendUpKeeps ==
  ASSUME IInv, NEW t \in Threads, AtWork(t),
         NEW n \in Caches, n = Top(t).n,
         NEW g \in AccessFrames, SameCall(Top(t), g), g.at \in {"insert", "dir", "end"},
         NEW ty \in Gets \cup Puts, NEW a \in Addrs, NEW s \in States \ {"none"},
         NEW lines, FitsIn(n, lines), Keeps(n, lines), lines[a] # "none",
         Keeps(n, [lines EXCEPT ![a] = s]),
         SendUp(t, g, ty, a, s, lines),
         ReqOK(g), g.at = "insert" => lines[g.v] # "none" /\ lines[g.a] = "none" /\ g.a # a,
         IF ty \in Gets
         THEN /\ g.ty = ty /\ g.a = a /\ g.at = After(n)
              /\ s \in {"I", "S"} /\ (ty = "GETS" => s = "I")
         ELSE /\ g.at = "insert" /\ a = g.v /\ dir[n][a].sh = {}
              /\ s \in IF ty = "PUTX" THEN {"M"} ELSE {"S", "E"},
         UNCHANGED <<dir, tcc, flock, filt>>, aborted' = FALSE,
         wb' \in [Threads -> Addrs \cup {NoAddr}], wb'[t] = NoAddr,
         \A u \in Threads \ {t} : wb'[u] = wb[u]
  PROVE  IInv'
<1>1. g.n = n /\ Types
  BY DEF SameCall, IInv
<1>2. CASE n = Root
  <2> DEFINE up == MemState(t, ty)  row == [lines EXCEPT ![a] = up]
  <2>1. /\ stack' = [stack EXCEPT ![t] = Frame(t, g)]
        /\ st' = [st EXCEPT ![n] = row] /\ bcc' = [bcc EXCEPT ![n] = t]
        /\ fresh' = [fresh EXCEPT ![a] = MemFresh(ty, a, s)]
    BY <1>1, <1>2 DEF SendUp
  <2>2. OwnWork(t)
    BY <1>1, <2>1, MemFreshType DEF OwnWork, Types
  <2>3. up \in States \ {"none"} /\ lines \in [Addrs -> States]
    BY DEF MemState, States, FitsIn
  <2>4. FitsIn(n, row)
    BY <2>3, FitsChange
  <2>5. ty \in Gets => Valid(up) /\ (ty = "GETX" => up = "M")
    BY DEF MemState, Valid, Gets, Puts
  <2>6. Keeps(n, row)
    <3>1. dir[n][a].sh = {} \/ (Valid(up) /\ (Excl(lines[a]) => Excl(up)))
      <4>1. CASE ty \notin Gets
        BY <4>1
      <4>2. CASE ty = "GETX"
        BY <2>5, <4>2 DEF Excl, Gets
      <4>3. CASE ty = "GETS" /\ dir[n][a].sh # {}
        <5>1. ~Excl([lines EXCEPT ![a] = s][a])
          BY <2>3, <4>3 DEF Excl, Gets
        <5>2. ~Excl(st[n][a]) /\ (Valid(st[n][a]) => Valid([lines EXCEPT ![a] = s][a]))
          BY <4>3, <5>1 DEF Keeps
        <5>3. [lines EXCEPT ![a] = s][a] = "I"
          BY <2>3, <4>3 DEF Gets
        <5>4. ~Valid(st[n][a])
          BY <5>2, <5>3 DEF Valid
        <5>5. PICK c : c \in dir[n][a].sh
          BY <4>3
        <5>6. c \in Children(n) /\ Valid(st[c][a])
          BY <5>5, Sharers
        <5> QED
          BY <5>4, <5>6 DEF IInv, DirOK
      <4> QED
        BY <4>1, <4>2, <4>3 DEF Gets
    <3> QED
      BY <1>2, <2>3, <3>1, KeepsChange
  <2>7. g.at = "insert" => row[g.v] # "none" /\ row[g.a] = "none"
    BY <2>3, FrameTypes DEF SameCall, FrameOK
  <2>8. row[a] = up /\ st'[n] = row
    BY <1>1, <2>1, <2>3 DEF Types
  <2>9. OwnOK(g)'
    <3>1. CASE ty \in Gets
      BY <1>1, <2>5, <2>8, <3>1 DEF OwnOK, After, Gets
    <3>2. CASE ty \notin Gets
      <4>1. up = "I"
        BY <3>2 DEF MemState
      <4> QED
        BY <1>1, <2>8, <3>2, <4>1 DEF OwnOK
    <3> QED
      BY <3>1, <3>2
  <2> HIDE DEF row, up
  <2> QED
    BY <2>1, <2>2, <2>4, <2>6, <2>7, <2>9, StaysKeeps
<1>3. CASE n # Root
  <2> DEFINE row == [lines EXCEPT ![a] = s]  r == Request(Parent[n], ty, a, n, s)
  <2>1. /\ stack' = [stack EXCEPT ![t] = Append(Frame(t, g), r)]
        /\ st' = [st EXCEPT ![n] = row] /\ bcc' = [bcc EXCEPT ![n] = NoThread]
        /\ UNCHANGED fresh
    BY <1>1, <1>3 DEF SendUp
  <2>2. OwnWork(t)
    BY <1>1, <2>1 DEF OwnWork, Types
  <2>3. lines \in [Addrs -> States] /\ row[a] = s
    BY DEF FitsIn
  <2>4. FitsIn(n, row)
    BY <2>3, FitsChange
  <2>5. /\ r \in AccessFrames /\ r.n = Parent[n] /\ r.at = "tcc" /\ r.ch = n /\ r.ty = ty
        /\ r.a = a /\ r.init = s /\ r.v = NoAddr
    BY <1>3, Family DEF Request, AccessFrames
  <2>6. g.at = "insert" => row[g.v] # "none" /\ row[g.a] = "none"
    BY <2>3, FrameTypes DEF SameCall, FrameOK
  <2> HIDE DEF row, r
  <2> QED
    BY <1>3, <2>1, <2>2, <2>3, <2>4, <2>5, <2>6, SendsKeeps DEF row
<1> QED
  BY <1>2, <1>3

(* What a request is, once the race check has passed.                      *)
Ready(f) ==
  f.ch # Mem =>
    IF f.ty \in Gets THEN ReqOK(f)
    ELSE /\ dir[f.ch][f.a].sh = {}
         /\ IF f.ty = "PUTX" THEN st[f.ch][f.a] = "M" ELSE Valid(st[f.ch][f.a])

LEMMA ReadyReq ==
  ASSUME NEW f \in AccessFrames, FrameOK(f), Ready(f), f.at \in {"bcc", "insert"},
         NEW l \in {"dir", "end"}, l = After(f.n)
  PROVE  ReqOK([f EXCEPT !.at = l])
<1>1. LET g == [f EXCEPT !.at = l] IN
      g.n = f.n /\ g.ty = f.ty /\ g.a = f.a /\ g.ch = f.ch /\ g.init = f.init /\ g.at = l
  BY MoveAccess
<1>2. SUFFICES ASSUME f.ch # Mem PROVE ReqOK([f EXCEPT !.at = l])
  BY <1>1 DEF ReqOK
<1>3. l = "dir"
  BY <1>2, Classes DEF FrameOK, After
<1> QED
  BY <1>1, <1>2, <1>3 DEF ReqOK, Ready

LEMMA ServeKeeps ==
  ASSUME IInv, NEW t \in Threads, AtWork(t), wb[t] = NoAddr,
         NEW n \in Caches, n = Top(t).n,
         NEW f \in AccessFrames, SameCall(Top(t), f), f.at \in {"bcc", "insert"}, Ready(f),
         NEW lines, FitsIn(n, lines), Keeps(n, lines), lines[f.a] # "none",
         Serve(t, f, lines), UNCHANGED <<dir, tcc, flock, filt, wb>>
  PROVE  IInv'
<1> DEFINE s == lines[f.a]  l == After(n)  g == [f EXCEPT !.at = l]
           row == [lines EXCEPT ![f.a] = IF f.ty \in {"PUTX", "GETX"} THEN "M" ELSE @]
<1>1. /\ f.n = n /\ FrameOK(f) /\ f.a \in Addrs /\ f.ty \in Gets \cup Puts
      /\ l \in {"dir", "end"} /\ lines \in [Addrs -> States] /\ s \in States \ {"none"}
      /\ aborted = FALSE
  BY FrameTypes DEF SameCall, FitsIn, After, IInv, Types
<1>2. /\ g \in AccessFrames /\ g.n = n /\ g.ty = f.ty /\ g.a = f.a /\ g.ch = f.ch
      /\ g.init = f.init /\ g.v = f.v /\ g.at = l
  <2>1. l \in {"tcc", "bcc", "evict", "insert", "dir", "end", "fill"}
    BY <1>1
  <2> HIDE DEF l
  <2>2. LET e == [f EXCEPT !.at = l] IN
        /\ e \in AccessFrames /\ e.n = f.n /\ e.ty = f.ty /\ e.a = f.a /\ e.ch = f.ch
        /\ e.init = f.init /\ e.v = f.v /\ e.at = l
    BY <2>1, MoveAccess
  <2> QED
    BY <1>1, <2>2
<1>3. SameCall(Top(t), g) /\ ReqOK(g)
  <2>1. FrameOK(g)
    BY <1>1, <1>2, Classes DEF FrameOK, After
  <2>2. ReqOK(g)
    BY <1>1, ReadyReq
  <2>3. IsAccess(f) /\ IsAccess(g) /\ g \in Frames
    BY <1>2, Classes DEF Frames
  <2> QED
    BY <1>2, <2>1, <2>2, <2>3 DEF SameCall
<1>4. f.ty \in Puts => /\ Valid(s) /\ (f.ty = "PUTX" => Excl(s))
                       /\ f.ch # Mem
  <2>1. SUFFICES ASSUME f.ty \in Puts PROVE Valid(s) /\ (f.ty = "PUTX" => Excl(s)) /\ f.ch # Mem
    OBVIOUS
  <2>2. f.ch # Mem
    BY <1>1, <2>1, Classes DEF FrameOK, Gets, Puts
  <2>3. f.ch \in Children(n)
    BY <2>2, Working DEF SameCall, AtWork
  <2>4. Valid(st[f.ch][f.a]) /\ (f.ty = "PUTX" => Excl(st[f.ch][f.a]))
    BY <2>1, <2>2 DEF Ready, Gets, Puts, Valid, Excl
  <2>5. DirOK
    BY DEF IInv
  <2>6. Valid(st[n][f.a]) /\ (f.ty = "PUTX" => Excl(st[n][f.a])) /\ dir[n][f.a].sh # {}
    BY <1>1, <2>3, <2>4, <2>5 DEF DirOK
  <2> QED
    BY <1>1, <2>2, <2>6 DEF Keeps
<1>5. CASE f.ty \in Gets /\ (s = "I" \/ (f.ty = "GETX" /\ s = "S"))
  <2>1. SendUp(t, g, f.ty, f.a, s, lines) /\ UNCHANGED aborted
    BY <1>1, <1>5 DEF Serve, After
  <2>2. /\ s \in {"I", "S"} /\ (f.ty = "GETS" => s = "I") /\ f.ty \in Gets
    BY <1>5
  <2>3. [lines EXCEPT ![f.a] = s] = lines
    BY <1>1
  <2>4. wb' \in [Threads -> Addrs \cup {NoAddr}]
    BY DEF IInv, Types
  <2>5. g.at \in {"insert", "dir", "end"} /\ g.at # "insert"
    BY <1>1, <1>2
  <2>6. Keeps(n, [lines EXCEPT ![f.a] = s]) /\ aborted' = FALSE /\ g.at = After(n)
    BY <1>1, <1>2, <2>1, <2>3
  <2>7. IF f.ty \in Gets
        THEN /\ g.ty = f.ty /\ g.a = f.a /\ g.at = After(n)
             /\ s \in {"I", "S"} /\ (f.ty = "GETS" => s = "I")
        ELSE /\ g.at = "insert" /\ f.a = g.v /\ dir[n][f.a].sh = {}
             /\ s \in IF f.ty = "PUTX" THEN {"M"} ELSE {"S", "E"}
    BY <1>2, <2>2, <2>6
  <2>8. /\ wb' \in [Threads -> Addrs \cup {NoAddr}] /\ wb'[t] = NoAddr
        /\ \A u \in Threads \ {t} : wb'[u] = wb[u]
    BY <2>4
  <2> HIDE DEF s, g, l
  <2> QED
    BY <1>1, <1>2, <1>3, <2>1, <2>5, <2>6, <2>7, <2>8, SendUpKeeps DEF s
<1>6. CASE ~(f.ty \in Gets /\ (s = "I" \/ (f.ty = "GETX" /\ s = "S")))
  <2>1. /\ stack' = [stack EXCEPT ![t] = Frame(t, g)]
        /\ st' = [st EXCEPT ![n] = row] /\ bcc' = [bcc EXCEPT ![n] = t] /\ UNCHANGED fresh
        /\ aborted' = ~(IF f.ty = "PUTX" THEN Excl(s) ELSE Valid(s))
    BY <1>1, <1>6 DEF Serve, After, Check
  <2>2. Valid(s) /\ (f.ty \in {"PUTX", "GETX"} => Excl(s))
    BY <1>1, <1>4, <1>6 DEF Valid, Excl, States, Gets, Puts
  <2>3. OwnWork(t)
    BY <1>1, <2>1, <2>2 DEF OwnWork, IInv, Types
  <2>4. /\ row = [lines EXCEPT ![f.a] = IF f.ty \in {"PUTX", "GETX"} THEN "M" ELSE s]
        /\ row[f.a] = IF f.ty \in {"PUTX", "GETX"} THEN "M" ELSE s
    BY <1>1
  <2>5. FitsIn(n, row)
    <3>1. (IF f.ty \in {"PUTX", "GETX"} THEN "M" ELSE s) \in States \ {"none"}
      BY <1>1 DEF States
    <3> QED
      BY <1>1, <2>4, <3>1, FitsChange
  <2>6. Keeps(n, row)
    <3>1. LET v == IF f.ty \in {"PUTX", "GETX"} THEN "M" ELSE s IN
          Valid(v) /\ (Excl(s) <=> Excl(v)) /\ (Valid(s) <=> Valid(v))
      BY <2>2 DEF Valid, Excl
    <3> QED
      BY <1>1, <2>4, <3>1, KeepsChange
  <2>7. OwnOK(g)'
    <3>1. st'[n] = row
      BY <2>1 DEF IInv, Types
    <3>2. f.ty \in Gets => IF f.ty = "GETX" THEN row[f.a] = "M" ELSE Valid(row[f.a])
      BY <2>2, <2>4 DEF Gets
    <3> QED
      BY <1>1, <1>2, <3>1, <3>2 DEF OwnOK
  <2>8. g.at \in {"evict", "insert", "dir", "end"} /\ g.at \notin {"evict", "insert"}
    BY <1>1, <1>2
  <2> HIDE DEF s, g, l, row
  <2> QED
    BY <1>2, <1>3, <2>1, <2>3, <2>5, <2>6, <2>7, <2>8, StaysKeeps
<1> QED
  BY <1>5, <1>6

(* A line that is not in the array, or invalid in it, is nowhere below.    *)
LEMMA NothingBelow ==
  ASSUME IInv, NEW n \in Caches, NEW a \in Addrs, ~Valid(st[n][a])
  PROVE  dir[n][a] = NoEntry
<1>1. /\ dir[n][a].sh = {c \in Children(n) : Valid(st[c][a])}
      /\ dir[n][a].ex <=> \E c \in Children(n) : Excl(st[c][a])
      /\ \A c \in Children(n) : Valid(st[c][a]) => Valid(st[n][a])
  BY DEF IInv, DirOK
<1>2. \A s : Excl(s) => Valid(s)
  BY DEF Excl, Valid
<1>3. dir[n][a].sh = {} /\ ~dir[n][a].ex
  BY <1>1, <1>2
<1>4. dir[n][a] \in Entries
  BY DEF IInv, Types
<1> QED
  BY <1>3, <1>4 DEF Entries, NoEntry

LEMMA InsertKeeps ==
  ASSUME IInv, NEW t \in Threads, AtWork(t), wb[t] = NoAddr,
         NEW n \in Caches, n = Top(t).n,
         NEW f \in AccessFrames, SameCall(Top(t), f), f.at \in {"bcc", "insert"}, Ready(f),
         f.a \notin Tagged(n),
         \/ f.v = NoAddr /\ Cardinality(Tagged(n)) < Lines[n]
         \/ f.v \in Addrs /\ st[n][f.v] = "I",
         Insert(t, f), UNCHANGED <<tcc, flock, filt, wb>>
  PROVE  IInv'
<1> DEFINE v == f.v
           lines == [a \in Addrs |-> IF a = f.a THEN "I" ELSE IF a = v THEN "none" ELSE st[n][a]]
           T == {a \in Addrs : lines[a] # "none"}
<1>1. /\ f.n = n /\ f.a \in Addrs /\ NoAddr \notin Addrs /\ st[n] \in [Addrs -> States]
      /\ st[n][f.a] = "none"
  BY FrameTypes, Family DEF SameCall, IInv, Types, Tagged
<1>2. dir' = dir
  <2>1. dir' = [dir EXCEPT ![n] = [a \in Addrs |->
          IF a = f.a THEN IF v = NoAddr THEN NoEntry ELSE dir[n][v]
          ELSE IF a = v THEN NoEntry ELSE dir[n][a]]]
    BY <1>1 DEF Insert, IInv, Types
  <2>2. dir[n][f.a] = NoEntry /\ (v # NoAddr => dir[n][v] = NoEntry)
    BY <1>1, NothingBelow DEF Valid
  <2>3. dir \in [Caches -> [Addrs -> Entries]]
    BY DEF IInv, Types
  <2>4. dir[n] = [a \in Addrs |-> IF a = f.a THEN IF v = NoAddr THEN NoEntry ELSE dir[n][v]
                                 ELSE IF a = v THEN NoEntry ELSE dir[n][a]]
    BY <1>1, <2>2, <2>3
  <2> QED
    BY <2>1, <2>3, <2>4
<1>3. Serve(t, f, lines)
  BY <1>1 DEF Insert
<1>4. lines \in [Addrs -> States] /\ lines[f.a] = "I"
  BY <1>1 DEF States
<1>5. IsFiniteSet(T) /\ Cardinality(T) <= Lines[n]
  <2>1. /\ IsFiniteSet(Tagged(n)) /\ Cardinality(Tagged(n)) <= Lines[n]
        /\ Cardinality(Tagged(n)) \in Nat /\ Lines[n] \in Nat
    BY FS_CardinalityType, CoherenceAssumption DEF IInv, Fits
  <2>2. CASE v = NoAddr /\ Cardinality(Tagged(n)) < Lines[n]
    <3>1. T = Tagged(n) \cup {f.a}
      BY <1>1, <2>2 DEF Tagged
    <3> HIDE DEF T
    <3>2. /\ IsFiniteSet(Tagged(n) \cup {f.a})
          /\ Cardinality(Tagged(n) \cup {f.a}) = Cardinality(Tagged(n)) + 1
      BY <2>1, FS_AddElement
    <3>3. IsFiniteSet(T) /\ Cardinality(T) = Cardinality(Tagged(n)) + 1
      BY <3>1, <3>2, Zenon
    <3> QED
      BY <2>1, <2>2, <3>3
  <2>3. CASE v \in Addrs /\ st[n][v] = "I"
    <3> DEFINE R == Tagged(n) \ {v}
    <3>1. T = R \cup {f.a} /\ f.a \notin R /\ v \in Tagged(n)
      BY <1>1, <2>3 DEF Tagged
    <3>2. IsFiniteSet(R) /\ Cardinality(R) = Cardinality(Tagged(n)) - 1
      BY <2>1, <3>1, FS_RemoveElement
    <3> HIDE DEF T, R
    <3>3. IsFiniteSet(R \cup {f.a}) /\ Cardinality(R \cup {f.a}) = Cardinality(R) + 1
      BY <3>1, <3>2, FS_AddElement
    <3>4. IsFiniteSet(T) /\ Cardinality(T) = Cardinality(R) + 1
      BY <3>1, <3>3, Zenon
    <3> QED
      BY <2>1, <3>2, <3>4
  <2> QED
    BY <2>2, <2>3
<1>6. FitsIn(n, lines)
  BY <1>4, <1>5 DEF FitsIn
<1>7. Keeps(n, lines)
  BY <1>1 DEF Keeps, Valid, Excl
<1> HIDE DEF v, lines, T
<1> QED
  BY <1>2, <1>3, <1>4, <1>6, <1>7, ServeKeeps

(* Cache n has served its child ch, whose line is now x, with entry d.     *)
ServedDir(n, ch, a, x, y, d) ==
  /\ Valid(y) /\ Valid(st[n][a])
  /\ Excl(y) <=> Excl(st[n][a])
  /\ st[ch][a] # "none"
  /\ d.sh = IF Valid(x) THEN dir[n][a].sh \cup {ch} ELSE dir[n][a].sh \ {ch}
  /\ d.ex <=> Excl(x)
  /\ Excl(x) => Excl(y) /\ d.sh = {ch}
  /\ ~Excl(x) => ~dir[ch][a].ex /\ \A c \in Children(n) \ {ch} : ~Excl(st[c][a])
  /\ ~Valid(x) => dir[ch][a].sh = {}
  /\ st' = [st EXCEPT ![ch][a] = x, ![n][a] = y]
  /\ dir' = [dir EXCEPT ![n][a] = d]

LinesServed(n, ch, a, x, y) ==
  /\ st' \in [Caches -> [Addrs -> States]] /\ dir' \in [Caches -> [Addrs -> Entries]]
  /\ ch # n /\ st'[ch][a] = x /\ st'[n][a] = y
  /\ \A m \in Caches \ {n, ch} : SameCache(m)
  /\ SameRights(n) /\ SameTags(n) /\ SameTags(ch) /\ dir'[ch] = dir[ch]

LEMMA ServedLines ==
  ASSUME IInv, NEW n \in Caches, NEW ch \in Children(n), NEW a \in Addrs,
         NEW x \in States \ {"none"}, NEW y \in States, NEW d \in Entries,
         ServedDir(n, ch, a, x, y, d)
  PROVE  LinesServed(n, ch, a, x, y) /\ Fits' /\ DirOK'
<1>1. /\ ch \in Caches /\ ch # n /\ ch # Root /\ Parent[ch] = n
      /\ st \in [Caches -> [Addrs -> States]] /\ dir \in [Caches -> [Addrs -> Entries]]
  BY Family DEF IInv, Types
<1>2. /\ st' \in [Caches -> [Addrs -> States]] /\ dir' \in [Caches -> [Addrs -> Entries]]
      /\ st'[ch][a] = x /\ st'[n][a] = y /\ dir'[n][a] = d
      /\ \A m \in Caches \ {n, ch} : st'[m] = st[m]
      /\ \A m \in Caches \ {n} : dir'[m] = dir[m]
      /\ \A b \in Addrs \ {a} : st'[ch][b] = st[ch][b] /\ st'[n][b] = st[n][b] /\ dir'[n][b] = dir[n][b]
  BY <1>1 DEF ServedDir
<1>3. SameRights(n) /\ SameTags(n) /\ SameTags(ch)
  BY <1>1, <1>2 DEF SameRights, SameTags, ServedDir, Valid, Excl
<1>4. \A m \in Caches : SameTags(m)
  BY <1>2, <1>3 DEF SameTags
<1>5. Fits'
  <2>1. \A m \in Caches : {b \in Addrs : st'[m][b] # "none"} = {b \in Addrs : st[m][b] # "none"}
    BY <1>4 DEF SameTags
  <2> QED
    BY <2>1 DEF IInv, Fits, Tagged
<1>6. \A m \in Caches : \A b \in Addrs :
        m # ch \/ b # a => /\ Valid(st[m][b]) <=> Valid(st'[m][b])
                           /\ Excl(st[m][b]) <=> Excl(st'[m][b])
  BY <1>2, <1>3 DEF SameRights
<1>7. \A z : Excl(z) => Valid(z)
  BY DEF Excl, Valid
<1>8. ASSUME NEW m \in Caches, NEW b \in Addrs
      PROVE  /\ dir'[m][b].sh = {c \in Children(m) : Valid(st'[c][b])}
             /\ dir'[m][b].ex <=> \E c \in Children(m) : Excl(st'[c][b])
             /\ \A c \in Children(m) :
                  /\ Valid(st'[c][b]) => Valid(st'[m][b])
                  /\ Excl(st'[c][b]) => Excl(st'[m][b]) /\ dir'[m][b].sh = {c}
  <2>1. /\ dir[m][b].sh = {c \in Children(m) : Valid(st[c][b])}
        /\ dir[m][b].ex <=> \E c \in Children(m) : Excl(st[c][b])
        /\ \A c \in Children(m) :
             /\ Valid(st[c][b]) => Valid(st[m][b])
             /\ Excl(st[c][b]) => Excl(st[m][b]) /\ dir[m][b].sh = {c}
    BY DEF IInv, DirOK
  <2>2. \A c \in Children(m) : c \in Caches /\ Parent[c] = m
    BY Family
  <2>3. CASE m = n /\ b = a
    <3>1. \A c \in Children(n) \ {ch} : /\ Valid(st[c][a]) <=> Valid(st'[c][a])
                                        /\ Excl(st[c][a]) <=> Excl(st'[c][a])
      BY <1>6, <2>2, <2>3
    <3>2. d.sh = {c \in Children(n) : Valid(st'[c][a])}
      <4>1. dir[n][a].sh = {c \in Children(n) : Valid(st[c][a])}
        BY <2>1, <2>3
      <4>2. d.sh = IF Valid(x) THEN dir[n][a].sh \cup {ch} ELSE dir[n][a].sh \ {ch}
        BY DEF ServedDir
      <4>3. Valid(st'[ch][a]) <=> Valid(x)
        BY <1>2
      <4> QED
        BY <3>1, <4>1, <4>2, <4>3
    <3>3. \A c \in Children(n) : Valid(st'[c][a]) => Valid(st'[n][a])
      BY <1>2 DEF ServedDir
    <3>4. \A c \in Children(n) \ {ch} : ~Excl(st'[c][a])
      BY <1>7, <3>1, <3>2 DEF ServedDir
    <3>5. /\ Excl(st'[ch][a]) <=> Excl(x)
          /\ d.ex <=> Excl(x)
          /\ Excl(x) => Excl(st'[n][a]) /\ d.sh = {ch}
      BY <1>2 DEF ServedDir
    <3>6. (\E c \in Children(n) : Excl(st'[c][a])) <=> Excl(x)
      BY <3>4, <3>5
    <3>7. \A c \in Children(n) : Excl(st'[c][a]) => Excl(st'[n][a]) /\ d.sh = {c}
      BY <3>4, <3>5
    <3>8. dir'[n][a] = d
      BY <1>2
    <3> QED
      BY <2>3, <3>2, <3>3, <3>5, <3>6, <3>7, <3>8
  <2>4. CASE ~(m = n /\ b = a)
    <3>1. dir'[m][b] = dir[m][b]
      BY <1>2, <2>4
    <3>2. \A c \in Children(m) : /\ Valid(st[c][b]) <=> Valid(st'[c][b])
                                 /\ Excl(st[c][b]) <=> Excl(st'[c][b])
      BY <1>1, <1>6, <2>2, <2>4
    <3>3. \A c \in Children(m) : /\ Valid(st'[c][b]) => Valid(st'[m][b])
                                 /\ Excl(st'[c][b]) => Excl(st'[m][b])
      <4>1. CASE m # ch \/ b # a
        BY <1>6, <2>1, <3>2, <4>1
      <4>2. CASE m = ch /\ b = a
        <5>1. /\ Valid(st'[ch][a]) <=> Valid(x)
              /\ Excl(st'[ch][a]) <=> Excl(x)
          BY <1>2
        <5>2. /\ Excl(x) \/ ~dir[ch][a].ex
              /\ Valid(x) \/ dir[ch][a].sh = {}
          BY DEF ServedDir
        <5>3. \A c \in Children(m) : /\ ~Valid(x) => ~Valid(st[c][b])
                                     /\ ~Excl(x) => ~Excl(st[c][b])
          BY <2>1, <4>2, <5>2
        <5> QED
          BY <3>2, <4>2, <5>1, <5>3
      <4> QED
        BY <4>1, <4>2
    <3> QED
      BY <2>1, <3>1, <3>2, <3>3
  <2> QED
    BY <2>3, <2>4
<1>9. DirOK'
  BY <1>8 DEF DirOK, Valid, Excl, Children
<1> QED
  BY <1>1, <1>2, <1>3, <1>5, <1>9 DEF SameCache, LinesServed

LEMMA ServedKeeps ==
  ASSUME IInv, NEW t \in Threads, Busy(t), NEW e \in AccessFrames, e = Top(t), e.at = "dir",
         NEW n \in Caches, n = e.n, NEW ch \in Caches, ch = e.ch, NEW a \in Addrs, a = e.a,
         Goto(t, "end"), UNCHANGED <<tcc, bcc, flock, filt>>, aborted' = FALSE,
         wb' \in [Threads -> Addrs \cup {NoAddr}], wb'[t] = NoAddr,
         \A u \in Threads \ {t} : wb'[u] = wb[u],
         fresh' \in [Addrs -> SUBSET (Caches \cup {Mem})],
         NEW x \in States \ {"none"}, NEW y \in States, NEW d \in Entries,
         ServedDir(n, ch, a, x, y, d),
         IF e.ty \in Gets THEN Valid(x) /\ (e.ty = "GETX" => x = "M" /\ y = "M") ELSE x = "I"
  PROVE  IInv'
<1>0. PICK s \in Seq(Frames) : s = stack[t]
  BY Begun
<1>1. /\ s # <<>> /\ Len(s) \in Nat /\ Len(s) >= 1 /\ Len(s) \in 1 .. Len(s) /\ s[Len(s)] = e
      /\ Shape(s) /\ Once(s) /\ FramesOK(s) /\ FrameOK(e) /\ IsAccess(e)
      /\ IsAccess(s[1]) /\ s[1].n = t /\ s[1].n \in Leaves
  BY <1>0, Begun, Classes
<1>2. /\ n \notin Leaves /\ Len(s) > 1 /\ Holds(s, Len(s)) /\ Active(s, Len(s)) /\ bcc[n] = t
  <2>1. n \notin Leaves
    BY <1>1, Family DEF FrameOK
  <2>2. Len(s) > 1
    BY <1>1, <2>1
  <2>3. Holds(s, Len(s)) /\ Active(s, Len(s))
    BY <1>1 DEF Holds, Active
  <2>4. bcc[n] = t
    BY <1>0, <1>1, <2>3, Begun DEF Locked
  <2> QED
    BY <2>1, <2>2, <2>3, <2>4
<1>3. /\ Len(s) - 1 \in 1 .. Len(s) /\ s[Len(s) - 1].n = ch /\ ch # Root /\ n = Parent[ch]
      /\ ch \in Children(n) /\ IsAccess(s[Len(s) - 1])
  BY <1>1, <1>2, Callers, Family
<1>4. ch \in Leaves => ch = t
  <2>1. ch \in Leaves => Len(s) - 1 = 1
    BY <1>1, <1>3, OnlyFirstInLeaf
  <2> QED
    BY <1>1, <1>3, <2>1
<1>5. /\ st' \in [Caches -> [Addrs -> States]] /\ dir' \in [Caches -> [Addrs -> Entries]]
      /\ ch # n /\ st'[ch][a] = x /\ st'[n][a] = y
      /\ \A m \in Caches \ {n, ch} : SameCache(m)
      /\ SameRights(n) /\ SameTags(n) /\ SameTags(ch) /\ dir'[ch] = dir[ch]
      /\ Fits' /\ DirOK'
  <2>1. ch \in Children(n)
    BY <1>3
  <2>2. LinesServed(n, ch, a, x, y) /\ Fits' /\ DirOK'
    BY <2>1, ServedLines, Zenon
  <2> QED
    BY <2>2, Zenon DEF LinesServed
<1>6. PICK f \in AccessFrames, w \in Seq(Frames) :
           /\ f = [Top(t) EXCEPT !.at = "end"]
           /\ f.n = Top(t).n /\ f.ty = Top(t).ty /\ f.a = Top(t).a /\ f.ch = Top(t).ch
           /\ f.init = Top(t).init /\ f.v = Top(t).v /\ f.at = "end"
           /\ Replaced(stack[t], w, f) /\ StackIs(t, w)
  BY <1>1, Moves
<1>7. /\ w[Len(s)] = f /\ Len(w) = Len(s) /\ \A i \in 1 .. Len(s) - 1 : w[i] = s[i]
      /\ IsAccess(f) /\ f \in Frames
  BY <1>0, <1>6, Classes DEF Replaced, Frames
<1>8. Shape(w)
  <2>1. SameCall(e, f)
    BY <1>1, <1>6, <1>7 DEF SameCall, FrameOK
  <2> QED
    BY <1>0, <1>1, <1>6, <2>1, ShapeOfReplaced
<1>9. Types'
  BY <1>5, <1>6 DEF IInv, Types, StackIs
<1>10. Alone(t)
  BY <1>6 DEF Alone, StackIs
<1>11. GoesOn(t, w)
  BY <1>0, <1>1, <1>2, <1>6, <1>7 DEF GoesOn
<1>12. FrameClaim(w, Len(s))'
  <2>1. ReqOK(f)'
    BY <1>5, <1>6 DEF ReqOK
  <2>2. VictimOK(f)' /\ OwnOK(f)'
    BY <1>5, <1>6 DEF VictimOK, OwnOK, ServedDir
  <2> QED
    BY <1>7, <2>1, <2>2 DEF FrameClaim
<1>13. \A i \in 1 .. Len(s) - 1 : FrameClaim(w, i)'
  <2>1. /\ Replaced(s, w, f) /\ IsAccess(s[Len(s)]) /\ s[Len(s)].n = n /\ s[Len(s)].ch = ch
        /\ IsAccess(s[1]) /\ s[1].n \in Leaves
    BY <1>0, <1>1, <1>6
  <2> QED
    BY <1>1, <1>2, <1>5, <1>7, <2>1, BelowServe
<1>14. ThreadOK(t)' /\ Busy(t)'
  <2>1. \A i \in 1 .. Len(w) : FrameClaim(w, i)'
    BY <1>1, <1>7, <1>12, <1>13
  <2>2. WritebackOK(t)'
    BY DEF WritebackOK
  <2> QED
    BY <1>6, <1>8, <1>9, <1>11, <2>1, <2>2, KeepThread
<1>15. \A u \in Threads \ {t} : ThreadOK(u)'
  <2>1. Types /\ Threaded
    BY DEF IInv, Threaded
  <2>2. \E k \in 1 .. Len(stack[t]) :
           /\ k > 1 /\ stack[t][k].n = n /\ stack[t][k].ch = ch /\ IsAccess(stack[t][k])
           /\ stack[t][k].at = "dir" /\ Holds(stack[t], k)
    BY <1>0, <1>1, <1>2
  <2>3. (\A m \in Caches \ {n, ch} : SameCache(m)) /\ SameRights(n)
    BY <1>5
  <2>4. Types' /\ Alone(t)
    BY <1>9, <1>10
  <2> QED
    BY <2>1, <2>2, <2>3, <2>4, OthersSeeServe
<1>16. FilterOK'
  <2>1. ASSUME NEW u \in Leaves PROVE ~Busy(u)' => ~Busy(u) /\ st'[u] = st[u]
    <3>1. CASE u = t
      BY <1>14, <3>1
    <3>2. CASE u # t
      BY <1>2, <1>4, <1>5, <1>6, <3>2, Family DEF StackIs, Busy, Threads, SameCache
    <3> QED
      BY <3>1, <3>2
  <2>2. FilterOK
    BY DEF IInv
  <2> QED
    BY <2>1, <2>2 DEF FilterOK
<1> QED
  BY <1>5, <1>9, <1>14, <1>15, <1>16 DEF IInv

LEMMA OneFrame ==
  ASSUME Types', NEW t \in Threads, NEW w \in Seq(Frames), stack'[t] = w, Len(w) = 1,
         IsAccess(w[1]), w[1].n = t, FrameOK(w[1]), FrameClaim(w, 1)',
         Holds(w, 1) => bcc'[t] = t, w[1].at = "fill" => flock'[t] = t, wb'[t] = NoAddr
  PROVE  ThreadOK(t)' /\ Busy(t)'
<1>1. \A i \in 1 .. Len(w) : i = 1
  OBVIOUS
<1>2. w # <<>>
  <2>1. w = <<>> => Len(w) = 0
    BY EmptySeq
  <2> QED
    BY <2>1
<1>3. Shape(w)
  BY <1>1 DEF Shape
<1>4. Once(w)
  BY <1>1 DEF Once
<1>5. Shape(w)' /\ Once(w)' /\ FramesOK(w)'
  BY <1>1, <1>3, <1>4 DEF FramesOK, FrameClaim, Shape, Once, Active, Holds, IsAccess, FrameOK, Link
<1>6. Shape(stack[t])' /\ Once(stack[t])' /\ FramesOK(stack[t])'
  BY <1>5, Zenon DEF FramesOK
<1>7. Locked(t)'
  BY <1>1 DEF Locked, Threads, Holds, IsAccess
<1>8. Busy(t)' /\ Rooted(t)' /\ WritebackOK(t)'
  BY <1>2 DEF Busy, Rooted, WritebackOK, IsAccess
<1> QED
  BY <1>6, <1>7, <1>8 DEF ThreadOK

LEMMA Returns ==
  ASSUME IInv, NEW t \in Threads, Busy(t), stack' = [stack EXCEPT ![t] = Pop(@)]
  PROVE  \E w \in Seq(Frames) : Popped(stack[t], w) /\ StackIs(t, w)
<1>0. PICK s \in Seq(Frames) : s = stack[t] /\ s # <<>>
  BY Begun
<1>1. stack' = [stack EXCEPT ![t] = Pop(s)]
  BY <1>0 DEF IInv, Types
<1>2. Pop(s) \in Seq(Frames) /\ Popped(s, Pop(s))
  BY <1>0, PopTop
<1> QED
  BY <1>0, <1>1, <1>2, StackChanges DEF IInv

LEMMA ReturnKeeps ==
  ASSUME IInv, NEW t \in Threads, Busy(t), NEW s \in Seq(Frames), s = stack[t], Len(s) > 1,
         NEW w \in Seq(Frames), Popped(s, w), StackIs(t, w), Types',
         \A i \in 1 .. Len(w) : FrameClaim(w, i)', WritebackOK(t)',
         \A i \in 1 .. Len(w) :
           /\ Active(w, i) /\ w[i].n \notin Leaves => tcc'[w[i].n] = t
           /\ Holds(w, i) => bcc'[w[i].n] = t
           /\ w[i].at = "fill" => flock'[w[i].n] = t,
         \A i, j \in 1 .. Len(w) : w[i].n = w[j].n /\ Holds(w, i) /\ Holds(w, j) => i = j
  PROVE  ThreadOK(t)' /\ Busy(t)'
<1>1. /\ s # <<>> /\ Len(s) \in Nat /\ Len(s) >= 1 /\ Len(s) \in 1 .. Len(s) /\ Shape(s) /\ Once(s)
      /\ Len(w) = Len(s) - 1 /\ \A i \in 1 .. Len(s) - 1 : w[i] = s[i]
  BY Begun DEF Popped
<1>2. Shape(w)
  BY <1>1, ShapeOfPopped
<1>3. Once(w)
  <2>1. ASSUME NEW i \in 1 .. Len(w), NEW j \in 1 .. Len(w), w[i].n = w[j].n,
               Active(w, i), Active(w, j)
        PROVE  i = j
    <3>1. i \in 1 .. Len(s) /\ j \in 1 .. Len(s) /\ w[i] = s[i] /\ w[j] = s[j]
      BY <1>1
    <3> QED
      BY <1>1, <2>1, <3>1 DEF Once, Active
  <2> QED
    BY <2>1 DEF Once
<1>4. Shape(w)' /\ Once(w)' /\ FramesOK(w)'
  BY <1>2, <1>3 DEF FramesOK, FrameClaim, Shape, Once, Active, Holds, IsAccess, FrameOK, Link
<1>5. stack'[t] = w
  BY DEF StackIs
<1>6. Shape(stack[t])' /\ Once(stack[t])' /\ FramesOK(stack[t])'
  BY <1>4, <1>5, Zenon DEF FramesOK
<1>7. Busy(t)' /\ Rooted(t)'
  <2>1. Len(w) = Len(stack[t]) - 1 /\ Len(stack[t]) > 1
    BY <1>1
  <2>2. (\A i \in 1 .. Len(stack[t]) - 1 : w[i] = stack[t][i]) /\ Len(stack[t]) # 1
    BY <1>1
  <2> QED
    BY <1>5, <2>1, <2>2, RootStays
<1>8. Locked(t)'
  BY <1>5 DEF Locked, Active, Holds, IsAccess
<1> QED
  BY <1>6, <1>7, <1>8 DEF ThreadOK

------------------------------------------------------------------------------
(* The steps.                                                              *)

LEMMA TakeTccKeeps ==
  ASSUME IInv, NEW t \in Threads, TakeTcc(t)
  PROVE  IInv'
<1>0. PICK s \in Seq(Frames), n \in Caches : s = stack[t] /\ n = Top(t).n
  BY Begun DEF TakeTcc, At
<1>1. /\ ~aborted /\ Busy(t) /\ IsAccess(Top(t)) /\ Top(t).at = "tcc" /\ tcc[n] = NoThread
      /\ tcc' = [tcc EXCEPT ![n] = t] /\ Goto(t, "bcc")
      /\ UNCHANGED <<st, dir, bcc, flock, filt, wb, fresh, aborted>>
  BY <1>0 DEF TakeTcc, At
<1>2. PICK f \in AccessFrames, w \in Seq(Frames) :
           /\ f = [Top(t) EXCEPT !.at = "bcc"]
           /\ f.n = Top(t).n /\ f.ty = Top(t).ty /\ f.a = Top(t).a /\ f.ch = Top(t).ch
           /\ f.init = Top(t).init /\ f.v = Top(t).v /\ f.at = "bcc"
           /\ Replaced(stack[t], w, f) /\ StackIs(t, w)
  BY <1>1, Moves
<1>3. /\ w[Len(s)] = f /\ Len(w) = Len(s)
      /\ \A i \in 1 .. Len(s) - 1 : w[i] = s[i]
  BY <1>0, <1>2 DEF Replaced
<1>4. /\ s \in Seq(Frames) /\ s # <<>> /\ Len(s) \in Nat /\ Len(s) >= 1 /\ Len(s) \in 1 .. Len(s)
      /\ Top(t) = s[Len(s)] /\ n \in Caches
      /\ Shape(s) /\ FramesOK(s) /\ WritebackOK(t)
      /\ FrameOK(Top(t)) /\ FrameClaim(s, Len(s)) /\ f \in Frames /\ IsAccess(f)
  BY <1>0, <1>1, Begun, Classes DEF Frames
<1>5. n \notin Leaves /\ SameCall(s[Len(s)], f)
  BY <1>0, <1>1, <1>2, <1>4, Classes DEF FrameOK, SameCall
<1>6. Shape(w)
  BY <1>0, <1>2, <1>4, <1>5, ShapeOfReplaced
<1>7. Types'
  BY <1>1, <1>2, <1>4 DEF IInv, Types, StackIs
<1>8. Alone(t)
  BY <1>1, <1>2, Family DEF Alone, StackIs, IInv, Types
<1>9. ~Holds(w, Len(s)) /\ f.at # "fill"
  BY <1>2, <1>3, <1>4 DEF Holds
<1>10. FrameClaim(w, Len(s))'
  <2>1. ReqOK(f)' /\ VictimOK(f)'
    BY <1>1, <1>2, <1>4 DEF FrameClaim, ReqOK, VictimOK
  <2> QED
    BY <1>3, <1>4, <1>9, <2>1 DEF FrameClaim
<1>11. WritebackOK(t)'
  BY <1>1, <1>4 DEF WritebackOK
<1>12. GoesOn(t, w)
  BY <1>0, <1>1, <1>2, <1>3, <1>4, <1>5, <1>9, Family DEF GoesOn, IInv, Types
<1>13. \A i \in 1 .. Len(w) : i >= Len(stack[t]) => FrameClaim(w, i)'
  BY <1>0, <1>3, <1>4, <1>10
<1> QED
  BY <1>1, <1>2, <1>6, <1>7, <1>8, <1>11, <1>12, <1>13, QuietStep

LEMMA EvictInvalKeeps ==
  ASSUME IInv, NEW t \in Threads, EvictInval(t)
  PROVE  IInv'
<1>1. PICK f \in AccessFrames, s \in Seq(Frames) :
           /\ f = Top(t) /\ s = stack[t] /\ Busy(t) /\ s[Len(s)] = f /\ f.at = "evict"
           /\ f.v \in Addrs /\ f.n \in Caches /\ Len(s) \in Nat
  BY Begun, Classes DEF EvictInval, At, FrameOK
<1>2. PICK c \in dir[f.n][f.v].sh : SendInval(t, c, "INV", f.v)
  BY <1>1 DEF EvictInval
<1>3. c \in Children(f.n) /\ Valid(st[c][f.v])
  BY <1>1, <1>2, Sharers
<1>4. wb[t] = NoAddr
  BY <1>1, <1>2, Begun DEF WritebackOK
<1>5. IsAccess(f) /\ Holds(s, Len(s))
  BY <1>1, Classes DEF Holds
<1>6. UNCHANGED <<st, dir, tcc, bcc, flock, filt, wb, fresh, aborted>>
  BY DEF EvictInval
<1> QED
  BY <1>1, <1>2, <1>3, <1>4, <1>5, <1>6, CallKeeps

LEMMA DirInvalKeeps ==
  ASSUME IInv, NEW t \in Threads, DirInval(t)
  PROVE  IInv'
<1>1. PICK f \in AccessFrames, s \in Seq(Frames) :
           /\ f = Top(t) /\ s = stack[t] /\ Busy(t) /\ s[Len(s)] = f /\ f.at = "dir"
           /\ f.ty \in Gets /\ f.a \in Addrs /\ f.n \in Caches /\ Len(s) \in Nat
           /\ FrameOK(f) /\ FrameClaim(s, Len(s))
  BY Begun, Classes DEF DirInval, At
<1>2. PICK c \in Conflicts(f) : SendInval(t, c, IF f.ty = "GETX" THEN "INV" ELSE "INVX", f.a)
  BY <1>1 DEF DirInval
<1>3. /\ IsExclusive(dir[f.n][f.a]) <=> dir[f.n][f.a].ex
      /\ \A d \in dir[f.n][f.a].sh :
           /\ d \in Children(f.n) /\ Valid(st[d][f.a])
           /\ dir[f.n][f.a].ex => Excl(st[d][f.a])
  BY <1>1, Sharers
<1>4. /\ c \in Children(f.n) /\ c \in dir[f.n][f.a].sh /\ Valid(st[c][f.a])
      /\ f.ty # "GETX" => dir[f.n][f.a].ex /\ Excl(st[c][f.a])
      /\ f.ty = "GETX" => dir[f.n][f.a].sh # {}
  <2>1. c \in dir[f.n][f.a].sh /\ (f.ty # "GETX" => dir[f.n][f.a].ex)
    BY <1>2, <1>3 DEF Conflicts
  <2> QED
    BY <1>3, <2>1
<1>5. wb[t] = NoAddr
  BY <1>1, <1>4, Begun DEF WritebackOK
<1>6. IsAccess(f) /\ Holds(s, Len(s)) /\ f.ch # Mem
  BY <1>1, Classes DEF Holds, FrameOK
<1>7. ReqOK(f) /\ OwnOK(f)
  BY <1>1, <1>6 DEF FrameClaim
<1>8. IF f.ty = "GETX"
      THEN st[f.n][f.a] = "M" /\ (f.ch \in dir[f.n][f.a].sh => ~IsExclusive(dir[f.n][f.a]))
      ELSE f.ch \notin dir[f.n][f.a].sh
  BY <1>1, <1>3, <1>6, <1>7 DEF ReqOK, OwnOK, Valid, Excl, Gets
<1>9. UNCHANGED <<st, dir, tcc, bcc, flock, filt, wb, fresh, aborted>>
  <2>1. aborted = FALSE
    BY DEF IInv, Types
  <2> QED
    BY <1>1, <1>8, <2>1 DEF DirInval, Check
<1> QED
  BY <1>1, <1>2, <1>4, <1>5, <1>6, <1>9, CallKeeps

LEMMA InvDownKeeps ==
  ASSUME IInv, NEW t \in Threads, InvDown(t)
  PROVE  IInv'
<1>1. PICK f \in InvFrames, s \in Seq(Frames) :
           /\ f = Top(t) /\ s = stack[t] /\ Busy(t) /\ s[Len(s)] = f /\ f.at = "down"
           /\ f.a \in Addrs /\ f.n \in Caches /\ f.ty \in {"INV", "INVX"} /\ Len(s) \in Nat
  BY Begun, Classes, FrameTypes DEF InvDown, InvAt
<1>2. PICK c \in Targets(f) : SendInval(t, c, f.ty, f.a)
  BY <1>1 DEF InvDown
<1>3. /\ c \in Children(f.n) /\ c \in dir[f.n][f.a].sh /\ Valid(st[c][f.a])
      /\ f.ty = "INVX" => dir[f.n][f.a].ex /\ Excl(st[c][f.a])
  <2>1. /\ IsExclusive(dir[f.n][f.a]) <=> dir[f.n][f.a].ex
        /\ \A d \in dir[f.n][f.a].sh :
             /\ d \in Children(f.n) /\ Valid(st[d][f.a])
             /\ dir[f.n][f.a].ex => Excl(st[d][f.a])
    BY <1>1, Sharers
  <2>2. c \in dir[f.n][f.a].sh /\ (f.ty = "INVX" => dir[f.n][f.a].ex)
    BY <1>2, <2>1 DEF Targets
  <2> QED
    BY <2>1, <2>2
<1>4. wb[t] = NoAddr
  BY <1>1, <1>3, Begun DEF WritebackOK
<1>5. ~IsAccess(f) /\ Holds(s, Len(s))
  BY <1>1, Classes DEF Holds
<1>6. UNCHANGED <<st, dir, tcc, bcc, flock, filt, wb, fresh, aborted>>
  BY DEF InvDown
<1> QED
  BY <1>1, <1>2, <1>3, <1>4, <1>5, <1>6, CallKeeps


LEMMA InvLockKeeps ==
  ASSUME IInv, NEW t \in Threads, InvLock(t)
  PROVE  IInv'
<1>0. PICK s \in Seq(Frames), n \in Caches : s = stack[t] /\ n = Top(t).n
  BY Begun DEF InvLock, InvAt
<1>1. /\ Busy(t) /\ ~IsAccess(Top(t)) /\ Top(t).at = "lock" /\ bcc[n] = NoThread
      /\ bcc' = [bcc EXCEPT ![n] = t] /\ Goto(t, "down")
      /\ UNCHANGED <<st, dir, tcc, flock, filt, wb, fresh, aborted>>
  BY <1>0 DEF InvLock, InvAt
<1>2. PICK f \in InvFrames, w \in Seq(Frames) :
           /\ f.n = Top(t).n /\ f.ty = Top(t).ty /\ f.a = Top(t).a /\ f.at = "down"
           /\ Replaced(stack[t], w, f) /\ StackIs(t, w)
  BY <1>1, MovesInv
<1>3. /\ w[Len(s)] = f /\ Len(w) = Len(s)
      /\ \A i \in 1 .. Len(s) - 1 : w[i] = s[i]
  BY <1>0, <1>2 DEF Replaced
<1>4. /\ s # <<>> /\ Len(s) \in Nat /\ Len(s) >= 1 /\ Len(s) \in 1 .. Len(s)
      /\ Top(t) = s[Len(s)] /\ Shape(s) /\ WritebackOK(t)
      /\ FrameOK(Top(t)) /\ FrameClaim(s, Len(s)) /\ f \in Frames /\ ~IsAccess(f)
  BY <1>0, <1>1, <1>2, Begun, Classes DEF Frames
<1>5. SameCall(s[Len(s)], f)
  BY <1>1, <1>2, <1>4 DEF FrameOK, SameCall
<1>6. Shape(w)
  BY <1>0, <1>2, <1>4, <1>5, ShapeOfReplaced
<1>7. Types'
  BY <1>1, <1>2 DEF IInv, Types, StackIs
<1>8. Alone(t)
  BY <1>1, <1>2, Family DEF Alone, StackIs, IInv, Types
<1>9. FrameClaim(w, Len(s))'
  BY <1>1, <1>2, <1>3, <1>4 DEF FrameClaim, InvOK
<1>10. WritebackOK(t)'
  BY <1>1, <1>4 DEF WritebackOK
<1>11. GoesOn(t, w)
  <2>1. bcc'[n] = t /\ bcc[n] # t /\ f.at # "fill" /\ ~Active(w, Len(s))
    BY <1>1, <1>2, <1>3, <1>4, Family DEF IInv, Types, Active
  <2>2. \A m \in Caches \ {n} : bcc[m] = t => bcc'[m] = t
    BY <1>1 DEF IInv, Types
  <2> QED
    BY <1>0, <1>1, <1>2, <1>3, <1>4, <2>1, <2>2 DEF GoesOn
<1>12. \A i \in 1 .. Len(w) : i >= Len(stack[t]) => FrameClaim(w, i)'
  BY <1>0, <1>3, <1>4, <1>9
<1> QED
  BY <1>1, <1>2, <1>6, <1>7, <1>8, <1>10, <1>11, <1>12, QuietStep

LEMMA RaceResult ==
  ASSUME NEW e \in AccessFrames, FrameOK(e), ReqOK(e), e.at = "bcc",
         e.ch # Mem => st[e.ch][e.a] \in States
  PROVE  LET race == AfterRace(e)  now == st[e.ch][e.a] IN
         /\ race \in Gets \cup Puts \cup {"skip"}
         /\ race \in Gets => race = e.ty
         /\ e.ty \in Gets => race = e.ty
         /\ race \in Puts => /\ e.ty \in Puts /\ e.ch # Mem /\ dir[e.ch][e.a].sh = {}
                             /\ IF race = "PUTX" THEN now = "M" ELSE Valid(now)
         /\ race = "skip" => e.ty \in Puts /\ e.ch # Mem /\ now = "I"
<1>1. e.ty \in Gets \cup Puts
  BY FrameTypes
<1>2. CASE e.ch = Mem
  <2>1. e.ty \in Gets /\ e.init = "I"
    BY <1>2, Classes DEF FrameOK
  <2> QED
    BY <1>2, <2>1 DEF AfterRace, ChildState, Gets, Puts
<1>3. CASE e.ch # Mem /\ e.ty \in Gets
  BY <1>3 DEF AfterRace, ChildState, ReqOK, Gets, Puts
<1>4. CASE e.ch # Mem /\ e.ty \in Puts
  <2>1. /\ e.ty \notin Gets /\ dir[e.ch][e.a].sh = {}
        /\ e.init \in IF e.ty = "PUTX" THEN {"M"} ELSE {"S", "E"}
        /\ st[e.ch][e.a] \in {e.init, "S", "I"}
    BY <1>4 DEF ReqOK, Gets, Puts
  <2> QED
    BY <1>4, <2>1 DEF AfterRace, ChildState, Gets, Puts, Valid
<1> QED
  BY <1>1, <1>2, <1>3, <1>4

LEMMA RowNow ==
  ASSUME IInv, NEW n \in Caches
  PROVE  FitsIn(n, st[n]) /\ Keeps(n, st[n]) /\ st = [st EXCEPT ![n] = st[n]]
<1>1. FitsIn(n, st[n])
  BY DEF IInv, Fits, Types, FitsIn, Tagged
<1> QED
  BY <1>1 DEF Keeps, IInv, Types

LEMMA MoveIsFrame ==
  ASSUME IInv, NEW t \in Threads, Busy(t), NEW l, Goto(t, l)
  PROVE  stack' = [stack EXCEPT ![t] = Frame(t, [Top(t) EXCEPT !.at = l])]
<1>1. PICK s \in Seq(Frames) : s = stack[t] /\ Len(s) \in 1 .. Len(s)
  BY Begun
<1>2. MoveTo(s, l) = [s EXCEPT ![Len(s)] = [s[Len(s)] EXCEPT !.at = l]]
  BY <1>1 DEF MoveTo
<1> QED
  BY <1>1, <1>2 DEF Goto, Frame, Top, IInv, Types

LEMMA LookupKeeps ==
  ASSUME IInv, NEW t \in Threads, Lookup(t)
  PROVE  IInv'
<1>0. PICK e \in AccessFrames, n \in Caches, s \in Seq(Frames),
           race \in Gets \cup Puts \cup {"skip", "panic"} :
           /\ e = Top(t) /\ n = e.n /\ s = stack[t] /\ Busy(t) /\ e.at = "bcc" /\ bcc[n] = NoThread
           /\ race = AfterRace(e) /\ s[Len(s)] = e /\ FrameOK(e) /\ FrameClaim(s, Len(s))
           /\ WritebackOK(t)
  <2>1. Busy(t) /\ IsAccess(Top(t)) /\ Top(t).at = "bcc"
    BY DEF Lookup, At
  <2>2. PICK e \in AccessFrames : e = Top(t)
    BY <2>1, Begun, Classes
  <2>3. bcc[e.n] = NoThread
    BY <2>2 DEF Lookup, AccessFrames
  <2>4. \E race \in Gets \cup Puts \cup {"skip", "panic"} : race = AfterRace(e)
    <3>1. e.ty \in Gets \cup Puts
      BY FrameTypes
    <3> QED
      BY <3>1 DEF AfterRace, Gets, Puts
  <2> QED
    BY <2>1, <2>2, <2>3, <2>4, Begun
<1>1. /\ IsAccess(e) /\ AtWork(t) /\ ReqOK(e) /\ wb[t] = NoAddr /\ e.a \in Addrs
      /\ e.ch # Mem => e.ch \in Children(n) /\ e.ch \in Caches
  <2>1. IsAccess(e) /\ ReqOK(e) /\ wb[t] = NoAddr
    BY <1>0, Classes DEF FrameClaim, WritebackOK
  <2>2. AtWork(t)
    BY <1>0, <2>1, Family DEF AtWork
  <2> QED
    BY <1>0, <2>1, <2>2, Working, FrameTypes
<1>2. /\ race \in Gets \cup Puts \cup {"skip"}
      /\ race \in Gets => race = e.ty
      /\ e.ty \in Gets => race = e.ty
      /\ race \in Puts => /\ e.ty \in Puts /\ e.ch # Mem /\ dir[e.ch][e.a].sh = {}
                          /\ IF race = "PUTX" THEN st[e.ch][e.a] = "M" ELSE Valid(st[e.ch][e.a])
      /\ race = "skip" => e.ty \in Puts /\ e.ch # Mem /\ st[e.ch][e.a] = "I"
  <2>1. e.ch # Mem => st[e.ch][e.a] \in States
    BY <1>1 DEF IInv, Types
  <2> QED
    BY <1>0, <1>1, <2>1, RaceResult
<1> DEFINE f == [e EXCEPT !.ty = race]
           keep == UNCHANGED <<st, fresh>> /\ bcc' = [bcc EXCEPT ![n] = t]
<1>3. /\ f.n = n /\ f.ty = race /\ f.a = e.a /\ f.ch = e.ch /\ f.init = e.init /\ f.v = e.v
      /\ f.at = "bcc" /\ (race # "skip" => f \in AccessFrames)
  BY <1>0, <1>2 DEF AccessFrames
<1>4. /\ UNCHANGED <<tcc, flock, filt, wb>>
      /\ \/ /\ race = "panic" \/ (race \in Puts /\ f.a \notin Tagged(n))
         \/ race = "skip" /\ Goto(t, "end") /\ keep /\ UNCHANGED <<dir, aborted>>
         \/ /\ race \in Gets \cup Puts /\ f.a \in Tagged(n)
            /\ Serve(t, f, st[n]) /\ UNCHANGED dir
         \/ /\ race \in Gets /\ f.a \notin Tagged(n)
            /\ \E v \in Victims(n) :
                 IF v = NoAddr THEN Insert(t, f)
                 ELSE /\ stack' = [stack EXCEPT ![t] = Frame(t, [f EXCEPT !.at = "evict", !.v = v])]
                      /\ keep /\ UNCHANGED <<dir, aborted>>
  BY <1>0, <1>3 DEF Lookup
<1>5. ASSUME race # "skip" PROVE SameCall(e, f) /\ Ready(f)
  <2>1. f \in Frames /\ IsAccess(f)
    BY <1>3, <1>5, Classes DEF Frames
  <2>2. FrameOK(f)
    BY <1>0, <1>1, <1>2, <1>3, <1>5, <2>1 DEF FrameOK, Gets, Puts
  <2>3. e.ty = f.ty \/ {e.ty, f.ty} \subseteq Puts
    BY <1>2, <1>3, <1>5
  <2>4. Ready(f)
    BY <1>0, <1>1, <1>2, <1>3, <1>5 DEF Ready, ReqOK, Gets, Puts
  <2> QED
    BY <1>0, <1>1, <1>3, <2>1, <2>2, <2>3, <2>4 DEF SameCall
<1>6. FitsIn(n, st[n]) /\ Keeps(n, st[n]) /\ st = [st EXCEPT ![n] = st[n]] /\ aborted = FALSE
  BY RowNow DEF IInv, Types
<1>7. keep /\ UNCHANGED <<dir, aborted>> => OwnWork(t) /\ st' = [st EXCEPT ![n] = st[n]]
  BY <1>1, <1>4, <1>6 DEF OwnWork, IInv, Types
<1>8. ~(race = "panic" \/ (race \in Puts /\ f.a \notin Tagged(n)))
  <2>1. race # "panic"
    BY <1>2 DEF Gets, Puts
  <2>2. ASSUME race \in Puts PROVE f.a \in Tagged(n)
    <3>1. Valid(st[e.ch][e.a]) /\ e.ch \in Children(n)
      BY <1>1, <1>2, <2>2 DEF Valid
    <3>2. Valid(st[n][e.a])
      BY <1>1, <3>1 DEF IInv, DirOK
    <3> QED
      BY <1>1, <1>3, <3>2 DEF Tagged, Valid
  <2> QED
    BY <2>1, <2>2
<1>9. CASE race = "skip" /\ Goto(t, "end") /\ keep /\ UNCHANGED <<dir, aborted>>
  <2> DEFINE g == [e EXCEPT !.at = "end"]
  <2>1. /\ g \in AccessFrames /\ g.n = n /\ g.ty = e.ty /\ g.a = e.a /\ g.ch = e.ch /\ g.init = e.init
        /\ g.v = e.v /\ g.at = "end"
    BY <1>0, MoveAccess
  <2>2. stack' = [stack EXCEPT ![t] = Frame(t, g)]
    BY <1>0, <1>9, MoveIsFrame
  <2>3. SameCall(e, g) /\ ReqOK(g) /\ OwnOK(g)'
    <3>1. g \in Frames /\ IsAccess(g)
      BY <2>1, Classes DEF Frames
    <3>2. FrameOK(g)
      BY <1>0, <1>1, <1>2, <1>9, <2>1, <3>1 DEF FrameOK
    <3>3. ReqOK(g) /\ OwnOK(g)'
      BY <1>2, <1>9, <2>1 DEF ReqOK, OwnOK, Gets, Puts
    <3> QED
      BY <1>0, <1>1, <2>1, <3>1, <3>2, <3>3 DEF SameCall
  <2> HIDE DEF g
  <2> QED
    BY <1>0, <1>1, <1>6, <1>7, <1>9, <2>1, <2>2, <2>3, StaysKeeps
<1>10. CASE race \in Gets \cup Puts /\ f.a \in Tagged(n) /\ Serve(t, f, st[n]) /\ UNCHANGED dir
  <2>1. race # "skip" /\ st[n][f.a] # "none"
    BY <1>10 DEF Gets, Puts, Tagged
  <2> HIDE DEF f
  <2> QED
    BY <1>0, <1>1, <1>3, <1>4, <1>5, <1>6, <1>10, <2>1, ServeKeeps
<1>11. ASSUME race \in Gets, f.a \notin Tagged(n), NEW v \in Victims(n),
              IF v = NoAddr THEN Insert(t, f)
              ELSE /\ stack' = [stack EXCEPT ![t] = Frame(t, [f EXCEPT !.at = "evict", !.v = v])]
                   /\ keep /\ UNCHANGED <<dir, aborted>>
       PROVE  IInv'
  <2>1. race # "skip" /\ f \in AccessFrames /\ SameCall(e, f) /\ Ready(f)
    BY <1>3, <1>5, <1>11 DEF Gets
  <2>2. CASE v = NoAddr
    <3>1. Cardinality(Tagged(n)) < Lines[n]
      BY <1>11, <2>2, Family DEF Victims, Tagged
    <3>2. f.v = NoAddr
      BY <1>0, <1>1, <1>3 DEF FrameOK
    <3> HIDE DEF f
    <3> QED
      BY <1>0, <1>1, <1>3, <1>4, <1>11, <2>1, <2>2, <3>1, <3>2, InsertKeeps
  <2>3. CASE v # NoAddr
    <3> DEFINE g == [f EXCEPT !.at = "evict", !.v = v]
    <3>1. v \in Tagged(n) /\ v \in Addrs
      BY <1>11, <2>3 DEF Victims, Tagged
    <3>2. /\ g \in AccessFrames /\ g.n = n /\ g.ty = f.ty /\ g.a = f.a /\ g.ch = f.ch
          /\ g.init = f.init /\ g.v = v /\ g.at = "evict"
      BY <1>3, <2>1, <3>1 DEF AccessFrames
    <3>3. SameCall(e, g) /\ ReqOK(g) /\ OwnOK(g)'
      <4>1. g \in Frames /\ IsAccess(g)
        BY <3>2, Classes DEF Frames
      <4>2. FrameOK(g)
        BY <1>3, <1>11, <2>1, <3>1, <3>2, <4>1, Classes DEF FrameOK, SameCall
      <4>3. ReqOK(g) /\ OwnOK(g)'
        BY <1>3, <1>11, <2>1, <3>2 DEF ReqOK, OwnOK, Ready
      <4> QED
        <5>1. n = e.n /\ f.a = e.a /\ f.ch = e.ch /\ f.ty = e.ty /\ IsAccess(e)
          BY <1>0, <1>1, <1>2, <1>3, <1>11
        <5> HIDE DEF f, g
        <5> QED
          BY <3>2, <4>1, <4>2, <4>3, <5>1 DEF SameCall
    <3>4. st[n][g.v] # "none" /\ st[n][g.a] = "none"
      BY <1>1, <1>3, <1>11, <3>1, <3>2 DEF Tagged
    <3>5. stack' = [stack EXCEPT ![t] = Frame(t, g)] /\ keep /\ UNCHANGED <<dir, aborted>>
      BY <1>11, <2>3
    <3> HIDE DEF g, f
    <3> QED
      BY <1>0, <1>1, <1>6, <1>7, <3>2, <3>3, <3>4, <3>5, StaysKeeps
  <2> QED
    BY <2>2, <2>3
<1> QED
  BY <1>4, <1>8, <1>9, <1>10, <1>11

LEMMA EvictWriteKeeps ==
  ASSUME IInv, NEW t \in Threads, EvictWrite(t)
  PROVE  IInv'
<1>0. PICK e \in AccessFrames, n \in Caches, s \in Seq(Frames) :
           /\ e = Top(t) /\ n = e.n /\ s = stack[t] /\ Busy(t) /\ IsAccess(e) /\ e.at = "evict"
           /\ Len(s) \in 1 .. Len(s) /\ Len(s) \in Nat
           /\ s[Len(s)] = e /\ FrameOK(e) /\ FrameClaim(s, Len(s)) /\ WritebackOK(t)
  <2>1. Busy(t) /\ IsAccess(Top(t)) /\ Top(t).at = "evict"
    BY DEF EvictWrite, At
  <2> QED
    BY <2>1, Begun, Classes
<1> DEFINE v == e.v  now == IF wb[t] = NoAddr THEN st[n][v] ELSE "M"
           g == [e EXCEPT !.at = "insert"]
           ty == IF now = "M" THEN "PUTX" ELSE "PUTS"
<1>1. /\ dir[n][v].sh = {} /\ aborted' = ~(wb[t] # NoAddr => Excl(st[n][v]))
      /\ wb' = [wb EXCEPT ![t] = NoAddr] /\ UNCHANGED <<dir, tcc, flock, filt>>
      /\ IF Valid(now) THEN SendUp(t, g, ty, v, now, st[n])
         ELSE stack' = [stack EXCEPT ![t] = Frame(t, g)] /\ UNCHANGED <<st, bcc, fresh>>
  BY <1>0 DEF EvictWrite, Check
<1>2. /\ v \in Addrs /\ e.a \in Addrs /\ e.ty \in Gets /\ ReqOK(e)
      /\ st[n][v] # "none" /\ st[n][e.a] = "none" /\ Holds(s, Len(s)) /\ bcc[n] = t
  <2>1. v \in Addrs /\ e.a \in Addrs /\ e.ty \in Gets /\ ReqOK(e) /\ VictimOK(e)
    BY <1>0, FrameTypes DEF FrameOK, FrameClaim
  <2>2. Holds(s, Len(s))
    BY <1>0 DEF Holds
  <2>3. bcc[n] = t
    BY <1>0, <2>2, Begun DEF Locked
  <2> QED
    BY <1>0, <2>1, <2>2, <2>3 DEF VictimOK, Tagged
<1>3. AtWork(t)
  BY <1>0, <1>2 DEF AtWork
<1>4. wb[t] # NoAddr => Excl(st[n][v])
  BY <1>0 DEF WritebackOK
<1>5. /\ now \in States \ {"none"} /\ st[n] \in [Addrs -> States]
      /\ Valid(now) <=> Valid(st[n][v])
      /\ Excl(now) <=> Excl(st[n][v])
  BY <1>2, <1>4 DEF IInv, Types, States, Valid, Excl
<1>6. /\ aborted' = FALSE /\ wb' \in [Threads -> Addrs \cup {NoAddr}] /\ wb'[t] = NoAddr
      /\ \A u \in Threads \ {t} : wb'[u] = wb[u]
  BY <1>1, <1>4 DEF IInv, Types
<1>7. /\ g \in AccessFrames /\ g.n = n /\ g.ty = e.ty /\ g.a = e.a /\ g.ch = e.ch /\ g.init = e.init
      /\ g.v = v /\ g.at = "insert"
  BY <1>0, MoveAccess
<1>8. SameCall(e, g) /\ ReqOK(g)
  <2>1. g \in Frames /\ IsAccess(g)
    BY <1>7, Classes DEF Frames
  <2>2. FrameOK(g)
    BY <1>0, <1>2, <1>7, <2>1 DEF FrameOK
  <2>3. ReqOK(g)
    BY <1>0, <1>2, <1>7 DEF ReqOK
  <2> QED
    BY <1>0, <1>7, <2>1, <2>2, <2>3 DEF SameCall
<1>9. FitsIn(n, st[n]) /\ Keeps(n, st[n]) /\ st = [st EXCEPT ![n] = st[n]]
  BY RowNow
<1>10. CASE Valid(now)
  <2>1. SendUp(t, g, ty, v, now, st[n])
    BY <1>1, <1>10
  <2>2. Keeps(n, [st[n] EXCEPT ![v] = now])
    BY <1>1, <1>2, <1>5, <1>9, KeepsChange
  <2>3. /\ ty \in Gets \cup Puts /\ ty \notin Gets
        /\ now \in IF ty = "PUTX" THEN {"M"} ELSE {"S", "E"}
    BY <1>10 DEF Gets, Puts, Valid
  <2>4. g.v = v /\ g.a # v /\ st[n][g.v] # "none" /\ st[n][g.a] = "none"
    BY <1>2, <1>7
  <2>5. g.at \in {"insert", "dir", "end"} /\ g.at = "insert"
    BY <1>7
  <2> HIDE DEF g, ty, now, v
  <2> QED
    BY <1>0, <1>1, <1>2, <1>3, <1>5, <1>6, <1>7, <1>8, <1>9, <2>1, <2>2, <2>3, <2>4, <2>5, SendUpKeeps
<1>11. CASE ~Valid(now)
  <2>1. stack' = [stack EXCEPT ![t] = Frame(t, g)] /\ UNCHANGED <<st, bcc, fresh>>
    BY <1>1, <1>11
  <2>2. st[n][v] = "I"
    BY <1>2, <1>5, <1>11 DEF Valid, States
  <2>3. OwnWork(t)
    BY <1>1, <1>6, <2>1 DEF OwnWork, IInv, Types
  <2>4. bcc' = [bcc EXCEPT ![n] = t]
    BY <1>2, <2>1 DEF IInv, Types
  <2>5. OwnOK(g)'
    BY <1>7, <2>1, <2>2 DEF OwnOK
  <2>6. st' = [st EXCEPT ![n] = st[n]]
    BY <1>9, <2>1
  <2>7. g.at \in {"evict", "insert", "dir", "end"} /\ st[n][g.v] # "none" /\ st[n][g.a] = "none"
    BY <1>2, <1>7
  <2> HIDE DEF g, v
  <2> QED
    BY <1>0, <1>3, <1>7, <1>8, <1>9, <2>1, <2>3, <2>4, <2>5, <2>6, <2>7, StaysKeeps
<1> QED
  BY <1>10, <1>11

LEMMA RefillKeeps ==
  ASSUME IInv, NEW t \in Threads, Refill(t)
  PROVE  IInv'
<1>0. PICK e \in AccessFrames, n \in Caches, s \in Seq(Frames) :
           /\ e = Top(t) /\ n = e.n /\ s = stack[t] /\ Busy(t) /\ IsAccess(e) /\ e.at = "insert"
           /\ Len(s) \in 1 .. Len(s) /\ Len(s) \in Nat
           /\ s[Len(s)] = e /\ FrameOK(e) /\ FrameClaim(s, Len(s)) /\ WritebackOK(t)
  <2>1. Busy(t) /\ IsAccess(Top(t)) /\ Top(t).at = "insert"
    BY DEF Refill, At
  <2> QED
    BY <2>1, Begun, Classes
<1>1. /\ Holds(s, Len(s)) /\ wb[t] = NoAddr /\ e.v \in Addrs /\ e.ty \in Gets
      /\ ReqOK(e) /\ VictimOK(e) /\ OwnOK(e)
  <2>1. Holds(s, Len(s))
    BY <1>0 DEF Holds
  <2> QED
    BY <1>0, <2>1 DEF FrameClaim, FrameOK, WritebackOK
<1>2. st[n][e.v] = "I" /\ e.a \notin Tagged(n) /\ Ready(e)
  BY <1>0, <1>1 DEF VictimOK, OwnOK, Ready
<1>3. AtWork(t)
  <2>1. bcc[n] = t
    BY <1>0, <1>1, Begun DEF Locked
  <2> QED
    BY <1>0, <1>1, <2>1 DEF AtWork
<1>4. SameCall(e, e)
  BY <1>0 DEF SameCall, Frames
<1>5. Insert(t, e) /\ UNCHANGED <<tcc, flock, filt, wb>>
  BY <1>0, <1>2 DEF Refill
<1>6. e.at \in {"bcc", "insert"}
  BY <1>0
<1> QED
  BY <1>0, <1>1, <1>2, <1>3, <1>4, <1>5, <1>6, InsertKeeps
(* What DirPut and DirGrant find.                                          *)
LEMMA Serving ==
  ASSUME IInv, NEW t \in Threads, At(t, "dir")
  PROVE  \E e \in AccessFrames : \E n \in Caches : \E ch \in Children(n) :
           /\ e = Top(t) /\ n = e.n /\ ch = e.ch /\ e.at = "dir" /\ Busy(t) /\ e.ch # Mem
           /\ e.a \in Addrs /\ e.ty \in Gets \cup Puts /\ ReqOK(e) /\ OwnOK(e) /\ WritebackOK(t)
           /\ ch \in Caches /\ st[ch][e.a] \in States /\ st[n][e.a] \in States
           /\ dir[n][e.a] \in Entries /\ aborted = FALSE
<1>1. PICK e \in AccessFrames, s \in Seq(Frames) :
           /\ e = Top(t) /\ s = stack[t] /\ Busy(t) /\ IsAccess(e) /\ e.at = "dir"
           /\ s # <<>> /\ Len(s) \in 1 .. Len(s) /\ Len(s) \in Nat
           /\ s[Len(s)] = e /\ FrameOK(e) /\ FrameClaim(s, Len(s)) /\ WritebackOK(t)
           /\ Shape(s) /\ s[1].n \in Leaves /\ e.n \in Caches /\ e.a \in Addrs
  <2>1. Busy(t) /\ IsAccess(Top(t)) /\ Top(t).at = "dir"
    BY DEF At
  <2> QED
    BY <2>1, Begun, Classes
<1>2. e.n \notin Leaves /\ e.ch # Mem /\ Len(s) > 1
  BY <1>1 DEF FrameOK
<1>3. e.ch \in Caches \ {Root} /\ e.n = Parent[e.ch] /\ e.ch \in Children(e.n)
  BY <1>1, <1>2, Callers, Family
<1>4. ReqOK(e) /\ OwnOK(e)
  BY <1>1 DEF FrameClaim, Holds
<1>5. /\ st[e.ch][e.a] \in States /\ st[e.n][e.a] \in States /\ dir[e.n][e.a] \in Entries
      /\ aborted = FALSE
  BY <1>1, <1>3 DEF IInv, Types
<1> QED
  BY <1>1, <1>2, <1>3, <1>4, <1>5, FrameTypes


LEMMA FreshAfterType ==
  ASSUME Types, NEW f \in AccessFrames, NEW up
  PROVE  FreshAfter(f, up) \in SUBSET (Caches \cup {Mem})
BY FrameTypes DEF Types, FreshAfter

LEMMA DirPutKeeps ==
  ASSUME IInv, NEW t \in Threads, DirPut(t)
  PROVE  IInv'
<1>0. At(t, "dir") /\ Types /\ DirOK
  BY DEF DirPut, IInv
<1>1. PICK e \in AccessFrames, n \in Caches, ch \in Caches, a \in Addrs :
           /\ e = Top(t) /\ n = e.n /\ ch = e.ch /\ e.at = "dir" /\ Busy(t) /\ e.ch # Mem
           /\ a = e.a /\ e.ty \in Gets \cup Puts /\ ReqOK(e) /\ OwnOK(e) /\ WritebackOK(t)
           /\ ch \in Children(n) /\ st[ch][a] \in States /\ st[n][a] \in States
           /\ dir[n][a] \in Entries /\ aborted = FALSE
  BY <1>0, Serving
<1>2. /\ e.ty \in Puts
      /\ aborted' = ~(ch \in dir[n][a].sh /\ (e.ty = "PUTX" => IsExclusive(dir[n][a])))
      /\ dir' = [dir EXCEPT ![n][a] = Without(@, ch)]
      /\ st' = [st EXCEPT ![ch][a] = "I"]
      /\ fresh' = [fresh EXCEPT ![a] = FreshAfter(e, FALSE)]
      /\ Goto(t, "end")
      /\ UNCHANGED <<tcc, bcc, flock, filt, wb>>
  BY <1>1 DEF DirPut, Check
<1> DEFINE d == Without(dir[n][a], ch)  y == st[n][a]
<1>3. /\ dir[ch][a].sh = {} /\ Valid(st[ch][a]) /\ (e.ty = "PUTX" => Excl(st[ch][a]))
      /\ e.ty \notin Gets
  BY <1>1, <1>2 DEF ReqOK, Gets, Puts, Valid, Excl
<1>4. /\ dir[n][a].sh = {c \in Children(n) : Valid(st[c][a])}
      /\ dir[n][a].ex <=> \E c \in Children(n) : Excl(st[c][a])
      /\ \A c \in Children(n) :
           /\ Valid(st[c][a]) => Valid(st[n][a])
           /\ Excl(st[c][a]) => Excl(st[n][a]) /\ dir[n][a].sh = {c}
  BY <1>0 DEF DirOK
<1>5. ch \in dir[n][a].sh /\ (e.ty = "PUTX" => IsExclusive(dir[n][a]))
  BY <1>1, <1>3, <1>4, Sharers
<1>6. \A c \in Children(n) \ {ch} : ~Excl(st[c][a])
  BY <1>4, <1>5
<1>7. ~dir[ch][a].ex
  <2>1. ch \in Caches
    BY <1>1
  <2>2. dir[ch][a].ex => \E c \in Children(ch) : dir[ch][a].sh = {c}
    BY <1>0, <2>1, Exclusive
  <2> QED
    BY <1>3, <2>2
<1>8. d \in Entries /\ d.sh = dir[n][a].sh \ {ch} /\ ~d.ex
  <2>1. d.sh = dir[n][a].sh \ {ch} /\ (d.ex <=> dir[n][a].ex /\ dir[n][a].sh # {ch})
    BY DEF Without
  <2>2. dir[n][a].ex => dir[n][a].sh = {ch}
    BY <1>4, <1>5
  <2>3. d \in Entries
    BY <1>1 DEF Without, Entries
  <2> QED
    BY <2>1, <2>2, <2>3
<1>9. st' = [st EXCEPT ![ch][a] = "I", ![n][a] = y]
  <2>1. ch # n /\ st \in [Caches -> [Addrs -> States]]
    BY <1>0, <1>1, Family DEF Types
  <2> QED
    BY <1>1, <1>2, <2>1
<1>10. ServedDir(n, ch, a, "I", y, d)
  <2>1. dir' = [dir EXCEPT ![n][a] = d]
    BY <1>0, <1>2 DEF Types
  <2>2. Valid(y)
    BY <1>1, <1>3, <1>4
  <2>3. ~Valid("I") /\ ~Excl("I") /\ st[ch][a] # "none"
    BY <1>3 DEF Valid, Excl
  <2> HIDE DEF d
  <2> QED
    BY <1>3, <1>6, <1>7, <1>8, <1>9, <2>1, <2>2, <2>3 DEF ServedDir
<1>11. aborted' = FALSE /\ wb[t] = NoAddr
  BY <1>1, <1>2, <1>3, <1>5 DEF WritebackOK, Gets
<1>12. /\ fresh' \in [Addrs -> SUBSET (Caches \cup {Mem})]
       /\ wb' \in [Threads -> Addrs \cup {NoAddr}] /\ wb'[t] = NoAddr
       /\ \A u \in Threads \ {t} : wb'[u] = wb[u]
  BY <1>0, <1>1, <1>2, <1>11, FreshAfterType DEF Types
<1>13. "I" \in States \ {"none"} /\ y \in States
  BY <1>1 DEF States
<1> HIDE DEF d, y
<1> QED
  BY <1>1, <1>2, <1>3, <1>8, <1>10, <1>11, <1>12, <1>13, ServedKeeps

LEMMA DirGrantKeeps ==
  ASSUME IInv, NEW t \in Threads, DirGrant(t)
  PROVE  IInv'
<1>0. At(t, "dir") /\ Types /\ DirOK
  BY DEF DirGrant, IInv
<1>1. PICK e \in AccessFrames, n \in Caches, ch \in Caches, a \in Addrs :
           /\ e = Top(t) /\ n = e.n /\ ch = e.ch /\ e.at = "dir" /\ Busy(t) /\ e.ch # Mem
           /\ a = e.a /\ e.ty \in Gets \cup Puts /\ ReqOK(e) /\ OwnOK(e) /\ WritebackOK(t)
           /\ ch \in Children(n) /\ st[ch][a] \in States /\ st[n][a] \in States
           /\ dir[n][a] \in Entries /\ aborted = FALSE
  BY <1>0, Serving
<1> DEFINE en == dir[n][a]  s == st[n][a]
           alone == e.ty = "GETX" \/ (en.sh = {} /\ Excl(s) /\ t \notin NoExcl)
           d == [sh |-> en.sh \cup {ch}, ex |-> alone]
           x == IF e.ty = "GETX" THEN "M" ELSE IF alone THEN "E" ELSE "S"
           y == IF wb[t] # NoAddr THEN "M" ELSE s
<1>2. /\ e.ty \in Gets /\ Conflicts(e) = {}
      /\ aborted' = ~(/\ IF e.ty = "GETX" THEN s = "M" /\ (ch \in en.sh => ~IsExclusive(en))
                         ELSE Valid(s) /\ ch \notin en.sh
                      /\ wb[t] # NoAddr => Excl(s))
      /\ dir' = [dir EXCEPT ![n][a] = [sh |-> @.sh \cup {ch}, ex |-> alone]]
      /\ st' = [st EXCEPT ![ch][a] = x, ![n][a] = IF wb[t] # NoAddr THEN "M" ELSE @]
      /\ fresh' = [fresh EXCEPT ![a] = FreshAfter(e, ch \in en.sh)]
      /\ wb' = [wb EXCEPT ![t] = NoAddr]
      /\ Goto(t, "end")
      /\ UNCHANGED <<tcc, bcc, flock, filt>>
  <2>1. /\ e.ty \in Gets /\ Conflicts(e) = {} /\ wb' = [wb EXCEPT ![t] = NoAddr] /\ Goto(t, "end")
        /\ UNCHANGED <<tcc, bcc, flock, filt>>
    BY <1>1 DEF DirGrant
  <2>2. aborted' = ~(/\ IF e.ty = "GETX" THEN s = "M" /\ (ch \in en.sh => ~IsExclusive(en))
                        ELSE Valid(s) /\ ch \notin en.sh
                     /\ wb[t] # NoAddr => Excl(s))
    <3>1. Check(/\ IF e.ty = "GETX"
                   THEN st[e.n][e.a] = "M" /\ (e.ch \in dir[e.n][e.a].sh => ~IsExclusive(dir[e.n][e.a]))
                   ELSE Valid(st[e.n][e.a]) /\ e.ch \notin dir[e.n][e.a].sh
                /\ wb[t] # NoAddr => Excl(st[e.n][e.a]))
      BY <1>1, Zenon DEF DirGrant
    <3> QED
      BY <1>1, <3>1 DEF Check
  <2>3. dir' = [dir EXCEPT ![n][a] = [sh |-> @.sh \cup {ch}, ex |-> alone]]
    BY <1>1, Zenon DEF DirGrant
  <2>4. st' = [st EXCEPT ![ch][a] = x, ![n][a] = IF wb[t] # NoAddr THEN "M" ELSE @]
    BY <1>1, Zenon DEF DirGrant
  <2>5. fresh' = [fresh EXCEPT ![a] = FreshAfter(e, ch \in en.sh)]
    BY <1>1, Zenon DEF DirGrant
  <2> QED
    BY <2>1, <2>2, <2>3, <2>4, <2>5
<1>3. /\ en.sh = {c \in Children(n) : Valid(st[c][a])}
      /\ en.ex <=> \E c \in Children(n) : Excl(st[c][a])
      /\ \A c \in Children(n) :
           /\ Valid(st[c][a]) => Valid(st[n][a])
           /\ Excl(st[c][a]) => Excl(st[n][a]) /\ en.sh = {c}
      /\ IsExclusive(en) <=> en.ex
  BY <1>0, Sharers DEF DirOK
<1>4. /\ IF e.ty = "GETX" THEN s = "M" ELSE Valid(s)
      /\ e.ty # "GETX" => st[ch][a] = "I"
      /\ st[ch][a] \in {"I", "S"}
      /\ wb[t] # NoAddr => Excl(s)
  <2>1. IF e.ty = "GETX" THEN s = "M" ELSE Valid(s)
    BY <1>1, <1>2 DEF OwnOK
  <2>2. st[ch][a] \in {"I", "S"} /\ (e.ty # "GETX" => st[ch][a] = "I")
    BY <1>1, <1>2 DEF ReqOK, Gets
  <2>3. wb[t] # NoAddr => Excl(s)
    BY <1>1 DEF WritebackOK
  <2> QED
    BY <2>1, <2>2, <2>3
<1>5. /\ ~Excl(st[ch][a]) /\ st[ch][a] # "none"
      /\ e.ty # "GETX" => ch \notin en.sh
  BY <1>3, <1>4 DEF Valid, Excl
<1>6. aborted' = FALSE
  <2>1. ch \in en.sh => ~en.ex
    BY <1>3, <1>5
  <2> QED
    BY <1>2, <1>3, <1>4, <1>5, <2>1
<1>7. /\ e.ty = "GETX" => en.sh \subseteq {ch}
      /\ e.ty # "GETX" => ~en.ex
  <2>1. e.ty = "GETX" => en.sh \subseteq {ch}
    BY <1>1, <1>2 DEF Conflicts
  <2>2. IsExclusive(en) => en.sh # {}
    BY <1>3
  <2>3. e.ty # "GETX" => ~IsExclusive(en)
    BY <1>1, <1>2, <2>2 DEF Conflicts
  <2> QED
    BY <1>3, <2>1, <2>3
<1>8. /\ x \in States \ {"none"} /\ y \in States /\ Valid(x) /\ (e.ty = "GETX" => x = "M" /\ y = "M")
      /\ Excl(x) <=> alone
      /\ Valid(y) /\ Valid(s) /\ (Excl(y) <=> Excl(s))
  BY <1>1, <1>4 DEF States, Valid, Excl
<1>9. d \in Entries /\ d.sh = en.sh \cup {ch} /\ (d.ex <=> Excl(x))
  <2>1. alone \in BOOLEAN /\ ch \in Caches \ {Root}
    BY <1>1, Family
  <2>2. d.sh = en.sh \cup {ch} /\ d.ex = alone
    OBVIOUS
  <2>3. d \in Entries
    BY <1>1, <2>1 DEF Entries
  <2> QED
    BY <1>8, <2>2, <2>3
<1>10. Excl(x) => Excl(y) /\ d.sh = {ch}
  <2>1. alone => Excl(s) /\ en.sh \subseteq {ch}
    BY <1>4, <1>7 DEF Excl
  <2> QED
    BY <1>8, <1>9, <2>1
<1>11. ~dir[ch][a].ex
  <2>1. \A c \in Children(ch) : ~Excl(st[c][a])
    BY <1>0, <1>1, <1>5 DEF DirOK
  <2> QED
    BY <1>0, <1>1, <2>1 DEF DirOK
<1>12. ~Excl(x) => \A c \in Children(n) \ {ch} : ~Excl(st[c][a])
  <2>1. ~Excl(x) => ~en.ex
    BY <1>7, <1>8
  <2> QED
    BY <1>3, <2>1
<1>13. ServedDir(n, ch, a, x, y, d)
  <2>1. dir' = [dir EXCEPT ![n][a] = d]
    BY <1>0, <1>2 DEF Types
  <2>2. st' = [st EXCEPT ![ch][a] = x, ![n][a] = y]
    <3>1. ch # n /\ st \in [Caches -> [Addrs -> States]]
      BY <1>0, <1>1, Family DEF Types
    <3> QED
      BY <1>2, <3>1
  <2> HIDE DEF d, x, y, alone
  <2> QED
    BY <1>5, <1>8, <1>9, <1>10, <1>11, <1>12, <2>1, <2>2 DEF ServedDir
<1>14. /\ fresh' \in [Addrs -> SUBSET (Caches \cup {Mem})]
       /\ wb' \in [Threads -> Addrs \cup {NoAddr}] /\ wb'[t] = NoAddr
       /\ \A u \in Threads \ {t} : wb'[u] = wb[u]
  <2>1. wb \in [Threads -> Addrs \cup {NoAddr}] /\ fresh \in [Addrs -> SUBSET (Caches \cup {Mem})]
    BY <1>0 DEF Types
  <2>2. FreshAfter(e, ch \in en.sh) \in SUBSET (Caches \cup {Mem})
    BY <1>0, <1>1, FreshAfterType
  <2>3. fresh' \in [Addrs -> SUBSET (Caches \cup {Mem})]
    BY <1>2, <2>1, <2>2
  <2>4. /\ wb' \in [Threads -> Addrs \cup {NoAddr}] /\ wb'[t] = NoAddr
        /\ \A u \in Threads \ {t} : wb'[u] = wb[u]
    BY <1>2, <2>1
  <2> QED
    BY <2>3, <2>4
<1> HIDE DEF d, x, y, alone
<1> QED
  BY <1>1, <1>2, <1>6, <1>8, <1>9, <1>13, <1>14, ServedKeeps
LEMMA ContextSwitchKeeps ==
  ASSUME IInv, NEW t \in Threads, ContextSwitch(t)
  PROVE  IInv'
<1>1. /\ filt' = [filt EXCEPT ![t] = NoFilter]
      /\ UNCHANGED <<st, dir, tcc, bcc, flock, stack, wb, fresh, aborted>>
  BY DEF ContextSwitch
<1>2. Types'
  BY <1>1 DEF IInv, Types, Threads, FilterEntries, NoFilter
<1>3. Alone(t)
  BY <1>1 DEF Alone
<1>4. ThreadOK(t)'
  <2>1. /\ \A n \in Caches : SameTags(n) /\ FewerSharers(n) /\ SameRights(n)
        /\ \A i \in 1 .. Len(stack[t]) : stack[t][i].n \in Caches
    BY <1>1, ElementOfSeq, Classes, FrameTypes DEF SameTags, FewerSharers, SameRights, IInv, Types
  <2>2. Types /\ ThreadOK(t)
    BY DEF IInv
  <2> QED
    BY <1>1, <1>2, <2>1, <2>2, Undisturbed
<1>5. FilterOK'
  <2>1. /\ filt'[t] = NoFilter
        /\ \A n \in Leaves \ {t} : filt'[n] = filt[n]
    BY <1>1 DEF IInv, Types, Threads
  <2>2. FilterOK
    BY DEF IInv
  <2> QED
    BY <1>1, <2>1, <2>2 DEF FilterOK, Busy, NoFilter
<1>6. UNCHANGED <<st, dir>> /\ ~aborted'
  BY <1>1 DEF IInv
<1> QED
  BY <1>2, <1>3, <1>4, <1>5, <1>6, Quiet

LEMMA IssueKeeps ==
  ASSUME IInv, NEW t \in Threads, NEW ty \in Gets, NEW a \in Addrs, Issue(t, ty, a)
  PROVE  IInv'
<1> DEFINE r == Request(t, ty, a, Mem, "I")  w == <<r>>
<1>1. /\ ~Busy(t) /\ stack' = [stack EXCEPT ![t] = w]
      /\ UNCHANGED <<st, dir, tcc, bcc, flock, filt, wb, fresh, aborted>>
  BY DEF Issue
<1>2. /\ r \in AccessFrames /\ r.n = t /\ r.ty = ty /\ r.ch = Mem /\ r.init = "I" /\ r.v = NoAddr
      /\ r.at = "bcc" /\ t \in Leaves /\ t \in Caches
  BY Family DEF Request, AccessFrames, Threads, States
<1>3. r \in Frames /\ IsAccess(r) /\ FrameOK(r)
  BY <1>2, Classes DEF Frames, FrameOK
<1> HIDE DEF r
<1>4. w \in Seq(Frames) /\ Len(w) = 1 /\ w[1] = r
  BY <1>3
<1> HIDE DEF w
<1>5. StackIs(t, w)
  BY <1>1, <1>4, StackChanges DEF IInv
<1>6. Types'
  BY <1>1, <1>5 DEF IInv, Types, StackIs
<1>7. Alone(t)
  BY <1>1, <1>5 DEF Alone, StackIs
<1>8. wb'[t] = NoAddr
  BY <1>1 DEF IInv, ThreadOK, WritebackOK
<1>9. ThreadOK(t)' /\ Busy(t)'
  <2>1. FrameClaim(w, 1)' /\ ~Holds(w, 1)
    BY <1>2, <1>3, <1>4 DEF FrameClaim, ReqOK, VictimOK, Holds
  <2> QED
    BY <1>2, <1>3, <1>4, <1>5, <1>6, <1>8, <2>1, OneFrame DEF StackIs
<1>10. FilterOK'
  <2>1. \A n \in Leaves : Busy(n) => Busy(n)'
    BY <1>1, <1>5 DEF StackIs, Busy, Threads
  <2> QED
    BY <1>1, <2>1, FiltersStay DEF IInv
<1>11. UNCHANGED <<st, dir>> /\ ~aborted'
  BY <1>1 DEF IInv
<1> QED
  BY <1>6, <1>7, <1>9, <1>10, <1>11, Quiet


(* A leaf's own access that ends or has ended is the only frame.           *)
LEMMA OwnAccess ==
  ASSUME IInv, NEW t \in Threads, Busy(t), IsAccess(Top(t)), Top(t).n \in Leaves,
         Top(t).at # "tcc"
  PROVE  /\ Top(t).n = t /\ Len(stack[t]) = 1 /\ Top(t) = stack[t][1]
         /\ Top(t) \in AccessFrames /\ FrameOK(Top(t)) /\ ReqOK(Top(t)) /\ VictimOK(Top(t))
<1>1. Active(stack[t], Len(stack[t]))
  BY Begun DEF Active
<1>2. Top(t).n = t /\ Len(stack[t]) = 1
  BY <1>1, OwnCache
<1> QED
  BY <1>2, Begun, Classes DEF FrameClaim

LEMMA FillKeeps ==
  ASSUME IInv, NEW t \in Threads, Fill(t)
  PROVE  IInv'
<1>1. /\ aborted = FALSE /\ Busy(t) /\ IsAccess(Top(t)) /\ Top(t).at = "fill"
      /\ stack' = [stack EXCEPT ![t] = Pop(@)]
      /\ UNCHANGED <<st, dir, tcc, bcc, wb, aborted>>
  BY DEF Fill, At, IInv
<1>2. /\ FrameOK(Top(t)) /\ Top(t).n \in Leaves
  BY <1>1, Begun DEF FrameOK
<1>3. /\ Top(t).n = t /\ Len(stack[t]) = 1 /\ Top(t) \in AccessFrames /\ Top(t) = stack[t][1]
  BY <1>1, <1>2, OwnAccess
<1>4. PICK f \in AccessFrames : f = Top(t)
  BY <1>3
<1>5. f.n = t /\ f.a \in Addrs /\ t \in Leaves /\ t \in Caches /\ f.at = "fill" /\ f.ty \in Gets
  BY <1>1, <1>2, <1>3, <1>4, FrameTypes, Family DEF FrameOK
<1>6. PICK w \in Seq(Frames) : Popped(stack[t], w) /\ StackIs(t, w)
  BY <1>1, Returns
<1>7. w = <<>> /\ stack'[t] = <<>> /\ Len(w) = 0 /\ ~Busy(t)'
  <2>1. Len(w) = 0 /\ stack'[t] = w
    BY <1>3, <1>6 DEF Popped, StackIs
  <2> QED
    BY <2>1, EmptySeq DEF Busy
<1>8. /\ flock[t] = t
      /\ IF f.ty = "GETX" THEN st[t][f.a] = "M" ELSE Valid(st[t][f.a])
  <2>1. FrameClaim(stack[t], Len(stack[t])) /\ Locked(t) /\ 1 \in 1 .. Len(stack[t])
    BY <1>1, <1>3, Begun
  <2>2. OwnOK(f)
    BY <1>1, <1>3, <1>4, <2>1 DEF FrameClaim
  <2> QED
    BY <1>3, <1>4, <1>5, <2>1, <2>2 DEF OwnOK, Locked
<1>9. /\ flock' = [flock EXCEPT ![t] = NoThread]
      /\ fresh' = [fresh EXCEPT ![f.a] = IF f.ty = "GETX" THEN {t} ELSE @]
      /\ filt' = [filt EXCEPT ![t] = [rd |-> f.a, wr |-> IF f.ty = "GETX" THEN f.a ELSE NoAddr, left |-> FALSE]]
  BY <1>4 DEF Fill
<1>10. Types'
  <2>1. /\ flock' \in [Leaves -> Threads \cup {NoThread}]
        /\ filt' \in [Leaves -> FilterEntries]
        /\ fresh' \in [Addrs -> SUBSET (Caches \cup {Mem})]
    BY <1>5, <1>9 DEF IInv, Types, FilterEntries
  <2> QED
    BY <1>1, <1>6, <2>1 DEF IInv, Types, StackIs
<1>11. Alone(t)
  BY <1>1, <1>5, <1>6, <1>8, <1>9 DEF Alone, StackIs, IInv, Types
<1>12. ThreadOK(t)'
  <2>1. \A i : i \notin 1 .. Len(w)
    BY <1>7
  <2>2. Shape(stack[t])' /\ Once(stack[t])' /\ FramesOK(stack[t])' /\ Locked(t)' /\ Rooted(t)'
    BY <1>7, <2>1 DEF Shape, Once, FramesOK, Locked, Rooted
  <2>3. WritebackOK(t)
    BY <1>1, Begun
  <2>4. wb[t] = NoAddr
    BY <1>1, <2>3 DEF WritebackOK
  <2>5. WritebackOK(t)'
    BY <1>1, <2>4 DEF WritebackOK
  <2> QED
    BY <2>2, <2>5 DEF ThreadOK
<1>13. FilterOK'
  <2>1. ASSUME NEW n \in Leaves
        PROVE  /\ filt'[n].wr \in {NoAddr, filt'[n].rd}
               /\ ~Busy(n)' /\ ~filt'[n].left =>
                    /\ filt'[n].rd # NoAddr => Valid(st'[n][filt'[n].rd])
                    /\ filt'[n].wr # NoAddr => st'[n][filt'[n].wr] = "M"
    <3>1. CASE n = t
      <4>1. filt'[n] = [rd |-> f.a, wr |-> IF f.ty = "GETX" THEN f.a ELSE NoAddr, left |-> FALSE]
        BY <1>5, <1>9, <3>1 DEF IInv, Types
      <4> QED
        BY <1>1, <1>5, <1>8, <3>1, <4>1 DEF Valid
    <3>2. CASE n # t
      <4>1. filt'[n] = filt[n] /\ stack'[n] = stack[n] /\ st'[n] = st[n]
        BY <1>1, <1>6, <1>9, <3>2 DEF IInv, Types, StackIs, Threads
      <4> QED
        BY <4>1 DEF IInv, FilterOK, Busy
    <3> QED
      BY <3>1, <3>2
  <2> QED
    BY <2>1 DEF FilterOK
<1> QED
  BY <1>1, <1>10, <1>11, <1>12, <1>13, Quiet

LEMMA EndLeafKeeps ==
  ASSUME IInv, NEW t \in Threads, End(t), Top(t).ch = Mem
  PROVE  IInv'
<1>1. /\ aborted = FALSE /\ Busy(t) /\ IsAccess(Top(t)) /\ Top(t).at = "end"
      /\ Goto(t, "fill") /\ UNCHANGED <<st, dir, tcc, filt, wb, fresh>>
  BY DEF End, At, IInv
<1>2. Top(t).n \in Leaves
  BY <1>1, Begun DEF FrameOK
<1>3. /\ Top(t).n = t /\ Len(stack[t]) = 1 /\ Top(t) \in AccessFrames /\ Top(t) = stack[t][1]
      /\ FrameOK(Top(t)) /\ t \in Leaves /\ t \in Caches
  BY <1>1, <1>2, OwnAccess, Family
<1>4. /\ flock[t] = NoThread /\ flock' = [flock EXCEPT ![t] = t]
      /\ bcc' = [bcc EXCEPT ![t] = NoThread]
      /\ Check(IF Top(t).ty = "GETX" THEN st[t][Top(t).a] = "M" ELSE Valid(st[t][Top(t).a]))
  BY <1>3 DEF End
<1>5. PICK f \in AccessFrames, w \in Seq(Frames) :
           /\ f = [Top(t) EXCEPT !.at = "fill"]
           /\ f.n = Top(t).n /\ f.ty = Top(t).ty /\ f.a = Top(t).a /\ f.ch = Top(t).ch
           /\ f.init = Top(t).init /\ f.v = Top(t).v /\ f.at = "fill"
           /\ Replaced(stack[t], w, f) /\ StackIs(t, w)
  BY <1>1, Moves
<1>6. Len(w) = 1 /\ w[1] = f /\ stack'[t] = w /\ IsAccess(f)
  BY <1>3, <1>5, Classes DEF Replaced, StackIs
<1>7. IF f.ty = "GETX" THEN st[t][f.a] = "M" ELSE Valid(st[t][f.a])
  <2>1. FrameClaim(stack[t], Len(stack[t]))
    BY <1>1, Begun
  <2>2. Holds(stack[t], 1)
    BY <1>1, <1>3 DEF Holds
  <2>3. OwnOK(Top(t))
    BY <1>1, <1>3, <2>1, <2>2 DEF FrameClaim
  <2>4. f.ty \in Gets
    BY <1>1, <1>2, <1>3, <1>5 DEF FrameOK
  <2> QED
    BY <1>1, <1>3, <1>5, <2>3, <2>4 DEF OwnOK
<1>8. aborted' = FALSE
  BY <1>4, <1>5, <1>7 DEF Check
<1>9. FrameOK(f)
  BY <1>2, <1>3, <1>5, <1>6 DEF FrameOK, IsAccess
<1>10. Types'
  <2>1. /\ flock' \in [Leaves -> Threads \cup {NoThread}]
        /\ bcc' \in [Caches -> Threads \cup {NoThread}]
    BY <1>3, <1>4 DEF IInv, Types
  <2> QED
    BY <1>1, <1>5, <1>8, <2>1 DEF IInv, Types, StackIs
<1>11. Alone(t)
  <2>1. bcc[t] \in {NoThread, t}
    <3>1. Locked(t) /\ Holds(stack[t], 1) /\ 1 \in 1 .. Len(stack[t])
      BY <1>1, <1>3, Begun DEF Holds
    <3> QED
      BY <1>3, <3>1 DEF Locked
  <2> QED
    BY <1>1, <1>3, <1>4, <1>5, <2>1, Family DEF Alone, StackIs, IInv, Types
<1>12. wb'[t] = NoAddr
  <2>1. WritebackOK(t)
    BY <1>1, Begun
  <2> QED
    BY <1>1, <2>1 DEF WritebackOK
<1>13. FrameClaim(w, 1)'
  <2>1. ReqOK(f)' /\ VictimOK(f)'
    BY <1>5 DEF ReqOK, VictimOK
  <2>2. OwnOK(f)'
    BY <1>1, <1>3, <1>5, <1>7 DEF OwnOK, Valid
  <2> QED
    BY <1>6, <2>1, <2>2 DEF FrameClaim, IsAccess
<1>14. ThreadOK(t)' /\ Busy(t)'
  <2>1. ~Holds(w, 1) /\ flock'[t] = t
    BY <1>3, <1>4, <1>5, <1>6 DEF Holds, IInv, Types
  <2> QED
    BY <1>3, <1>5, <1>6, <1>9, <1>10, <1>12, <1>13, <2>1, OneFrame
<1>15. FilterOK'
  <2>1. \A n \in Leaves : Busy(n) => Busy(n)'
    BY <1>5, <1>14 DEF StackIs, Busy, Threads
  <2> QED
    BY <1>1, <2>1, FiltersStay DEF IInv
<1> QED
  BY <1>1, <1>8, <1>10, <1>11, <1>14, <1>15, Quiet

LEMMA EndAboveKeeps ==
  ASSUME IInv, NEW t \in Threads, End(t), Top(t).ch # Mem
  PROVE  IInv'
<1>1. /\ aborted = FALSE /\ Busy(t) /\ IsAccess(Top(t)) /\ Top(t).at = "end"
      /\ stack' = [stack EXCEPT ![t] = Pop(@)]
      /\ UNCHANGED <<st, dir, filt, wb, fresh, flock, aborted>>
  BY DEF End, At, IInv
<1>2. PICK s \in Seq(Frames) : s = stack[t]
  BY <1>1, Begun
<1>3. /\ Len(s) \in Nat /\ Len(s) >= 1 /\ Len(s) \in 1 .. Len(s) /\ Top(t) = s[Len(s)]
      /\ IsAccess(s[1]) /\ s[1].n \in Leaves /\ Shape(s) /\ Once(s) /\ FramesOK(s)
      /\ Locked(t) /\ WritebackOK(t) /\ FrameOK(Top(t)) /\ FrameClaim(s, Len(s))
  BY <1>1, <1>2, Begun
<1>4. PICK e \in AccessFrames : e = Top(t)
  BY <1>1, Begun, Classes
<1>5. e.n \notin Leaves /\ Len(s) > 1 /\ e = s[Len(s)] /\ IsAccess(e) /\ e.at = "end"
  BY <1>1, <1>3, <1>4 DEF FrameOK
<1>6. /\ Len(s) - 1 \in 1 .. Len(s) /\ IsAccess(s[Len(s) - 1]) /\ s[Len(s) - 1].n \in Caches \ {Root}
      /\ e.ch = s[Len(s) - 1].n /\ e.n = Parent[e.ch]
      /\ Link(s[Len(s) - 1], e) /\ s[Len(s) - 1].at \in {"insert", "dir", "end"}
  <2>1. Link(s[Len(s) - 1], s[Len(s)])
    BY <1>3, <1>5 DEF Shape
  <2> QED
    BY <1>2, <1>3, <1>5, <2>1, Callers
<1>7. PICK n \in Caches, ch \in Caches \ {Root} : n = e.n /\ ch = e.ch /\ ch # n
  BY <1>6, Family, FrameTypes
<1>8. /\ bcc[ch] = NoThread /\ bcc' = [bcc EXCEPT ![ch] = t, ![n] = NoThread]
      /\ tcc' = [tcc EXCEPT ![n] = NoThread]
  BY <1>4, <1>7 DEF End
<1>9. PICK w \in Seq(Frames) : Popped(stack[t], w) /\ StackIs(t, w)
  BY <1>1, Returns
<1>10. Len(w) = Len(s) - 1 /\ \A i \in 1 .. Len(s) - 1 : w[i] = s[i]
  BY <1>2, <1>9 DEF Popped
<1>11. Types'
  <2>1. bcc' \in [Caches -> Threads \cup {NoThread}] /\ tcc' \in [Caches -> Threads \cup {NoThread}]
    BY <1>8 DEF IInv, Types
  <2> QED
    BY <1>1, <1>9, <2>1 DEF IInv, Types, StackIs
<1>12. \A i \in 1 .. Len(s) - 1 : s[i].n # n
  BY <1>1, <1>2, <1>4, <1>5, <1>7, Begun, OwnCache DEF Active
<1>13. \A m \in Caches :
         /\ m # n => tcc'[m] = tcc[m]
         /\ m # n /\ m # ch => bcc'[m] = bcc[m]
         /\ bcc'[ch] = t
  BY <1>7, <1>8 DEF IInv, Types
<1>14. \A i \in 1 .. Len(w) : i < Len(s) - 1 => /\ Holds(w, i) <=> Holds(s, i)
                                              /\ w[i] = s[i] /\ i \in 1 .. Len(s)
  <2>1. ASSUME NEW i \in 1 .. Len(w), i < Len(s) - 1
        PROVE  (Holds(w, i) <=> Holds(s, i)) /\ w[i] = s[i] /\ i \in 1 .. Len(s)
    <3>1. /\ i < Len(w) /\ i < Len(s) /\ i + 1 \in 1 .. Len(s) - 1 /\ i \in 1 .. Len(s) - 1
          /\ i \in 1 .. Len(s)
      BY <1>3, <1>10, <2>1
    <3>2. w[i] = s[i] /\ w[i + 1] = s[i + 1]
      BY <1>10, <3>1
    <3> QED
      BY <3>1, <3>2 DEF Holds
  <2> QED
    BY <2>1
<1>15. \A i \in 1 .. Len(w) : /\ i = Len(s) - 1 \/ i < Len(s) - 1
                              /\ i \in 1 .. Len(s) /\ w[i] = s[i]
  BY <1>3, <1>10
<1>16. FrameClaim(w, Len(s) - 1)'
  <2> DEFINE g == s[Len(s) - 1]
  <2>1. g = w[Len(s) - 1] /\ FrameClaim(s, Len(s) - 1)
    BY <1>3, <1>6, <1>10 DEF FramesOK
  <2>2. ReqOK(g) /\ VictimOK(g)
    BY <1>6, <2>1 DEF FrameClaim
  <2>3. ReqOK(e)
    BY <1>3, <1>5 DEF FrameClaim
  <2>4. OwnOK(g)
    <3>1. e.ty \in Gets => IF e.ty = "GETX" THEN st[g.n][e.a] = "M" ELSE Valid(st[g.n][e.a])
      BY <1>5, <1>6, <1>7, <2>3, Family DEF ReqOK
    <3>2. e.ty \notin Gets => st[g.n][e.a] = "I"
      BY <1>5, <1>6, <1>7, <2>3, Family DEF ReqOK
    <3>3. IF e.ty \in Gets THEN g.ty = e.ty /\ g.a = e.a /\ g.at \in {"dir", "end"}
          ELSE g.at = "insert" /\ e.a = g.v
      BY <1>5, <1>6 DEF Link, After
    <3> QED
      BY <3>1, <3>2, <3>3 DEF OwnOK
  <2>5. ReqOK(g)' /\ VictimOK(g)' /\ OwnOK(g)'
    BY <1>1, <2>2, <2>4 DEF ReqOK, VictimOK, OwnOK, Tagged
  <2> QED
    BY <1>6, <2>1, <2>5 DEF FrameClaim, IsAccess
<1>17. \A i \in 1 .. Len(w) : FrameClaim(w, i)'
  <2>1. ASSUME NEW i \in 1 .. Len(w), i < Len(s) - 1 PROVE FrameClaim(w, i)'
    BY <1>1, <1>3, <1>14, <2>1, BelowNothing
  <2> QED
    BY <1>15, <1>16, <2>1
<1>18. WritebackOK(t)' /\ wb[t] = NoAddr
  BY <1>1, <1>3 DEF WritebackOK
<1>19. \A i \in 1 .. Len(w) : i < Len(s) - 1 /\ Holds(w, i) => bcc[w[i].n] = t /\ w[i].n # ch
  BY <1>2, <1>3, <1>8, <1>14, Family DEF Locked
<1>20. ThreadOK(t)' /\ Busy(t)'
  <2>1. \A i \in 1 .. Len(w) :
          /\ Active(w, i) /\ w[i].n \notin Leaves => tcc'[w[i].n] = t
          /\ Holds(w, i) => bcc'[w[i].n] = t
          /\ w[i].at = "fill" => flock'[w[i].n] = t
    <3>1. ASSUME NEW i \in 1 .. Len(w) PROVE w[i].n \in Caches /\ w[i].n # n /\ i \in 1 .. Len(s) /\ w[i] = s[i]
      BY <1>1, <1>2, <1>10, <1>12, <1>15, <3>1, Begun
    <3>2. ASSUME NEW i \in 1 .. Len(w), Active(w, i), w[i].n \notin Leaves PROVE tcc'[w[i].n] = t
      <4>1. Active(s, i)
        BY <3>1, <3>2 DEF Active
      <4> QED
        BY <1>2, <1>3, <1>13, <3>1, <3>2, <4>1 DEF Locked
    <3>3. ASSUME NEW i \in 1 .. Len(w), Holds(w, i) PROVE bcc'[w[i].n] = t
      BY <1>6, <1>7, <1>13, <1>15, <1>19, <3>1, <3>3
    <3>4. ASSUME NEW i \in 1 .. Len(w), w[i].at = "fill" PROVE flock'[w[i].n] = t
      BY <1>1, <1>2, <1>3, <3>1, <3>4 DEF Locked
    <3> QED
      BY <3>2, <3>3, <3>4
  <2>2. ASSUME NEW i \in 1 .. Len(w), NEW j \in 1 .. Len(w), w[i].n = w[j].n, Holds(w, i), Holds(w, j)
        PROVE  i = j
    <3>1. CASE i < Len(s) - 1 /\ j < Len(s) - 1
      BY <1>3, <1>14, <2>2, <3>1 DEF Once
    <3>2. CASE i = Len(s) - 1 \/ j = Len(s) - 1
      BY <1>6, <1>7, <1>15, <1>19, <2>2, <3>2
    <3> QED
      BY <1>15, <3>1, <3>2
  <2>3. \A i, j \in 1 .. Len(w) : w[i].n = w[j].n /\ Holds(w, i) /\ Holds(w, j) => i = j
    BY <2>2
  <2> QED
    BY <1>1, <1>2, <1>5, <1>9, <1>11, <1>17, <1>18, <2>1, <2>3, ReturnKeeps
<1>21. Alone(t)
  <2>1. bcc[n] = t /\ tcc[n] = t
    <3>1. Holds(s, Len(s)) /\ Active(s, Len(s))
      BY <1>3, <1>5 DEF Holds, Active
    <3> QED
      BY <1>2, <1>3, <1>5, <1>7, <3>1 DEF Locked
  <2>2. ASSUME NEW u \in Threads \ {t}, NEW m \in Caches
        PROVE  (tcc[m] = u => tcc'[m] = u) /\ (bcc[m] = u => bcc'[m] = u)
    <3>1. u # NoThread /\ u # t
      BY Family
    <3> QED
      BY <1>7, <1>8, <1>13, <2>1, <3>1
  <2>3. \A u \in Threads \ {t} : stack'[u] = stack[u] /\ wb'[u] = wb[u]
    BY <1>1, <1>9 DEF StackIs
  <2> QED
    BY <1>1, <2>2, <2>3 DEF Alone
<1>22. FilterOK'
  <2>1. \A m \in Leaves : Busy(m) => Busy(m)'
    BY <1>9, <1>20 DEF StackIs, Busy, Threads
  <2> QED
    BY <1>1, <2>1, FiltersStay DEF IInv
<1> QED
  BY <1>1, <1>11, <1>20, <1>21, <1>22, Quiet

LEMMA EndKeeps ==
  ASSUME IInv, NEW t \in Threads, End(t)
  PROVE  IInv'
BY EndLeafKeeps, EndAboveKeeps

LEMMA InvFinishKeeps ==
  ASSUME IInv, NEW t \in Threads, InvFinish(t)
  PROVE  IInv'
<1>1. /\ aborted = FALSE /\ Busy(t) /\ ~IsAccess(Top(t)) /\ Top(t).at = "down"
      /\ stack' = [stack EXCEPT ![t] = Pop(@)] /\ UNCHANGED <<tcc, flock>>
      /\ Targets(Top(t)) = {}
  BY DEF InvFinish, InvAt, IInv
<1>2. PICK s \in Seq(Frames) : s = stack[t]
  BY <1>1, Begun
<1>3. /\ Len(s) \in Nat /\ Len(s) >= 1 /\ Len(s) \in 1 .. Len(s) /\ Top(t) = s[Len(s)]
      /\ IsAccess(s[1]) /\ s[1].n \in Leaves /\ Shape(s) /\ Once(s) /\ FramesOK(s)
      /\ Locked(t) /\ WritebackOK(t) /\ FrameOK(Top(t)) /\ FrameClaim(s, Len(s))
      /\ \A i \in 1 .. Len(s) : s[i] \in Frames /\ s[i].n \in Caches
  BY <1>1, <1>2, Begun
<1>4. PICK f \in InvFrames : f = Top(t)
  BY <1>1, Begun, Classes
<1>5. Len(s) > 1 /\ f = s[Len(s)] /\ ~IsAccess(f) /\ f.at = "down" /\ InvOK(f) /\ f.n # Root
  BY <1>1, <1>3, <1>4 DEF FrameOK, FrameClaim
<1>6. PICK m \in Caches \ {Root}, p \in Caches, a \in Addrs : m = f.n /\ p = Parent[m] /\ a = f.a
  BY <1>5, Family, FrameTypes
<1>7. PICK g \in Frames : /\ g = s[Len(s) - 1] /\ Link(g, f) /\ g.n = p /\ Holds(s, Len(s) - 1)
                          /\ Len(s) - 1 \in 1 .. Len(s)
  <2>1. Link(s[Len(s) - 1], s[Len(s)])
    BY <1>3, <1>5 DEF Shape
  <2> QED
    BY <1>2, <1>3, <1>5, <1>6, <2>1, Callers
<1>8. m # p /\ m \in Children(p) /\ p \notin Leaves
  BY <1>6, Family
<1>9. PICK ty \in {"INV", "INVX"} : ty = f.ty
  BY FrameTypes
<1>10. PICK x \in {"I", "S"} : x = IF ty = "INVX" THEN "S" ELSE "I"
  OBVIOUS
<1>11. PICK d \in Entries : d = IF ty = "INVX" THEN [dir[p][a] EXCEPT !.ex = FALSE]
                                ELSE Without(dir[p][a], m)
  <2>1. dir[p][a] \in Entries
    BY <1>6 DEF IInv, Types
  <2>2. [dir[p][a] EXCEPT !.ex = FALSE] \in Entries
    BY <2>1 DEF Entries
  <2>3. Without(dir[p][a], m) \in Entries
    BY <2>1 DEF Entries, Without
  <2> QED
    BY <2>2, <2>3
<1>12. PICK induced \in BOOLEAN : induced = (wb[t] # NoAddr \/ st[m][a] = "M")
  OBVIOUS
<1>13. /\ m \in Leaves => flock[m] = NoThread
       /\ Check(IF ty = "INVX" THEN Excl(st[m][a]) ELSE Valid(st[m][a]))
       /\ st' = [st EXCEPT ![m][a] = x]
       /\ wb' = [wb EXCEPT ![t] = IF induced THEN a ELSE NoAddr]
       /\ dir' = [dir EXCEPT ![p][a] = d]
       /\ fresh' = [fresh EXCEPT ![a] = (@ \ (IF ty = "INV" THEN {m} ELSE {}))
                                          \cup (IF induced /\ m \in @ THEN {p} ELSE {})]
       /\ filt' = FilterCleared(t, m, a)
       /\ bcc' = [bcc EXCEPT ![m] = NoThread]
  BY <1>4, <1>6, <1>9, <1>10, <1>11, <1>12 DEF InvFinish, IInv, Types
<1>14. IF ty = "INVX" THEN Excl(st[m][a]) ELSE Valid(st[m][a])
  BY <1>5, <1>6, <1>9 DEF InvOK
<1>15. /\ dir[p][a] \in Entries /\ dir[m][a] \in Entries /\ st[m][a] \in States /\ st[p][a] \in States
       /\ Valid(st[m][a]) /\ m \in dir[p][a].sh /\ Valid(st[p][a])
       /\ Excl(st[m][a]) => Excl(st[p][a]) /\ dir[p][a].sh = {m}
       /\ \A c \in Children(p) \ {m} : ~Excl(st[c][a])
       /\ dir[p][a].ex => dir[p][a].sh = {m}
  <2>1. Valid(st[m][a])
    BY <1>14 DEF Valid, Excl
  <2>2. /\ dir[p][a].sh = {c \in Children(p) : Valid(st[c][a])}
        /\ Valid(st[m][a]) => Valid(st[p][a])
        /\ \A c \in Children(p) : Excl(st[c][a]) => Excl(st[p][a]) /\ dir[p][a].sh = {c}
    BY <1>6, <1>8 DEF IInv, DirOK
  <2>3. dir[p][a].ex => \E c \in Children(p) : dir[p][a].sh = {c}
    <3>1. Types /\ DirOK
      BY DEF IInv
    <3> QED
      BY <3>1, Exclusive
  <2> QED
    BY <1>6, <1>8, <2>1, <2>2, <2>3 DEF IInv, Types
<1>16. ~dir[m][a].ex /\ (ty = "INV" => dir[m][a].sh = {})
  <2>1. /\ IsExclusive(dir[m][a]) <=> dir[m][a].ex
        /\ dir[m][a].ex => dir[m][a].sh # {}
    <3>1. Types /\ DirOK /\ m \in Caches
      BY DEF IInv
    <3>2. dir[m][a].ex => \E c \in Children(m) : dir[m][a].sh = {c}
      BY <3>1, Exclusive
    <3>3. IsExclusive(dir[m][a]) <=> dir[m][a].ex
      BY <3>1, Exclusive
    <3> QED
      BY <3>2, <3>3
  <2> QED
    BY <1>1, <1>4, <1>6, <1>9, <2>1 DEF Targets
<1>17. ServedDir(p, m, a, x, st[p][a], d)
  <2>1. /\ d.sh = IF Valid(x) THEN dir[p][a].sh \cup {m} ELSE dir[p][a].sh \ {m}
        /\ d.ex = FALSE
    BY <1>10, <1>11, <1>15 DEF Without, Valid, Entries
  <2>2. ~Excl(x) /\ (~Valid(x) => ty = "INV")
    BY <1>9, <1>10 DEF Excl, Valid
  <2>3. st' = [st EXCEPT ![m][a] = x, ![p][a] = st[p][a]]
    BY <1>6, <1>8, <1>13 DEF IInv, Types
  <2>4. st[m][a] # "none"
    BY <1>15 DEF Valid
  <2> QED
    BY <1>13, <1>15, <1>16, <2>1, <2>2, <2>3, <2>4 DEF ServedDir
<1>18. LinesServed(p, m, a, x, st[p][a]) /\ Fits' /\ DirOK'
  <2>1. x \in States \ {"none"}
    BY DEF States
  <2> QED
    BY <1>8, <1>15, <1>17, <2>1, ServedLines
<1>19. /\ st' \in [Caches -> [Addrs -> States]] /\ dir' \in [Caches -> [Addrs -> Entries]]
       /\ \A n \in Caches \ {m, p} : SameCache(n)
       /\ dir'[m] = dir[m] /\ st'[p] = st[p]
       /\ FewerSharers(p) /\ Lost(m, a) /\ \A b \in Addrs \ {a} : st'[m][b] = st[m][b]
       /\ \A n \in Caches \ {m} : st'[n] = st[n]
       /\ dir'[p][a] = d
  <2>1. \A n \in Caches \ {m} : st'[n] = st[n]
    BY <1>13 DEF IInv, Types
  <2>2. \A b \in Addrs \ {a} : st'[m][b] = st[m][b] /\ dir'[p][b] = dir[p][b]
    BY <1>6, <1>13 DEF IInv, Types
  <2>3. dir'[p][a] = d /\ d.sh \subseteq dir[p][a].sh
    BY <1>11, <1>13, <1>15 DEF IInv, Types, Without, Entries
  <2>4. FewerSharers(p)
    BY <2>2, <2>3 DEF FewerSharers
  <2>5. Lost(m, a)
    BY <1>9, <1>10, <1>14, <1>18 DEF Lost, LinesServed
  <2> QED
    BY <1>8, <1>18, <2>1, <2>2, <2>3, <2>4, <2>5 DEF LinesServed
<1>20. PICK w \in Seq(Frames) : Popped(stack[t], w) /\ StackIs(t, w)
  BY <1>1, Returns
<1>21. /\ Len(w) = Len(s) - 1 /\ Len(w) \in 1 .. Len(w) /\ stack'[t] = w
       /\ \A i \in 1 .. Len(w) : /\ w[i] = s[i] /\ i \in 1 .. Len(s) - 1 /\ i \in 1 .. Len(s)
                                 /\ i = Len(s) - 1 \/ (i < Len(w) /\ w[i + 1] = s[i + 1])
  <2>1. Len(w) = Len(s) - 1 /\ stack'[t] = w /\ \A i \in 1 .. Len(s) - 1 : w[i] = s[i]
    BY <1>2, <1>20 DEF Popped, StackIs
  <2> QED
    BY <1>3, <1>5, <2>1
<1>22. Types'
  <2>1. /\ wb' \in [Threads -> Addrs \cup {NoAddr}] /\ bcc' \in [Caches -> Threads \cup {NoThread}]
        /\ filt' \in [Leaves -> FilterEntries]
    <3>1. filt \in [Leaves -> FilterEntries] /\ NoFilter \in FilterEntries
      BY DEF IInv, Types, NoFilter, FilterEntries
    <3>2. CASE m \notin Leaves \/ FilterMatches(t, m, a)
      <4>1. filt' = filt \/ (m \in Leaves /\ filt' = [filt EXCEPT ![m] = NoFilter])
        BY <1>13, <3>2 DEF FilterCleared
      <4>2. filt' \in [Leaves -> FilterEntries]
        BY <3>1, <4>1
      <4> QED
        BY <1>13, <4>2 DEF IInv, Types
    <3>3. CASE m \in Leaves /\ ~FilterMatches(t, m, a)
      <4>1. PICK l \in BOOLEAN : l = (filt[m].left \/ filt[m].rd = a)
        OBVIOUS
      <4>2. filt' = [filt EXCEPT ![m].left = l]
        BY <1>13, <3>3, <4>1 DEF FilterCleared
      <4>3. filt' = [k \in Leaves |-> IF k = m THEN [filt[m] EXCEPT !.left = l] ELSE filt[k]]
        BY <3>1, <3>3, <4>2
      <4>4. [filt[m] EXCEPT !.left = l] \in FilterEntries
        BY <3>1, <3>3 DEF FilterEntries
      <4>5. filt' \in [Leaves -> FilterEntries]
        BY <3>1, <4>3, <4>4
      <4> QED
        BY <1>13, <4>5 DEF IInv, Types
    <3> QED
      BY <3>2, <3>3
  <2>2. fresh' \in [Addrs -> SUBSET (Caches \cup {Mem})]
    BY <1>13 DEF IInv, Types
  <2>3. aborted' = FALSE
    BY <1>13, <1>14 DEF Check
  <2> QED
    BY <1>1, <1>19, <1>20, <2>1, <2>2, <2>3 DEF IInv, Types, StackIs
<1>23. aborted' = FALSE
  BY <1>13, <1>14 DEF Check
<1>24. Holds(s, Len(s)) /\ bcc[m] = t
  <2>1. Holds(s, Len(s))
    BY <1>5 DEF Holds
  <2> QED
    BY <1>2, <1>3, <1>5, <1>6, <2>1 DEF Locked
<1>25. \A i \in 1 .. Len(s) : s[i].at # "fill"
  <2>1. SUFFICES ASSUME NEW i \in 1 .. Len(s), s[i].at = "fill" PROVE FALSE
    OBVIOUS
  <2>2. i # Len(s)
    BY <1>5, <2>1
  <2>3. i + 1 \in 1 .. Len(s) /\ i + 1 > 1 /\ (i + 1) - 1 = i
    BY <1>3, <2>2
  <2>4. s[i].at \in {"evict", "dir", "down", "insert", "end"}
    BY <1>3, <2>3, Callers
  <2> QED
    BY <2>1, <2>4
<1>26. \A i \in 1 .. Len(w) : FrameClaim(w, i)'
  <2>1. /\ Popped(s, w) /\ s[Len(s)].n = m /\ ~IsAccess(s[Len(s)]) /\ Holds(s, Len(s))
        /\ m \in Leaves => ~\E i \in 1 .. Len(s) : s[i].at = "fill"
    BY <1>2, <1>5, <1>6, <1>20, <1>24, <1>25
  <2>2. \A i \in 1 .. Len(s) - 1 : FrameClaim(w, i)'
    BY <1>3, <1>5, <1>19, <2>1, BelowLoss
  <2> QED
    BY <1>21, <2>2
<1>27. \A i \in 1 .. Len(w) : Holds(w, i) => Holds(s, i) /\ s[i].n # m /\ bcc'[w[i].n] = t
  <2>1. SUFFICES ASSUME NEW i \in 1 .. Len(w), Holds(w, i)
                 PROVE  Holds(s, i) /\ s[i].n # m /\ bcc'[w[i].n] = t
    OBVIOUS
  <2>2. Holds(s, i)
    BY <1>3, <1>7, <1>21, <2>1 DEF Holds
  <2>3. s[i].n # m
    BY <1>3, <1>5, <1>6, <1>21, <1>24, <2>2 DEF Once
  <2>4. bcc[s[i].n] = t
    BY <1>2, <1>3, <1>21, <2>2 DEF Locked
  <2> QED
    BY <1>3, <1>13, <1>21, <2>2, <2>3, <2>4 DEF IInv, Types
<1>28. WritebackOK(t)'
  <2>1. SUFFICES ASSUME induced PROVE WritebackOK(t)'
    BY <1>13 DEF WritebackOK, IInv, Types
  <2>2. Excl(st[m][a])
    <3>1. CASE st[m][a] = "M"
      BY <3>1 DEF Excl
    <3>2. CASE wb[t] # NoAddr
      <4>1. wb[t] = a /\ Excl(st[m][wb[t]])
        BY <1>3, <1>4, <1>5, <1>6, <3>2 DEF WritebackOK
      <4> QED
        BY <4>1
    <3> QED
      BY <1>12, <2>1, <3>1, <3>2
  <2>3. Excl(st'[p][a]) /\ dir[p][a].sh = {m} /\ wb'[t] = a
    BY <1>13, <1>15, <1>19, <2>1, <2>2 DEF IInv, Types
  <2>4. (ty = "INV" => dir'[p][a].sh = {}) /\ ~dir'[p][a].ex
    BY <1>9, <1>11, <1>15, <1>19, <2>3 DEF Without, Entries
  <2>5. Top(t)' = g /\ Busy(t)'
    <3>1. Top(t)' = w[Len(w)]
      BY <1>21 DEF Top
    <3>2. w = <<>> => Len(w) = 0
      BY EmptySeq
    <3> QED
      BY <1>7, <1>21, <3>1, <3>2 DEF Busy
  <2>6. \/ g.at = "evict" /\ ty = "INV" /\ a = g.v
        \/ g.at = "dir" /\ g.ty \in Gets /\ a = g.a /\ ty = IF g.ty = "GETX" THEN "INV" ELSE "INVX"
        \/ g.at = "down" /\ ty = g.ty /\ a = g.a
    BY <1>5, <1>6, <1>7, <1>9 DEF Link
  <2> QED
    BY <1>7, <2>3, <2>4, <2>5, <2>6 DEF WritebackOK, Gets
<1>29. ThreadOK(t)' /\ Busy(t)'
  <2>1. \A i \in 1 .. Len(w) :
          /\ Active(w, i) /\ w[i].n \notin Leaves => tcc'[w[i].n] = t
          /\ Holds(w, i) => bcc'[w[i].n] = t
          /\ w[i].at = "fill" => flock'[w[i].n] = t
    <3>1. ASSUME NEW i \in 1 .. Len(w), Active(w, i), w[i].n \notin Leaves PROVE tcc'[w[i].n] = t
      <4>1. i \in 1 .. Len(s) /\ w[i] = s[i] /\ Active(s, i)
        BY <1>21, <3>1 DEF Active
      <4>2. tcc[s[i].n] = t
        BY <1>2, <1>3, <3>1, <4>1 DEF Locked
      <4> QED
        BY <1>1, <4>1, <4>2
    <3> QED
      BY <1>21, <1>25, <1>27, <3>1
  <2>2. \A i, j \in 1 .. Len(w) : w[i].n = w[j].n /\ Holds(w, i) /\ Holds(w, j) => i = j
    <3>1. SUFFICES ASSUME NEW i \in 1 .. Len(w), NEW j \in 1 .. Len(w),
                          w[i].n = w[j].n, Holds(w, i), Holds(w, j)
                   PROVE  i = j
      OBVIOUS
    <3>2. i \in 1 .. Len(s) /\ j \in 1 .. Len(s) /\ w[i] = s[i] /\ w[j] = s[j]
      BY <1>21
    <3>3. Holds(s, i) /\ Holds(s, j)
      BY <1>27, <3>1
    <3>4. \A k, l \in 1 .. Len(s) : s[k].n = s[l].n /\ Holds(s, k) /\ Holds(s, l) => k = l
      BY <1>3 DEF Once
    <3> QED
      BY <3>1, <3>2, <3>3, <3>4
  <2> QED
    BY <1>1, <1>2, <1>5, <1>20, <1>22, <1>26, <1>28, <2>1, <2>2, ReturnKeeps
<1>30. Alone(t)
  <2>1. ASSUME NEW u \in Threads \ {t}, NEW n \in Caches PROVE bcc[n] = u => bcc'[n] = u
    BY <1>13, <1>24 DEF IInv, Types
  <2>2. \A u \in Threads \ {t} : stack'[u] = stack[u] /\ wb'[u] = wb[u]
    BY <1>13, <1>20 DEF StackIs, IInv, Types
  <2> QED
    BY <1>1, <2>1, <2>2 DEF Alone
<1>31. \A u \in Threads \ {t} : ThreadOK(u)'
  <2>1. Types /\ Threaded
    BY DEF IInv, Threaded
  <2>2. \E k \in 1 .. Len(stack[t]) :
           k > 1 /\ stack[t][k].n = m /\ ~IsAccess(stack[t][k]) /\ Holds(stack[t], k)
    BY <1>2, <1>3, <1>5, <1>6, <1>24
  <2>3. p = Parent[m] /\ (m \in Leaves => flock[m] = NoThread)
    BY <1>6, <1>13
  <2>4. /\ \A n \in Caches \ {m, p} : SameCache(n)
        /\ dir'[m] = dir[m] /\ st'[p] = st[p] /\ FewerSharers(p)
        /\ Lost(m, a) /\ \A b \in Addrs \ {a} : st'[m][b] = st[m][b]
    BY <1>19
  <2> QED
    BY <1>22, <1>30, <2>1, <2>2, <2>3, <2>4, OthersSeeLoss
<1>32. FilterOK'
  <2>1. ASSUME NEW n \in Leaves
        PROVE  /\ filt'[n].wr \in {NoAddr, filt'[n].rd}
               /\ ~Busy(n)' /\ ~filt'[n].left =>
                    /\ filt'[n].rd # NoAddr => Valid(st'[n][filt'[n].rd])
                    /\ filt'[n].wr # NoAddr => st'[n][filt'[n].wr] = "M"
    <3>1. ~Busy(n)' => ~Busy(n)
      BY <1>20, <1>29 DEF StackIs, Busy, Threads
    <3>2. /\ filt[n].wr \in {NoAddr, filt[n].rd}
          /\ ~Busy(n) /\ ~filt[n].left => /\ filt[n].rd # NoAddr => Valid(st[n][filt[n].rd])
                                          /\ filt[n].wr # NoAddr => st[n][filt[n].wr] = "M"
      BY DEF IInv, FilterOK
    <3>3. filt[n].rd \in Addrs \cup {NoAddr} /\ filt[n].wr \in Addrs \cup {NoAddr} /\ n \in Caches
      BY Family DEF IInv, Types, FilterEntries
    <3>4. CASE n = m /\ (FilterMatches(t, m, a) \/ filt[m].rd = a)
      <4>1. \/ filt'[n] = NoFilter
            \/ filt'[n] = [filt[n] EXCEPT !.left = TRUE]
        BY <1>13, <3>4 DEF FilterCleared, IInv, Types, FilterEntries
      <4>2. filt[n] \in FilterEntries
        BY DEF IInv, Types
      <4>3. \/ filt'[n].rd = NoAddr /\ filt'[n].wr = NoAddr
            \/ filt'[n].rd = filt[n].rd /\ filt'[n].wr = filt[n].wr /\ filt'[n].left
        BY <4>1, <4>2 DEF NoFilter, FilterEntries
      <4> QED
        BY <3>2, <4>3
    <3>5. CASE n = m /\ ~FilterMatches(t, m, a) /\ filt[m].rd # a
      <4>1. filt'[n] = filt[n]
        BY <1>13, <3>5 DEF FilterCleared, IInv, Types, FilterEntries
      <4>2. filt[n].rd # NoAddr => st'[n][filt[n].rd] = st[n][filt[n].rd]
        BY <1>19, <3>3, <3>5
      <4> QED
        BY <3>1, <3>2, <4>1, <4>2
    <3>6. CASE n # m
      <4>1. filt'[n] = filt[n] /\ st'[n] = st[n]
        BY <1>13, <1>19, <3>3, <3>6 DEF FilterCleared, IInv, Types
      <4> QED
        BY <3>1, <3>2, <4>1
    <3> QED
      BY <3>4, <3>5, <3>6
  <2> QED
    BY <2>1 DEF FilterOK
<1> QED
  BY <1>18, <1>22, <1>23, <1>29, <1>31, <1>32 DEF IInv

------------------------------------------------------------------------------
(* The invariant holds in every reachable state.                           *)

LEMMA InitOK == Init => IInv
<1> SUFFICES ASSUME Init PROVE IInv
  OBVIOUS
<1>1. Types
  <2>1. NoEntry \in Entries /\ "none" \in States
    BY DEF NoEntry, Entries, States
  <2>2. \A t \in Threads : <<>> \in Seq(Frames)
    BY EmptySeq
  <2> QED
    BY <2>1, <2>2 DEF Init, Types, NoFilter, FilterEntries
<1>2. Fits
  <2>1. ASSUME NEW n \in Caches PROVE IsFiniteSet(Tagged(n)) /\ Cardinality(Tagged(n)) <= Lines[n]
    <3>1. Tagged(n) = {}
      BY DEF Init, Tagged
    <3>2. IsFiniteSet({}) /\ Cardinality({}) = 0
      BY FS_EmptySet
    <3>3. Lines[n] \in Nat
      BY CoherenceAssumption
    <3> QED
      BY <3>1, <3>2, <3>3
  <2> QED
    BY <2>1 DEF Fits
<1>3. DirOK
  <2>1. ASSUME NEW n \in Caches, NEW a \in Addrs
        PROVE  dir[n][a] = NoEntry /\ \A c \in Children(n) : ~Valid(st[c][a]) /\ ~Excl(st[c][a])
    BY DEF Init, Children, Valid, Excl
  <2> QED
    BY <2>1 DEF DirOK, NoEntry
<1>4. FilterOK
  BY DEF Init, FilterOK, NoFilter
<1>5. ASSUME NEW t \in Threads PROVE ThreadOK(t)
  <2>1. stack[t] = <<>> /\ wb[t] = NoAddr /\ ~Busy(t)
    BY DEF Init, Busy
  <2>2. Len(stack[t]) = 0
    BY <2>1, EmptySeq
  <2>3. \A i : i \notin 1 .. Len(stack[t])
    BY <2>2
  <2> QED
    BY <2>1, <2>3
    DEF ThreadOK, Shape, Rooted, Locked, Once, FramesOK, WritebackOK
<1> QED
  BY <1>1, <1>2, <1>3, <1>4, <1>5 DEF Init, IInv

LEMMA StepKeeps ==
  ASSUME IInv, NEW t \in Threads, Step(t)
  PROVE  IInv'
<1>1. CASE TakeTcc(t)     BY <1>1, TakeTccKeeps
<1>2. CASE Lookup(t)      BY <1>2, LookupKeeps
<1>3. CASE EvictInval(t)  BY <1>3, EvictInvalKeeps
<1>4. CASE EvictWrite(t)  BY <1>4, EvictWriteKeeps
<1>5. CASE Refill(t)      BY <1>5, RefillKeeps
<1>6. CASE DirPut(t)      BY <1>6, DirPutKeeps
<1>7. CASE DirInval(t)    BY <1>7, DirInvalKeeps
<1>8. CASE DirGrant(t)    BY <1>8, DirGrantKeeps
<1>9. CASE End(t)         BY <1>9, EndKeeps
<1>10. CASE Fill(t)       BY <1>10, FillKeeps
<1>11. CASE InvLock(t)    BY <1>11, InvLockKeeps
<1>12. CASE InvDown(t)    BY <1>12, InvDownKeeps
<1>13. CASE InvFinish(t)  BY <1>13, InvFinishKeeps
<1> QED
  BY <1>1, <1>2, <1>3, <1>4, <1>5, <1>6, <1>7, <1>8, <1>9, <1>10, <1>11, <1>12, <1>13 DEF Step

LEMMA StutterKeeps ==
  ASSUME IInv, UNCHANGED vars
  PROVE  IInv'
<1>1. Types' /\ Fits' /\ DirOK' /\ FilterOK' /\ ~aborted'
  <2>1. Types' /\ ~aborted'
    BY DEF vars, IInv, Types
  <2>2. Fits'
    BY DEF vars, IInv, Fits, Tagged
  <2>3. DirOK'
    BY DEF vars, IInv, DirOK
  <2>4. FilterOK'
    BY DEF vars, IInv, FilterOK, Busy
  <2> QED
    BY <2>1, <2>2, <2>3, <2>4
<1>2. ASSUME NEW t \in Threads PROVE ThreadOK(t)'
  <2>1. Types' /\ Types /\ ThreadOK(t)
    BY <1>1 DEF IInv
  <2>2. \A n \in Caches : st'[n] = st[n] /\ dir'[n] = dir[n] /\ tcc'[n] = tcc[n] /\ bcc'[n] = bcc[n]
    BY DEF vars
  <2>3. stack'[t] = stack[t] /\ wb'[t] = wb[t] /\ \A n \in Leaves : flock'[n] = flock[n]
    BY DEF vars
  <2>4. \A i \in 1 .. Len(stack[t]) : stack[t][i].n \in Caches
    BY <2>1, ElementOfSeq, FrameTypes, Classes DEF Types
  <2>5. \A n \in Caches : SameTags(n) /\ FewerSharers(n) /\ SameRights(n)
    BY <2>2 DEF SameTags, FewerSharers, SameRights
  <2> QED
    BY <2>1, <2>2, <2>3, <2>4, <2>5, Undisturbed
<1> QED
  BY <1>1, <1>2 DEF IInv

LEMMA NextKeeps == IInv /\ [Next]_vars => IInv'
<1>1. ASSUME IInv, NEW t \in Threads, NEW ty \in Gets, NEW a \in Addrs, Issue(t, ty, a)
      PROVE  IInv'
  BY <1>1, IssueKeeps
<1>2. ASSUME IInv, NEW t \in Threads, ContextSwitch(t) PROVE IInv'
  BY <1>2, ContextSwitchKeeps
<1>3. ASSUME IInv, NEW t \in Threads, Step(t) PROVE IInv'
  BY <1>3, StepKeeps
<1>4. ASSUME IInv, UNCHANGED vars PROVE IInv'
  BY <1>4, StutterKeeps
<1> QED
  BY <1>1, <1>2, <1>3, <1>4 DEF Next

(* What the frames rely on holds at all times.                             *)
THEOREM Invariance == Spec => []IInv
<1>1. Init => IInv
  BY InitOK
<1>2. IInv /\ [Next]_vars => IInv'
  BY NextKeeps
<1> QED
  BY <1>1, <1>2, PTL DEF Spec

------------------------------------------------------------------------------
(* What follows from it.                                                   *)

(* No assert or panic of the protocol fires and no array overflows, in a   *)
(* tree of any depth and width: every race that CheckForMESIRace, the      *)
(* directories and processInval meet is one they expect.                   *)
THEOREM Panicless == Spec => []NeverPanics
<1>1. IInv => NeverPanics
  <2> SUFFICES ASSUME IInv PROVE NeverPanics
    OBVIOUS
  <2>1. ASSUME NEW t \in Threads, NEW i \in 1 .. Len(stack[t])
        PROVE  stack[t][i] \in AccessFrames \cup InvFrames
    BY ElementOfSeq DEF IInv, Types, Frames
  <2> QED
    BY <2>1 DEF IInv, Types, Fits, NeverPanics, TypeOK
<1> QED
  BY <1>1, Invariance, PTL

(* The directory of a cache nobody works on names exactly the children     *)
(* with a valid copy, and inclusion is never lost.  The locks are not even *)
(* needed: a directory and the lines it is about change in one step.       *)
THEOREM Directories == Spec => []DirectoryExact
<1>1. IInv => DirectoryExact
  <2> SUFFICES ASSUME IInv, NEW n \in Caches \ Leaves, NEW a \in Addrs
               PROVE  /\ dir[n][a].sh = {c \in Children(n) : Valid(st[c][a])}
                      /\ \A c \in dir[n][a].sh :
                           /\ Valid(st[n][a])
                           /\ Excl(st[c][a]) => IsExclusive(dir[n][a]) /\ Excl(st[n][a])
    BY DEF DirectoryExact
  <2>1. /\ dir[n][a].sh = {c \in Children(n) : Valid(st[c][a])}
        /\ dir[n][a].ex <=> \E c \in Children(n) : Excl(st[c][a])
        /\ \A c \in Children(n) : /\ Valid(st[c][a]) => Valid(st[n][a])
                                  /\ Excl(st[c][a]) => Excl(st[n][a])
    BY DEF IInv, DirOK
  <2>2. IsExclusive(dir[n][a]) <=> dir[n][a].ex
    BY Sharers
  <2> QED
    BY <2>1, <2>2
<1> QED
  BY <1>1, Invariance, PTL

(* The caches from m up to the root.                                       *)
Closed(X) == \A c \in X \ {Root} : Parent[c] \in X
Up(m) == {c \in Caches : \A X \in SUBSET Caches : m \in X /\ Closed(X) => c \in X}

LEMMA UpProperties ==
  ASSUME NEW m \in Caches
  PROVE  /\ m \in Up(m) /\ Closed(Up(m)) /\ Root \in Up(m)
         /\ \A X \in SUBSET Caches : m \in X /\ Closed(X) => Up(m) \subseteq X
         /\ \A c \in Up(m) : c = m \/ \E d \in Up(m) : d \in Children(c)
<1>1. m \in Up(m) /\ \A X \in SUBSET Caches : m \in X /\ Closed(X) => Up(m) \subseteq X
  BY DEF Up
<1>2. Closed(Up(m))
  <2>1. ASSUME NEW c \in Up(m) \ {Root}, NEW X \in SUBSET Caches, m \in X, Closed(X)
        PROVE  Parent[c] \in X
    BY <2>1 DEF Up, Closed
  <2>2. \A c \in Up(m) \ {Root} : Parent[c] \in Caches
    BY Family DEF Up
  <2> QED
    BY <2>1, <2>2 DEF Up, Closed
<1>3. Root \in Up(m)
  <2>1. SUFFICES ASSUME Root \notin Up(m) PROVE FALSE
    OBVIOUS
  <2>2. Up(m) \in SUBSET (Caches \ {Root}) /\ Up(m) # {}
    BY <1>1, <2>1 DEF Up
  <2>3. \E c \in Up(m) : Parent[c] \notin Up(m)
    BY <2>2, CoherenceAssumption
  <2> QED
    BY <1>2, <2>1, <2>3 DEF Closed
<1>4. \A c \in Up(m) : c = m \/ \E d \in Up(m) : d \in Children(c)
  <2>1. PICK X \in SUBSET Caches : X = {c \in Up(m) : c = m \/ \E d \in Up(m) : d \in Children(c)}
    BY DEF Up
  <2>2. m \in X
    BY <1>1, <2>1
  <2>3. ASSUME NEW c \in X \ {Root} PROVE Parent[c] \in X
    <3>1. c \in Up(m) /\ c \in Caches \ {Root}
      BY <2>1
    <3>2. c \in Children(Parent[c]) /\ Parent[c] \in Up(m)
      BY <1>2, <3>1, Family DEF Closed
    <3> QED
      BY <2>1, <3>1, <3>2
  <2>4. Closed(X)
    BY <2>3 DEF Closed
  <2> QED
    BY <1>1, <2>1, <2>2, <2>4
<1> QED
  BY <1>1, <1>2, <1>3, <1>4

(* Every copy of a line that a core may write is on the core's path to the *)
(* root: where another cache's path meets it, the directory would have to  *)
(* name one child on each path, and it names the writer's only.            *)
LEMMA OnePath ==
  ASSUME IInv, NEW a \in Addrs, NEW m \in Leaves, NEW n \in Caches, Excl(st[m][a])
  PROVE  /\ \A c \in Up(m) : Excl(st[c][a])
         /\ Valid(st[n][a]) => n \in Up(m)
<1>2. m \in Caches /\ n \in Caches
  BY Family
<1>3. \A c \in Caches \ {Root} :
        /\ Parent[c] \in Caches /\ c \in Children(Parent[c])
        /\ Valid(st[c][a]) => Valid(st[Parent[c]][a]) /\ c \in dir[Parent[c]][a].sh
        /\ Excl(st[c][a]) => Excl(st[Parent[c]][a]) /\ dir[Parent[c]][a].sh = {c}
  <2>1. SUFFICES ASSUME NEW c \in Caches \ {Root}
                 PROVE  /\ Parent[c] \in Caches /\ c \in Children(Parent[c])
                        /\ Valid(st[c][a]) => Valid(st[Parent[c]][a]) /\ c \in dir[Parent[c]][a].sh
                        /\ Excl(st[c][a]) => Excl(st[Parent[c]][a]) /\ dir[Parent[c]][a].sh = {c}
    OBVIOUS
  <2>2. PICK p \in Caches : p = Parent[c] /\ c \in Children(p)
    BY Family
  <2> QED
    BY <2>2 DEF IInv, DirOK
<1>4. \A c \in Up(m) : Excl(st[c][a])
  <2>1. PICK X \in SUBSET Caches : X = {c \in Caches : Excl(st[c][a])}
    OBVIOUS
  <2>2. m \in X /\ Closed(X)
    BY <1>2, <1>3, <2>1 DEF Closed
  <2>3. Up(m) \subseteq X
    BY <1>2, <2>2, UpProperties
  <2> QED
    BY <2>1, <2>3
<1>1. SUFFICES ASSUME Valid(st[n][a]), n \notin Up(m) PROVE FALSE
  BY <1>4
<1>5. \A c \in Up(n) : Valid(st[c][a])
  <2>1. PICK X \in SUBSET Caches : X = {c \in Caches : Valid(st[c][a])}
    OBVIOUS
  <2>2. n \in X /\ Closed(X)
    BY <1>1, <1>2, <1>3, <2>1 DEF Closed
  <2>3. Up(n) \subseteq X
    BY <1>2, <2>2, UpProperties
  <2> QED
    BY <2>1, <2>3
<1>6. /\ n \in Up(n) /\ Closed(Up(n)) /\ Root \in Up(m)
      /\ \A c \in Up(m) : c = m \/ \E d \in Up(m) : d \in Children(c)
  BY <1>2, UpProperties
<1>8. PICK c \in Up(n) \ Up(m) : Parent[c] \notin Up(n) \ Up(m)
  <2>1. Up(n) \ Up(m) \in SUBSET (Caches \ {Root}) /\ Up(n) \ Up(m) # {}
    BY <1>1, <1>6 DEF Up
  <2> QED
    BY <2>1, CoherenceAssumption
<1>9. c \in Caches \ {Root} /\ Parent[c] \in Up(m) /\ Parent[c] \notin Leaves
  <2>1. c \in Caches \ {Root}
    BY <1>6, <1>8 DEF Up
  <2> QED
    BY <1>6, <1>8, <2>1, Family DEF Closed
<1>10. PICK d \in Up(m) : d \in Children(Parent[c])
  BY <1>6, <1>9
<1>11. d \in Caches \ {Root} /\ Parent[d] = Parent[c]
  BY <1>10 DEF Children
<1>12. dir[Parent[c]][a].sh = {d} /\ c \in dir[Parent[c]][a].sh
  BY <1>3, <1>4, <1>5, <1>8, <1>9, <1>11
<1> QED
  BY <1>8, <1>12

LEMMA Apart ==
  ASSUME IInv, NEW a \in Addrs, NEW m \in Leaves, NEW n \in Leaves, m # n, Excl(st[m][a])
  PROVE  ~Valid(st[n][a])
<1>1. m \in Caches /\ n \in Caches /\ Children(n) = {}
  BY Family DEF Leaves
<1>2. n \notin Up(m)
  BY <1>1, UpProperties
<1> QED
  BY <1>1, <1>2, OnePath

(* A core that may write a line is the only one with a copy, in a tree of  *)
(* any depth and width, and a filter entry allows its core nothing that    *)
(* the cache behind it does not, unless a thread of another process has    *)
(* taken the line and left the entry.                                      *)
THEOREM Writers == Spec => []SingleWriter
<1>1. IInv => SingleWriter
  <2> SUFFICES ASSUME IInv PROVE SingleWriter
    OBVIOUS
  <2>1. \A a \in Addrs : \A m, n \in Leaves : m # n /\ Excl(st[m][a]) => ~Valid(st[n][a])
    BY Apart
  <2> QED
    BY <2>1 DEF IInv, FilterOK, SingleWriter
<1> QED
  BY <1>1, Invariance, PTL

------------------------------------------------------------------------------
(* Locks are held for a frame, and nobody waits in a circle.               *)

(* The converse of Locked.                                                 *)
LocksHeld(t) ==
  LET s == stack[t] IN
  /\ \A n \in Caches : tcc[n] = t =>
       n \notin Leaves /\ \E i \in 1 .. Len(s) : Active(s, i) /\ s[i].n = n
  /\ \A n \in Caches : bcc[n] = t =>
       \E i \in 1 .. Len(s) : Holds(s, i) /\ s[i].n = n
  /\ \A n \in Leaves : flock[n] = t => n = t /\ Busy(t) /\ Top(t).at = "fill"

HInv == \A t \in Threads : LocksHeld(t)

(* A step gives locks to its own thread, if to any.                        *)
OnlyTo(t) ==
  /\ \A u \in Threads \ {t} : stack'[u] = stack[u]
  /\ \A n \in Caches : tcc'[n] \in {tcc[n], t, NoThread} /\ bcc'[n] \in {bcc[n], t, NoThread}
  /\ \A n \in Leaves : flock'[n] \in {flock[n], t, NoThread}

LEMMA OthersHeld ==
  ASSUME HInv, NEW t \in Threads, OnlyTo(t), LocksHeld(t)'
  PROVE  HInv'
<1>1. ASSUME NEW u \in Threads \ {t} PROVE LocksHeld(u)'
  <2>1. u # NoThread /\ stack'[u] = stack[u] /\ LocksHeld(u)
    BY Family DEF OnlyTo, HInv
  <2>2. \A n \in Caches : (tcc'[n] = u => tcc[n] = u) /\ (bcc'[n] = u => bcc[n] = u)
    BY <2>1 DEF OnlyTo
  <2>3. \A n \in Leaves : flock'[n] = u => flock[n] = u
    BY <2>1 DEF OnlyTo
  <2>4. \A n \in Caches : tcc'[n] = u =>
          n \notin Leaves /\ \E i \in 1 .. Len(stack'[u]) : Active(stack'[u], i) /\ stack'[u][i].n = n
    BY <2>1, <2>2 DEF LocksHeld
  <2>5. \A n \in Caches : bcc'[n] = u =>
          \E i \in 1 .. Len(stack'[u]) : Holds(stack'[u], i) /\ stack'[u][i].n = n
    BY <2>1, <2>2 DEF LocksHeld
  <2>6. \A n \in Leaves : flock'[n] = u => n = u /\ Busy(u)' /\ Top(u)'.at = "fill"
    BY <2>1, <2>3 DEF LocksHeld, Busy, Top
  <2> QED
    BY <2>4, <2>5, <2>6 DEF LocksHeld, Active, Holds, IsAccess
<1> QED
  BY <1>1 DEF HInv

LEMMA HeldOnward ==
  ASSUME IInv, HInv, NEW t \in Threads, Busy(t), NEW w \in Seq(Frames), StackIs(t, w),
         NEW k, k = Len(stack[t]), NEW n, n = Top(t).n,
         Len(w) >= k, \A i \in 1 .. k - 1 : w[i] = stack[t][i],
         IsAccess(w[k]) <=> IsAccess(Top(t)), w[k].n = n,
         Active(stack[t], k) => Active(w, k),
         \A m \in Caches : \/ tcc'[m] \in {tcc[m], NoThread}
                           \/ tcc'[m] = t /\ m = n /\ n \notin Leaves /\ Active(w, k),
         \A m \in Caches \ {n} : bcc'[m] = bcc[m],
         bcc'[n] \in {bcc[n], t, NoThread},
         bcc'[n] = t => Holds(w, k) \/ (bcc[n] = t /\ ~Holds(stack[t], k)),
         Top(t).at # "fill",
         \A m \in Leaves : \/ flock'[m] = flock[m]
                           \/ flock'[m] = t /\ m = t /\ Len(w) = k /\ w[k].at = "fill"
  PROVE  HInv'
<1>1. /\ k \in Nat /\ k >= 1 /\ k \in 1 .. k /\ Top(t) = stack[t][k] /\ n \in Caches
      /\ LocksHeld(t) /\ t # NoThread /\ stack'[t] = w /\ Len(w) \in Nat /\ w # <<>>
  <2>1. Len(w) \in Nat /\ (w = <<>> => Len(w) = 0)
    BY EmptySeq, LenProperties
  <2> QED
    BY <2>1, Begun, Family DEF HInv, StackIs
<1>2. \A i \in 1 .. k : /\ i \in 1 .. Len(w) /\ w[i].n = stack[t][i].n
                        /\ Active(stack[t], i) => Active(w, i)
                        /\ i # k => (Holds(stack[t], i) => Holds(w, i))
  <2>1. \A i \in 1 .. Len(stack[t]) - 1 : /\ Holds(w, i) <=> Holds(stack[t], i)
                                          /\ Active(w, i) <=> Active(stack[t], i)
    <3>1. /\ Len(stack[t]) >= 1 /\ Len(w) >= Len(stack[t])
          /\ \A i \in 1 .. Len(stack[t]) - 1 : w[i] = stack[t][i]
          /\ IsAccess(w[Len(stack[t])]) <=> IsAccess(stack[t][Len(stack[t])])
      BY <1>1
    <3>2. stack[t] \in Seq(Frames)
      BY Begun
    <3> QED
      BY <3>1, <3>2, HoldsBelow
  <2>2. \A i \in 1 .. k : i \in 1 .. Len(w) /\ (i = k \/ i \in 1 .. k - 1)
    BY <1>1
  <2> QED
    BY <1>1, <2>1, <2>2
<1>3. \A m \in Caches : tcc'[m] = t =>
        m \notin Leaves /\ \E i \in 1 .. Len(w) : Active(w, i) /\ w[i].n = m
  <2>1. ASSUME NEW m \in Caches, tcc'[m] = t
        PROVE  m \notin Leaves /\ \E i \in 1 .. Len(w) : Active(w, i) /\ w[i].n = m
    <3>1. CASE tcc[m] = t
      BY <1>1, <1>2, <3>1 DEF LocksHeld
    <3>2. CASE tcc[m] # t
      BY <1>1, <1>2, <2>1, <3>2
    <3> QED
      BY <3>1, <3>2
  <2> QED
    BY <2>1
<1>4. \A m \in Caches : bcc'[m] = t => \E i \in 1 .. Len(w) : Holds(w, i) /\ w[i].n = m
  <2>1. ASSUME NEW m \in Caches, bcc'[m] = t
        PROVE  \E i \in 1 .. Len(w) : Holds(w, i) /\ w[i].n = m
    <3>1. CASE m = n /\ Holds(w, k)
      BY <1>1, <1>2, <3>1
    <3>2. CASE m # n \/ ~Holds(w, k)
      <4>1. bcc[m] = t /\ (m = n => ~Holds(stack[t], k))
        BY <2>1, <3>2
      <4>2. PICK i \in 1 .. k : Holds(stack[t], i) /\ stack[t][i].n = m
        BY <1>1, <4>1 DEF LocksHeld
      <4> QED
        BY <1>1, <1>2, <4>1, <4>2
    <3> QED
      BY <3>1, <3>2
  <2> QED
    BY <2>1
<1>5. \A m \in Leaves : flock'[m] = t => m = t /\ w # <<>> /\ w[Len(w)].at = "fill"
  BY <1>1 DEF LocksHeld
<1>6. LocksHeld(t)'
  <2>1. \A m \in Leaves : flock'[m] = t => m = t /\ Busy(t)' /\ Top(t)'.at = "fill"
    BY <1>1, <1>5 DEF Busy, Top
  <2> QED
    BY <1>1, <1>3, <1>4, <2>1 DEF LocksHeld, Active, Holds, IsAccess
<1>7. OnlyTo(t)
  <2>1. \A m \in Caches : bcc'[m] \in {bcc[m], t, NoThread}
    OBVIOUS
  <2> QED
    BY <2>1 DEF OnlyTo, StackIs
<1> QED
  BY <1>6, <1>7, OthersHeld

(* The last frame is replaced by one that holds its cache.                 *)
LEMMA HeldStays ==
  ASSUME IInv, HInv, NEW t \in Threads, Busy(t), IsAccess(Top(t)), Top(t).at # "fill",
         NEW g \in AccessFrames, g.n = Top(t).n, g.at \in {"evict", "insert", "dir", "end"},
         stack' = [stack EXCEPT ![t] = Frame(t, g)], UNCHANGED <<tcc, flock>>,
         \A m \in Caches \ {Top(t).n} : bcc'[m] = bcc[m], bcc'[Top(t).n] \in {bcc[Top(t).n], t}
  PROVE  HInv'
<1>1. PICK w \in Seq(Frames) : Replaced(stack[t], w, g) /\ StackIs(t, w)
  BY Replaces
<1>2. PICK k \in Nat : k = Len(stack[t]) /\ k >= 1
  BY Begun
<1>3. /\ w[k] = g /\ Len(w) = k /\ IsAccess(g) /\ \A i \in 1 .. k - 1 : w[i] = stack[t][i]
  BY <1>1, <1>2, Classes DEF Replaced
<1>4. Active(w, k) /\ Holds(w, k)
  BY <1>3 DEF Active, Holds
<1> QED
  BY <1>1, <1>2, <1>3, <1>4, HeldOnward

(* The cache is given up for a request to the parent.                      *)
LEMMA HeldSends ==
  ASSUME IInv, HInv, NEW t \in Threads, Busy(t), IsAccess(Top(t)), Top(t).at # "fill",
         NEW g \in AccessFrames, g.n = Top(t).n, g.at \in {"evict", "insert", "dir", "end"},
         NEW r \in AccessFrames,
         stack' = [stack EXCEPT ![t] = Append(Frame(t, g), r)], UNCHANGED <<tcc, flock>>,
         bcc' = [bcc EXCEPT ![Top(t).n] = NoThread]
  PROVE  HInv'
<1>1. PICK w \in Seq(Frames) : Pushed(stack[t], w, g, r) /\ StackIs(t, w)
  BY Sends
<1>2. PICK k \in Nat, n \in Caches : k = Len(stack[t]) /\ k >= 1 /\ n = Top(t).n
  BY Begun
<1>3. /\ w[k] = g /\ Len(w) = k + 1 /\ IsAccess(g) /\ \A i \in 1 .. k - 1 : w[i] = stack[t][i]
  BY <1>1, <1>2, Classes DEF Pushed
<1>4. Active(w, k)
  BY <1>3 DEF Active
<1>5. /\ bcc'[n] = NoThread /\ NoThread # t
      /\ \A m \in Caches \ {n} : bcc'[m] = bcc[m]
  BY <1>2, Family DEF IInv, Types
<1> QED
  BY <1>1, <1>2, <1>3, <1>4, <1>5, HeldOnward

LEMMA HeldSendUp ==
  ASSUME IInv, HInv, NEW t \in Threads, Busy(t), IsAccess(Top(t)), Top(t).at # "fill",
         NEW g \in AccessFrames, g.n = Top(t).n, g.at \in {"evict", "insert", "dir", "end"},
         NEW ty \in Gets \cup Puts, NEW a \in Addrs, NEW s \in States, NEW lines,
         SendUp(t, g, ty, a, s, lines), UNCHANGED <<tcc, flock>>
  PROVE  HInv'
<1>1. Top(t).n \in Caches /\ bcc \in [Caches -> Threads \cup {NoThread}]
  BY Begun DEF IInv, Types
<1>2. CASE g.n = Root
  <2>1. stack' = [stack EXCEPT ![t] = Frame(t, g)] /\ bcc' = [bcc EXCEPT ![Top(t).n] = t]
    BY <1>2 DEF SendUp
  <2>2. (\A m \in Caches \ {Top(t).n} : bcc'[m] = bcc[m]) /\ bcc'[Top(t).n] \in {bcc[Top(t).n], t}
    BY <1>1, <2>1
  <2> QED
    BY <2>1, <2>2, HeldStays
<1>3. CASE g.n # Root
  <2>1. PICK r \in AccessFrames : r = Request(Parent[g.n], ty, a, g.n, s)
    <3>1. Parent[g.n] \in Caches /\ g.n \in Caches
      BY <1>1, <1>3, Family
    <3> QED
      BY <3>1 DEF Request, AccessFrames
  <2>2. stack' = [stack EXCEPT ![t] = Append(Frame(t, g), r)] /\ bcc' = [bcc EXCEPT ![Top(t).n] = NoThread]
    BY <1>3, <2>1 DEF SendUp
  <2> QED
    BY <2>1, <2>2, HeldSends
<1> QED
  BY <1>2, <1>3

LEMMA HeldServe ==
  ASSUME IInv, HInv, NEW t \in Threads, Busy(t), IsAccess(Top(t)), Top(t).at # "fill",
         NEW f \in AccessFrames, f.n = Top(t).n,
         NEW lines \in [Addrs -> States], Serve(t, f, lines), UNCHANGED <<tcc, flock>>
  PROVE  HInv'
<1>1. PICK g \in AccessFrames :
        g = [f EXCEPT !.at = IF f.n \in Leaves THEN "end" ELSE "dir"] /\ g.n = f.n /\ g.at \in {"end", "dir"}
  BY MoveAccess
<1>2. /\ f.a \in Addrs /\ f.ty \in Gets \cup Puts /\ lines[f.a] \in States
      /\ Top(t).n \in Caches /\ bcc \in [Caches -> Threads \cup {NoThread}]
  BY FrameTypes, Begun DEF IInv, Types
<1>3. \/ SendUp(t, g, f.ty, f.a, lines[f.a], lines)
      \/ stack' = [stack EXCEPT ![t] = Frame(t, g)] /\ bcc' = [bcc EXCEPT ![f.n] = t]
  BY <1>1 DEF Serve
<1>4. CASE SendUp(t, g, f.ty, f.a, lines[f.a], lines)
  BY <1>1, <1>2, <1>4, HeldSendUp
<1>5. CASE stack' = [stack EXCEPT ![t] = Frame(t, g)] /\ bcc' = [bcc EXCEPT ![f.n] = t]
  <2>1. (\A m \in Caches \ {Top(t).n} : bcc'[m] = bcc[m]) /\ bcc'[Top(t).n] \in {bcc[Top(t).n], t}
    BY <1>2, <1>5
  <2> QED
    BY <1>1, <1>5, <2>1, HeldStays
<1> QED
  BY <1>3, <1>4, <1>5

LEMMA TakeTccHeld ==
  ASSUME IInv, HInv, NEW t \in Threads, TakeTcc(t)
  PROVE  HInv'
<1>1. /\ Busy(t) /\ IsAccess(Top(t)) /\ Top(t).at = "tcc" /\ Goto(t, "bcc")
      /\ tcc' = [tcc EXCEPT ![Top(t).n] = t] /\ UNCHANGED <<bcc, flock>>
  BY DEF TakeTcc, At
<1>2. PICK f \in AccessFrames, w \in Seq(Frames) :
           f.n = Top(t).n /\ f.at = "bcc" /\ Replaced(stack[t], w, f) /\ StackIs(t, w)
  BY <1>1, Moves
<1>3. PICK k \in Nat, n \in Caches :
        k = Len(stack[t]) /\ k >= 1 /\ n = Top(t).n /\ n \notin Leaves /\ Top(t) = stack[t][k]
  BY <1>1, Begun DEF FrameOK
<1>4. /\ w[k] = f /\ Len(w) = k /\ IsAccess(f) /\ \A i \in 1 .. k - 1 : w[i] = stack[t][i]
  BY <1>2, <1>3, Classes DEF Replaced
<1>5. Active(w, k) /\ ~Holds(stack[t], k)
  BY <1>1, <1>2, <1>3, <1>4 DEF Active, Holds
<1>6. \A m \in Caches : tcc'[m] = tcc[m] \/ (tcc'[m] = t /\ m = n)
  BY <1>1, <1>3 DEF IInv, Types
<1> QED
  BY <1>1, <1>2, <1>3, <1>4, <1>5, <1>6, HeldOnward

LEMMA HeldInsert ==
  ASSUME IInv, HInv, NEW t \in Threads, Busy(t), IsAccess(Top(t)), Top(t).at # "fill",
         NEW f \in AccessFrames, f.n = Top(t).n, Insert(t, f), UNCHANGED <<tcc, flock>>
  PROVE  HInv'
<1>1. PICK lines \in [Addrs -> States] : Serve(t, f, lines)
  <2>1. st[f.n] \in [Addrs -> States]
    BY FrameTypes DEF IInv, Types
  <2>2. [a \in Addrs |-> IF a = f.a THEN "I" ELSE IF a = f.v THEN "none" ELSE st[f.n][a]]
          \in [Addrs -> States]
    BY <2>1 DEF States
  <2> QED
    BY <2>2 DEF Insert
<1> QED
  BY <1>1, HeldServe

LEMMA LookupHeld ==
  ASSUME IInv, HInv, NEW t \in Threads, Lookup(t)
  PROVE  HInv'
<1>1. PICK e \in AccessFrames : e = Top(t) /\ Busy(t) /\ IsAccess(e) /\ e.at = "bcc"
  BY Begun, Classes DEF Lookup, At
<1>2. PICK n \in Caches : n = e.n /\ bcc \in [Caches -> Threads \cup {NoThread}]
                          /\ st[n] \in [Addrs -> States]
  BY FrameTypes DEF IInv, Types
<1>3. ~aborted' /\ UNCHANGED <<tcc, flock>>
  BY LookupKeeps DEF IInv, Lookup
<1>4. PICK race \in Gets \cup Puts \cup {"skip", "panic"} : race = AfterRace(e)
  <2>1. e.ty \in Gets \cup Puts
    BY FrameTypes
  <2> QED
    BY <2>1 DEF AfterRace, Gets, Puts
<1> DEFINE f == [e EXCEPT !.ty = race]
<1>5. f.n = n /\ (race \in Gets \cup Puts => f \in AccessFrames)
  BY <1>2 DEF AccessFrames
<1>6. \/ Panic
      \/ Goto(t, "end") /\ bcc' = [bcc EXCEPT ![n] = t]
      \/ race \in Gets \cup Puts /\ Serve(t, f, st[n])
      \/ race \in Gets /\ Insert(t, f)
      \/ /\ race \in Gets /\ bcc' = [bcc EXCEPT ![n] = t]
         /\ \E v \in Tagged(n) :
              stack' = [stack EXCEPT ![t] = Frame(t, [f EXCEPT !.at = "evict", !.v = v])]
  <2>1. Victims(n) \subseteq {NoAddr} \cup Tagged(n)
    BY DEF Victims
  <2>2. \/ Panic
        \/ Goto(t, "end") /\ bcc' = [bcc EXCEPT ![n] = t]
        \/ race \in Gets \cup Puts /\ Serve(t, f, st[n])
        \/ /\ race \in Gets
           /\ \E v \in Victims(n) :
                IF v = NoAddr THEN Insert(t, f)
                ELSE /\ stack' = [stack EXCEPT ![t] = Frame(t, [f EXCEPT !.at = "evict", !.v = v])]
                     /\ bcc' = [bcc EXCEPT ![n] = t]
    BY <1>1, <1>4, <1>5 DEF Lookup
  <2> QED
    BY <2>1, <2>2
<1>7. ASSUME bcc' = [bcc EXCEPT ![n] = t]
      PROVE  (\A m \in Caches \ {n} : bcc'[m] = bcc[m]) /\ bcc'[n] \in {bcc[n], t}
  BY <1>2, <1>7
<1>8. CASE Panic
  BY <1>3, <1>8 DEF Panic
<1>9. CASE Goto(t, "end") /\ bcc' = [bcc EXCEPT ![n] = t]
  <2>1. PICK g \in AccessFrames : g = [e EXCEPT !.at = "end"] /\ g.n = n /\ g.at = "end"
    <3>1. /\ [e EXCEPT !.at = "end"] \in AccessFrames
          /\ [e EXCEPT !.at = "end"].n = e.n /\ [e EXCEPT !.at = "end"].at = "end"
      BY DEF AccessFrames
    <3> QED
      BY <1>2, <3>1
  <2>2. stack' = [stack EXCEPT ![t] = Frame(t, g)]
    BY <1>1, <1>9, <2>1, MoveIsFrame
  <2> QED
    BY <1>1, <1>2, <1>3, <1>7, <1>9, <2>1, <2>2, HeldStays
<1>10. CASE race \in Gets \cup Puts /\ Serve(t, f, st[n])
  BY <1>1, <1>2, <1>3, <1>5, <1>10, HeldServe
<1>11. CASE race \in Gets /\ Insert(t, f)
  BY <1>1, <1>2, <1>3, <1>5, <1>11, HeldInsert
<1>12. CASE /\ race \in Gets /\ bcc' = [bcc EXCEPT ![n] = t]
            /\ \E v \in Tagged(n) :
                 stack' = [stack EXCEPT ![t] = Frame(t, [f EXCEPT !.at = "evict", !.v = v])]
  <2>1. PICK v \in Addrs : stack' = [stack EXCEPT ![t] = Frame(t, [f EXCEPT !.at = "evict", !.v = v])]
    BY <1>12 DEF Tagged
  <2>2. PICK g \in AccessFrames :
          g = [f EXCEPT !.at = "evict", !.v = v] /\ g.n = n /\ g.at = "evict"
    <3>1. PICK h \in AccessFrames : h = f
      BY <1>5, <1>12
    <3>2. /\ [h EXCEPT !.at = "evict", !.v = v] \in AccessFrames
          /\ [h EXCEPT !.at = "evict", !.v = v].n = h.n
          /\ [h EXCEPT !.at = "evict", !.v = v].at = "evict"
      BY DEF AccessFrames
    <3> QED
      BY <1>5, <3>1, <3>2
  <2> QED
    BY <1>1, <1>2, <1>3, <1>7, <1>12, <2>1, <2>2, HeldStays
<1> QED
  BY <1>6, <1>8, <1>9, <1>10, <1>11, <1>12

(* A call of an invalidation leaves the locks alone.                       *)
LEMMA HeldCalls ==
  ASSUME IInv, HInv, NEW t \in Threads, Busy(t), Holds(stack[t], Len(stack[t])),
         Top(t).at \in {"evict", "dir", "down"}, NEW c \in Caches, NEW ty \in {"INV", "INVX"},
         NEW a \in Addrs, SendInval(t, c, ty, a), UNCHANGED <<tcc, bcc, flock>>
  PROVE  HInv'
<1>1. PICK g \in InvFrames, w \in Seq(Frames) : Pushed(stack[t], w, Top(t), g) /\ StackIs(t, w)
  BY Calls
<1>2. PICK k \in Nat, n \in Caches :
        k = Len(stack[t]) /\ k >= 1 /\ n = Top(t).n /\ Top(t) = stack[t][k]
  BY Begun
<1>3. /\ w[k] = Top(t) /\ Len(w) = k + 1 /\ w[k + 1] = g /\ ~IsAccess(g)
      /\ \A i \in 1 .. k - 1 : w[i] = stack[t][i]
  BY <1>1, <1>2, Classes DEF Pushed
<1>4. Holds(w, k) /\ (Active(stack[t], k) => Active(w, k))
  BY <1>2, <1>3 DEF Holds, Active
<1> QED
  BY <1>1, <1>2, <1>3, <1>4, HeldOnward

LEMMA SendingHeld ==
  ASSUME IInv, HInv, NEW t \in Threads, EvictInval(t) \/ DirInval(t) \/ InvDown(t)
  PROVE  HInv'
<1>1. PICK f \in Frames : f = Top(t) /\ Busy(t) /\ f = stack[t][Len(stack[t])] /\ f.n \in Caches
                          /\ f.a \in Addrs /\ FrameOK(f)
  BY Begun DEF EvictInval, DirInval, InvDown, At, InvAt
<1>2. UNCHANGED <<tcc, bcc, flock>>
  BY DEF EvictInval, DirInval, InvDown
<1>3. /\ f.at \in {"evict", "dir", "down"} /\ (IsAccess(f) <=> f.at # "down")
      /\ f.at = "evict" => f.v \in Addrs
  BY <1>1 DEF EvictInval, DirInval, InvDown, At, InvAt, FrameOK
<1>4. Holds(stack[t], Len(stack[t]))
  <2>1. ~(Len(stack[t]) < Len(stack[t]))
    BY <1>1, Begun
  <2> QED
    BY <1>1, <1>3, <2>1 DEF Holds
<1>5. \E c \in Caches, ty \in {"INV", "INVX"}, a \in Addrs : SendInval(t, c, ty, a)
  <2>1. \A a \in Addrs : dir[f.n][a].sh \subseteq Caches
    BY <1>1 DEF IInv, Types, Entries
  <2>2. CASE EvictInval(t)
    <3>1. f.v \in Addrs /\ \E c \in dir[f.n][f.v].sh : SendInval(t, c, "INV", f.v)
      BY <1>1, <1>3, <2>2 DEF EvictInval, At
    <3> QED
      BY <2>1, <3>1
  <2>3. CASE DirInval(t)
    <3>1. \E c \in Conflicts(f) : SendInval(t, c, IF f.ty = "GETX" THEN "INV" ELSE "INVX", f.a)
      BY <1>1, <2>3 DEF DirInval
    <3>2. Conflicts(f) \subseteq Caches
      BY <1>1, <2>1 DEF Conflicts
    <3> QED
      BY <1>1, <3>1, <3>2
  <2>4. CASE InvDown(t)
    <3>1. \E c \in Targets(f) : SendInval(t, c, f.ty, f.a)
      BY <1>1, <2>4 DEF InvDown
    <3>2. Targets(f) \subseteq Caches
      BY <1>1, <2>1 DEF Targets
    <3>3. f.ty \in {"INV", "INVX"}
      BY <1>1, <2>4, Classes, FrameTypes DEF InvDown, InvAt
    <3> QED
      BY <1>1, <3>1, <3>2, <3>3
  <2> QED
    BY <2>2, <2>3, <2>4
<1> QED
  BY <1>1, <1>2, <1>3, <1>4, <1>5, HeldCalls

LEMMA EvictWriteHeld ==
  ASSUME IInv, HInv, NEW t \in Threads, EvictWrite(t)
  PROVE  HInv'
<1>1. PICK f \in AccessFrames : f = Top(t) /\ Busy(t) /\ IsAccess(f) /\ f.at = "evict" /\ FrameOK(f)
  BY Begun, Classes DEF EvictWrite, At
<1>2. PICK s \in States : s = IF wb[t] = NoAddr THEN st[f.n][f.v] ELSE "M"
  <2>1. f.v \in Addrs /\ f.n \in Caches
    BY <1>1, FrameTypes DEF FrameOK
  <2>2. st[f.n][f.v] \in States /\ "M" \in States
    BY <2>1 DEF IInv, Types, States
  <2> QED
    BY <2>2
<1>3. PICK g \in AccessFrames : g = [f EXCEPT !.at = "insert"] /\ g.n = f.n /\ g.at = "insert"
  <2>1. /\ [f EXCEPT !.at = "insert"] \in AccessFrames
        /\ [f EXCEPT !.at = "insert"].n = f.n /\ [f EXCEPT !.at = "insert"].at = "insert"
    BY DEF AccessFrames
  <2> QED
    BY <2>1
<1>4. PICK ty \in Gets \cup Puts : ty = IF s = "M" THEN "PUTX" ELSE "PUTS"
  BY DEF Puts
<1>5. /\ UNCHANGED <<tcc, flock>>
      /\ \/ SendUp(t, g, ty, f.v, s, st[f.n])
         \/ stack' = [stack EXCEPT ![t] = Frame(t, g)] /\ UNCHANGED bcc
  BY <1>1, <1>2, <1>3, <1>4 DEF EvictWrite
<1>6. f.v \in Addrs
  BY <1>1 DEF FrameOK
<1>7. CASE SendUp(t, g, ty, f.v, s, st[f.n])
  BY <1>1, <1>3, <1>5, <1>6, <1>7, HeldSendUp
<1>8. CASE stack' = [stack EXCEPT ![t] = Frame(t, g)] /\ UNCHANGED bcc
  BY <1>1, <1>3, <1>5, <1>8, HeldStays
<1> QED
  BY <1>5, <1>7, <1>8

LEMMA RefillHeld ==
  ASSUME IInv, HInv, NEW t \in Threads, Refill(t)
  PROVE  HInv'
<1>1. PICK f \in AccessFrames : f = Top(t) /\ Busy(t) /\ IsAccess(f) /\ f.at = "insert"
  BY Begun, Classes DEF Refill, At
<1>2. ~aborted' /\ UNCHANGED <<tcc, flock>>
  BY RefillKeeps DEF IInv, Refill
<1>3. Insert(t, f)
  BY <1>1, <1>2 DEF Refill, Panic
<1> QED
  BY <1>1, <1>2, <1>3, HeldInsert

LEMMA ServingHeld ==
  ASSUME IInv, HInv, NEW t \in Threads, DirPut(t) \/ DirGrant(t)
  PROVE  HInv'
<1>1. PICK f \in AccessFrames : f = Top(t) /\ Busy(t) /\ IsAccess(f) /\ f.at = "dir"
  BY Begun, Classes DEF DirPut, DirGrant, At
<1>2. Goto(t, "end") /\ UNCHANGED <<tcc, bcc, flock>>
  BY DEF DirPut, DirGrant
<1>3. PICK g \in AccessFrames : g = [f EXCEPT !.at = "end"] /\ g.n = f.n /\ g.at = "end"
  <2>1. /\ [f EXCEPT !.at = "end"] \in AccessFrames
        /\ [f EXCEPT !.at = "end"].n = f.n /\ [f EXCEPT !.at = "end"].at = "end"
    BY DEF AccessFrames
  <2> QED
    BY <2>1
<1>4. stack' = [stack EXCEPT ![t] = Frame(t, g)]
  BY <1>1, <1>2, <1>3, MoveIsFrame
<1> QED
  BY <1>1, <1>2, <1>3, <1>4, HeldStays

LEMMA InvLockHeld ==
  ASSUME IInv, HInv, NEW t \in Threads, InvLock(t)
  PROVE  HInv'
<1>1. /\ Busy(t) /\ ~IsAccess(Top(t)) /\ Top(t).at = "lock" /\ Goto(t, "down")
      /\ bcc' = [bcc EXCEPT ![Top(t).n] = t] /\ UNCHANGED <<tcc, flock>>
  BY DEF InvLock, InvAt
<1>2. PICK f \in InvFrames, w \in Seq(Frames) :
        f.n = Top(t).n /\ f.at = "down" /\ Replaced(stack[t], w, f) /\ StackIs(t, w)
  BY <1>1, MovesInv
<1>3. PICK k \in Nat, n \in Caches :
        k = Len(stack[t]) /\ k >= 1 /\ n = Top(t).n /\ Top(t) = stack[t][k]
  BY <1>1, Begun
<1>4. /\ w[k] = f /\ Len(w) = k /\ ~IsAccess(f) /\ \A i \in 1 .. k - 1 : w[i] = stack[t][i]
  BY <1>2, <1>3, Classes DEF Replaced
<1>5. Holds(w, k) /\ ~Active(stack[t], k)
  BY <1>1, <1>2, <1>3, <1>4 DEF Active, Holds
<1>6. (\A m \in Caches \ {n} : bcc'[m] = bcc[m]) /\ bcc'[n] = t
  BY <1>1, <1>3 DEF IInv, Types
<1> QED
  BY <1>1, <1>2, <1>3, <1>4, <1>5, <1>6, HeldOnward

LEMMA EndLeafHeld ==
  ASSUME IInv, HInv, NEW t \in Threads, End(t), Top(t).ch = Mem
  PROVE  HInv'
<1>1. /\ Busy(t) /\ IsAccess(Top(t)) /\ Top(t).at = "end" /\ Goto(t, "fill") /\ UNCHANGED tcc
      /\ flock' = [flock EXCEPT ![Top(t).n] = t] /\ bcc' = [bcc EXCEPT ![Top(t).n] = NoThread]
  BY DEF End, At
<1>2. Top(t).n \in Leaves
  BY <1>1, Begun DEF FrameOK
<1>3. Top(t).n = t
  BY <1>1, <1>2, OwnAccess
<1>4. PICK f \in AccessFrames, w \in Seq(Frames) :
           f.n = Top(t).n /\ f.at = "fill" /\ Replaced(stack[t], w, f) /\ StackIs(t, w)
  BY <1>1, Moves
<1>5. PICK k \in Nat, n \in Caches :
        k = Len(stack[t]) /\ k >= 1 /\ n = Top(t).n /\ Top(t) = stack[t][k]
  BY <1>1, Begun
<1>6. /\ w[k] = f /\ Len(w) = k /\ IsAccess(f) /\ \A i \in 1 .. k - 1 : w[i] = stack[t][i]
  BY <1>4, <1>5, Classes DEF Replaced
<1>7. Active(w, k)
  BY <1>4, <1>6 DEF Active
<1>8. /\ \A m \in Caches \ {n} : bcc'[m] = bcc[m]
      /\ bcc'[n] = NoThread /\ NoThread # t
      /\ \A m \in Leaves : flock'[m] = flock[m] \/ (flock'[m] = t /\ m = t)
  BY <1>1, <1>3, <1>5, Family DEF IInv, Types
<1> QED
  BY <1>1, <1>4, <1>5, <1>6, <1>7, <1>8, HeldOnward

(* A call returns: the frame below holds its cache again, or still does.   *)
LEMMA HeldReturns ==
  ASSUME IInv, HInv, NEW t \in Threads, Busy(t), NEW k \in Nat, k = Len(stack[t]), k > 1,
         NEW w \in Seq(Frames), Popped(stack[t], w), StackIs(t, w), Holds(w, k - 1),
         Top(t).at # "fill", UNCHANGED flock,
         Active(stack[t], k) => tcc'[Top(t).n] # t,
         \A m \in Caches : tcc'[m] \in {tcc[m], NoThread},
         \A m \in Caches : bcc'[m] \in {bcc[m], t, NoThread},
         \A m \in Caches : bcc'[m] = t =>
           \/ m = stack[t][k - 1].n
           \/ bcc[m] = t /\ (Holds(stack[t], k) => Top(t).n # m)
  PROVE  HInv'
<1>1. /\ Top(t) = stack[t][k] /\ LocksHeld(t) /\ t # NoThread /\ stack'[t] = w
      /\ Len(w) = k - 1 /\ k - 1 \in 1 .. Len(w)
      /\ \A i \in 1 .. k : /\ i = k \/ (i \in 1 .. Len(w) /\ w[i] = stack[t][i])
                           /\ i = k \/ i = k - 1 \/ (i < Len(w) /\ i < k /\ w[i + 1] = stack[t][i + 1])
  <2>1. Top(t) = stack[t][k] /\ LocksHeld(t) /\ t # NoThread /\ stack'[t] = w
    BY Begun, Family DEF HInv, StackIs
  <2>2. Len(w) = k - 1 /\ \A i \in 1 .. k - 1 : w[i] = stack[t][i]
    BY DEF Popped
  <2>3. k - 1 \in 1 .. Len(w) /\ \A i \in 1 .. k : i = k \/ i \in 1 .. k - 1
    BY <2>2
  <2>4. \A i \in 1 .. k : i = k \/ i = k - 1 \/ (i < Len(w) /\ i < k /\ i + 1 \in 1 .. k - 1)
    BY <2>2
  <2> QED
    BY <2>1, <2>2, <2>3, <2>4
<1>2. ASSUME NEW m \in Caches, tcc'[m] = t
      PROVE  m \notin Leaves /\ \E i \in 1 .. Len(w) : Active(w, i) /\ w[i].n = m
  <2>1. tcc[m] = t
    BY <1>1, <1>2
  <2>2. PICK i \in 1 .. k : Active(stack[t], i) /\ stack[t][i].n = m /\ m \notin Leaves
    BY <1>1, <2>1 DEF LocksHeld
  <2>3. i # k
    BY <1>1, <1>2, <2>2
  <2> QED
    BY <1>1, <2>2, <2>3 DEF Active
<1>3. ASSUME NEW m \in Caches, bcc'[m] = t
      PROVE  \E i \in 1 .. Len(w) : Holds(w, i) /\ w[i].n = m
  <2>1. CASE m = stack[t][k - 1].n
    BY <1>1, <2>1
  <2>2. CASE m # stack[t][k - 1].n
    <3>1. bcc[m] = t /\ (Holds(stack[t], k) => Top(t).n # m)
      BY <1>3, <2>2
    <3>2. PICK i \in 1 .. k : Holds(stack[t], i) /\ stack[t][i].n = m
      BY <1>1, <3>1 DEF LocksHeld
    <3>3. i # k /\ i # k - 1
      BY <1>1, <2>2, <3>1, <3>2
    <3>4. /\ i \in 1 .. Len(w) /\ w[i] = stack[t][i] /\ i < Len(w) /\ i < k
          /\ w[i + 1] = stack[t][i + 1]
      BY <1>1, <3>3
    <3> QED
      BY <3>2, <3>4 DEF Holds
  <2> QED
    BY <2>1, <2>2
<1>4. \A m \in Leaves : flock'[m] # t
  BY <1>1 DEF LocksHeld
<1>5. LocksHeld(t)'
  BY <1>1, <1>2, <1>3, <1>4 DEF LocksHeld, Active, Holds, IsAccess
<1>6. OnlyTo(t)
  BY DEF OnlyTo, StackIs
<1> QED
  BY <1>5, <1>6, OthersHeld

LEMMA EndAboveHeld ==
  ASSUME IInv, HInv, NEW t \in Threads, End(t), Top(t).ch # Mem
  PROVE  HInv'
<1>1. /\ Busy(t) /\ IsAccess(Top(t)) /\ Top(t).at = "end" /\ UNCHANGED flock
      /\ stack' = [stack EXCEPT ![t] = Pop(@)]
      /\ bcc' = [bcc EXCEPT ![Top(t).ch] = t, ![Top(t).n] = NoThread]
      /\ tcc' = [tcc EXCEPT ![Top(t).n] = NoThread]
  BY DEF End, At
<1>2. PICK k \in Nat, n \in Caches : /\ k = Len(stack[t]) /\ k >= 1 /\ n = Top(t).n
                                     /\ Top(t) = stack[t][k] /\ k \in 1 .. k
  BY <1>1, Begun
<1>3. n \notin Leaves
  BY <1>1, <1>2, Begun DEF FrameOK
<1>4. k > 1
  BY <1>2, <1>3, Begun, <1>1
<1>5. /\ IsAccess(stack[t][k - 1]) /\ stack[t][k - 1].at \in {"insert", "dir", "end"}
      /\ Top(t).ch = stack[t][k - 1].n /\ stack[t][k - 1].n \in Caches
  BY <1>1, <1>2, <1>4, Begun, Callers
<1>6. PICK w \in Seq(Frames) : Popped(stack[t], w) /\ StackIs(t, w)
  BY <1>1, Returns
<1>7. Len(w) = k - 1 /\ w[k - 1] = stack[t][k - 1]
  BY <1>2, <1>4, <1>6 DEF Popped
<1>8. Holds(w, k - 1)
  BY <1>2, <1>5, <1>7 DEF Holds
<1>9. /\ tcc'[n] # t /\ \A m \in Caches : tcc'[m] \in {tcc[m], NoThread}
      /\ \A m \in Caches : bcc'[m] \in {bcc[m], t, NoThread}
      /\ \A m \in Caches : bcc'[m] = t => m = Top(t).ch \/ (bcc[m] = t /\ n # m)
  BY <1>1, <1>2, Family DEF IInv, Types
<1>10. \A m \in Caches : bcc'[m] = t =>
         \/ m = stack[t][k - 1].n
         \/ bcc[m] = t /\ (Holds(stack[t], k) => Top(t).n # m)
  BY <1>2, <1>5, <1>9
<1>11. tcc'[Top(t).n] # t
  BY <1>2, <1>9
<1> QED
  BY <1>1, <1>2, <1>4, <1>6, <1>8, <1>9, <1>10, <1>11, HeldReturns

LEMMA InvFinishHeld ==
  ASSUME IInv, HInv, NEW t \in Threads, InvFinish(t)
  PROVE  HInv'
<1>1. /\ Busy(t) /\ ~IsAccess(Top(t)) /\ Top(t).at = "down" /\ UNCHANGED <<tcc, flock>>
      /\ stack' = [stack EXCEPT ![t] = Pop(@)]
      /\ bcc' = [bcc EXCEPT ![Top(t).n] = NoThread]
  BY DEF InvFinish, InvAt
<1>2. PICK k \in Nat, n \in Caches : /\ k = Len(stack[t]) /\ k >= 1 /\ n = Top(t).n
                                     /\ Top(t) = stack[t][k] /\ k \in 1 .. k
  BY <1>1, Begun
<1>3. k > 1
  BY <1>1, <1>2, Begun
<1>4. Holds(stack[t], k - 1)
  BY <1>1, <1>2, <1>3, Begun, Callers
<1>5. PICK w \in Seq(Frames) : Popped(stack[t], w) /\ StackIs(t, w)
  BY <1>1, Returns
<1>6. Len(w) = k - 1 /\ w[k - 1] = stack[t][k - 1]
  BY <1>2, <1>3, <1>5 DEF Popped
<1>7. Holds(w, k - 1)
  BY <1>2, <1>4, <1>6 DEF Holds
<1>8. ~Active(stack[t], k)
  BY <1>1, <1>2 DEF Active
<1>9. /\ \A m \in Caches : bcc'[m] \in {bcc[m], t, NoThread}
      /\ \A m \in Caches : bcc'[m] = t => bcc[m] = t /\ n # m
  BY <1>1, <1>2, Family DEF IInv, Types
<1> QED
  BY <1>1, <1>2, <1>3, <1>5, <1>7, <1>8, <1>9, HeldReturns

LEMMA FillHeld ==
  ASSUME IInv, HInv, NEW t \in Threads, Fill(t)
  PROVE  HInv'
<1>1. /\ Busy(t) /\ IsAccess(Top(t)) /\ Top(t).at = "fill" /\ UNCHANGED <<tcc, bcc>>
      /\ stack' = [stack EXCEPT ![t] = Pop(@)] /\ flock' = [flock EXCEPT ![t] = NoThread]
  BY DEF Fill, At
<1>2. Top(t).n \in Leaves
  BY <1>1, Begun DEF FrameOK
<1>3. Top(t).n = t /\ Len(stack[t]) = 1 /\ Top(t) = stack[t][1]
  BY <1>1, <1>2, OwnAccess
<1>4. ~Holds(stack[t], 1) /\ LocksHeld(t)
  BY <1>1, <1>3 DEF Holds, HInv
<1>5. \A m \in Caches : tcc[m] # t /\ bcc[m] # t
  <2>1. \A i \in 1 .. Len(stack[t]) : i = 1
    BY <1>3
  <2> QED
    BY <1>2, <1>3, <1>4, <2>1 DEF LocksHeld
<1>6. \A m \in Leaves : flock'[m] # t /\ flock'[m] \in {flock[m], NoThread}
  BY <1>1, <1>4, Family DEF LocksHeld, IInv, Types
<1>7. PICK w \in Seq(Frames) : StackIs(t, w)
  BY <1>1, Returns
<1>8. LocksHeld(t)' /\ OnlyTo(t)
  BY <1>1, <1>5, <1>6, <1>7 DEF LocksHeld, OnlyTo, StackIs
<1> QED
  BY <1>8, OthersHeld

LEMMA IssueHeld ==
  ASSUME IInv, HInv, NEW t \in Threads, NEW ty \in Gets, NEW a \in Addrs, Issue(t, ty, a)
  PROVE  HInv'
<1>1. ~Busy(t) /\ UNCHANGED <<tcc, bcc, flock>> /\ \A u \in Threads \ {t} : stack'[u] = stack[u]
  BY DEF Issue, IInv, Types
<1>2. \A i : i \notin 1 .. Len(stack[t])
  <2>1. Len(stack[t]) = 0
    BY <1>1, EmptySeq DEF Busy
  <2> QED
    BY <2>1
<1>3. /\ \A m \in Caches : tcc[m] # t /\ bcc[m] # t
      /\ \A m \in Leaves : flock[m] # t
  BY <1>1, <1>2 DEF HInv, LocksHeld
<1>4. LocksHeld(t)' /\ OnlyTo(t)
  BY <1>1, <1>3 DEF LocksHeld, OnlyTo
<1> QED
  BY <1>4, OthersHeld

LEMMA QuietHeld ==
  ASSUME HInv, UNCHANGED <<stack, tcc, bcc, flock>>
  PROVE  HInv'
BY DEF HInv, LocksHeld, Active, Holds, IsAccess, Busy, Top

LEMMA HeldKept == IInv /\ HInv /\ [Next]_vars => HInv'
<1> SUFFICES ASSUME IInv, HInv, [Next]_vars PROVE HInv'
  OBVIOUS
<1>1. ASSUME NEW t \in Threads, NEW ty \in Gets, NEW a \in Addrs, Issue(t, ty, a) PROVE HInv'
  BY <1>1, IssueHeld
<1>2. ASSUME NEW t \in Threads, ContextSwitch(t) PROVE HInv'
  BY <1>2, QuietHeld DEF ContextSwitch
<1>3. ASSUME NEW t \in Threads, Step(t) PROVE HInv'
  <2>1. CASE TakeTcc(t)  BY <2>1, TakeTccHeld
  <2>2. CASE Lookup(t)  BY <2>2, LookupHeld
  <2>3. CASE EvictInval(t) \/ DirInval(t) \/ InvDown(t)  BY <2>3, SendingHeld
  <2>4. CASE EvictWrite(t)  BY <2>4, EvictWriteHeld
  <2>5. CASE Refill(t)  BY <2>5, RefillHeld
  <2>6. CASE DirPut(t) \/ DirGrant(t)  BY <2>6, ServingHeld
  <2>7. CASE End(t)  BY <2>7, EndLeafHeld, EndAboveHeld
  <2>8. CASE Fill(t)  BY <2>8, FillHeld
  <2>9. CASE InvLock(t)  BY <2>9, InvLockHeld
  <2>10. CASE InvFinish(t)  BY <2>10, InvFinishHeld
  <2> QED
    BY <1>3, <2>1, <2>2, <2>3, <2>4, <2>5, <2>6, <2>7, <2>8, <2>9, <2>10 DEF Step
<1>4. ASSUME UNCHANGED vars PROVE HInv'
  BY <1>4, QuietHeld DEF vars
<1> QED
  BY <1>1, <1>2, <1>3, <1>4 DEF Next

LEMMA HeldInit == Init => HInv
<1> SUFFICES ASSUME Init PROVE HInv
  OBVIOUS
<1>1. /\ \A n \in Caches : tcc[n] = NoThread /\ bcc[n] = NoThread
      /\ \A n \in Leaves : flock[n] = NoThread
  BY DEF Init
<1> QED
  BY <1>1, Family DEF HInv, LocksHeld

(* Every set of finite sets has a minimal one, and every set of numbers a  *)
(* least one.                                                              *)
LEMMA MinimalSet ==
  ASSUME NEW X, NEW T \in SUBSET FiniteSubsetsOf(X), T # {}
  PROVE  \E x \in T : \A y \in T : y \subseteq x => y = x
<1> DEFINE R == StrictSubsetOrdering(X)
<1>1. PICK x \in T : \A y \in T : ~ (<<y, x>> \in R)
  BY WFMin, FS_StrictSubsetOrderingWellFounded, Zenon
<1>2. ASSUME NEW y \in T, y \subseteq x, y # x PROVE FALSE
  <2>1. <<y, x>> \in R
    BY <1>2, Zenon DEF StrictSubsetOrdering, FiniteSubsetsOf
  <2> QED
    BY <1>1, <2>1
<1> QED
  BY <1>2

UpTo(n) == 0 .. n
LEMMA LeastNumber ==
  ASSUME NEW S \in SUBSET Nat, S # {}
  PROVE  \E m \in S : \A k \in S : m <= k
<1> DEFINE T == {UpTo(n) : n \in S}
<1>1. T \in SUBSET FiniteSubsetsOf(Nat) /\ T # {}
  <2>1. \A n \in Nat : IsFiniteSet(UpTo(n)) /\ UpTo(n) \subseteq Nat
    BY FS_Interval DEF UpTo
  <2> QED
    BY <2>1 DEF FiniteSubsetsOf
<1>2. \E x \in T : \A y \in T : y \subseteq x => y = x
  <2> HIDE DEF T
  <2> QED
    BY <1>1, MinimalSet
<1>3. PICK m \in S : \A k \in S : UpTo(k) \subseteq UpTo(m) => UpTo(k) = UpTo(m)
  BY <1>2
<1>4. ASSUME NEW k \in S, k < m PROVE FALSE
  <2>1. UpTo(k) \subseteq UpTo(m) /\ UpTo(k) # UpTo(m)
    BY <1>4 DEF UpTo
  <2> QED
    BY <1>3, <2>1
<1> QED
  BY <1>4

(* No cache is above itself.                                               *)
LEMMA UpStrict ==
  ASSUME NEW c \in Caches \ {Root}
  PROVE  c \notin Up(Parent[c]) /\ Up(Parent[c]) \subseteq Up(c)
<1>1. Parent[c] \in Caches
  BY Family
<1>2. Up(Parent[c]) \subseteq Up(c)
  <2>1. Parent[c] \in Up(c) /\ Closed(Up(c)) /\ Up(c) \in SUBSET Caches
    BY UpProperties DEF Closed, Up
  <2> QED
    BY <1>1, <2>1, UpProperties
<1>3. SUFFICES ASSUME c \in Up(Parent[c]) PROVE FALSE
  BY <1>2
<1>4. PICK X \in SUBSET (Caches \ {Root}) : X = {d \in Caches \ {Root} : c \in Up(d)}
  OBVIOUS
<1>5. c \in X
  BY <1>4, UpProperties
<1>6. PICK d \in X : Parent[d] \notin X
  BY <1>5, CoherenceAssumption
<1>7. d \in Caches \ {Root} /\ c \in Up(d) /\ Parent[d] \in Caches
  BY <1>4, <1>6, Family
<1>8. c \in Up(Parent[d])
  <2>1. CASE c = d
    BY <1>3, <2>1
  <2>2. CASE c # d
    <3>1. Parent[d] \in Up(Parent[d]) /\ Closed(Up(Parent[d])) /\ Up(Parent[d]) \in SUBSET Caches
      BY <1>7, UpProperties DEF Up
    <3>2. PICK Y \in SUBSET Caches : Y = Up(Parent[d]) \cup {d}
      BY <1>7, <3>1
    <3>3. d \in Y /\ Closed(Y)
      BY <3>1, <3>2 DEF Closed
    <3>4. c \in Y
      BY <1>7, <3>3 DEF Up
    <3> QED
      BY <2>2, <3>2, <3>4
  <2> QED
    BY <2>1, <2>2
<1>9. Parent[d] = Root
  BY <1>4, <1>6, <1>7, <1>8
<1>10. Closed({Root}) /\ Root \in Caches
  BY Family DEF Closed
<1>11. c = Root
  BY <1>8, <1>9, <1>10 DEF Up
<1> QED
  BY <1>11

(* The caches of consecutive accesses go up the tree, those of consecutive *)
(* invalidations go down.                                                  *)
LEMMA Climbs ==
  ASSUME NEW s \in Seq(Frames), Shape(s), NEW i \in 1 .. Len(s), NEW j \in 1 .. Len(s), i < j
  PROVE  /\ IsAccess(s[j]) => s[i].n # Root /\ s[j].n \in Up(Parent[s[i].n])
         /\ ~IsAccess(s[i + 1]) => s[j].n # Root /\ s[i].n \in Up(Parent[s[j].n])
<1> DEFINE Good(k) == /\ IsAccess(s[k]) => s[i].n # Root /\ s[k].n \in Up(Parent[s[i].n])
                      /\ ~IsAccess(s[i + 1]) => s[k].n # Root /\ s[i].n \in Up(Parent[s[k].n])
<1>1. /\ Len(s) \in Nat /\ i + 1 \in 1 .. Len(s)
      /\ \A k \in 1 .. Len(s) : s[k].n \in Caches
  BY LenProperties, ElementOfSeq, FrameTypes, Classes
<1>2. \A k, l \in 1 .. Len(s) : k < l /\ IsAccess(s[l]) => IsAccess(s[k])
  BY DEF Shape
<1>3. \A k \in 1 .. Len(s) : k > 1 =>
        /\ k - 1 \in 1 .. Len(s)
        /\ ~IsAccess(s[k]) => s[k].n # Root /\ s[k - 1].n = Parent[s[k].n]
        /\ IsAccess(s[k]) => s[k - 1].n # Root /\ s[k].n = Parent[s[k - 1].n]
  BY Callers
<1>4. \A c \in Caches \ {Root} : /\ Parent[c] \in Caches /\ Parent[c] \in Up(Parent[c])
                                 /\ Closed(Up(Parent[c])) /\ Up(Parent[c]) \subseteq Up(c)
  BY Family, UpProperties, UpStrict
<1>5. Good(i + 1)
  <2>1. i + 1 > 1 /\ i + 1 - 1 = i
    OBVIOUS
  <2> QED
    BY <1>1, <1>3, <1>4, <2>1
<1>6. ASSUME NEW k \in 1 .. Len(s), k > i + 1, Good(k - 1) PROVE Good(k)
  <2>1. PICK l \in 1 .. Len(s) : l = k - 1 /\ i + 1 <= l /\ l < k
    BY <1>1, <1>6
  <2>2. Good(l)
    BY <1>6, <2>1
  <2>3. /\ ~IsAccess(s[k]) => s[k].n # Root /\ s[l].n = Parent[s[k].n]
        /\ IsAccess(s[k]) => s[l].n # Root /\ s[k].n = Parent[s[l].n]
    BY <1>3, <1>6, <2>1
  <2>4. ASSUME IsAccess(s[k]) PROVE s[i].n # Root /\ s[k].n \in Up(Parent[s[i].n])
    <3>1. IsAccess(s[l])
      BY <1>2, <2>1, <2>4
    <3>2. s[i].n # Root /\ s[l].n \in Up(Parent[s[i].n]) /\ s[i].n \in Caches
      BY <1>1, <2>2, <3>1
    <3>3. s[l].n # Root /\ s[k].n = Parent[s[l].n]
      BY <2>3, <2>4
    <3>4. Closed(Up(Parent[s[i].n]))
      BY <1>4, <3>2
    <3> QED
      BY <3>2, <3>3, <3>4 DEF Closed
  <2>5. ASSUME ~IsAccess(s[i + 1]) PROVE s[k].n # Root /\ s[i].n \in Up(Parent[s[k].n])
    <3>1. ~IsAccess(s[k])
      <4>1. i + 1 < k
        BY <1>6
      <4> QED
        BY <1>1, <1>2, <2>5, <4>1
    <3>2. s[k].n # Root /\ s[l].n = Parent[s[k].n] /\ s[k].n \in Caches /\ s[l].n \in Caches
      BY <1>1, <2>3, <3>1
    <3>3. s[l].n # Root /\ s[i].n \in Up(Parent[s[l].n])
      BY <2>2, <2>5
    <3> QED
      BY <1>4, <3>2, <3>3
  <2> QED
    BY <2>4, <2>5
<1> HIDE DEF Good
<1>7. \A k \in 1 .. Len(s) : i < k => Good(k)
  <2>1. SUFFICES ASSUME NEW b \in 1 .. Len(s), i < b, ~Good(b) PROVE FALSE
    OBVIOUS
  <2> DEFINE Bad == {k \in 1 .. Len(s) : i < k /\ ~Good(k)}
  <2>2. PICK S \in SUBSET Nat : S = Bad
    <3>1. Bad \subseteq 1 .. Len(s)
      OBVIOUS
    <3> HIDE DEF Bad
    <3> QED
      BY <1>1, <3>1
  <2>3. PICK m \in S : \A k \in S : m <= k
    BY <2>1, <2>2, LeastNumber
  <2>4. m \in 1 .. Len(s) /\ i < m /\ ~Good(m)
    BY <2>2, <2>3
  <2>5. m > i + 1
    <3>1. m = i + 1 \/ m > i + 1
      BY <2>4
    <3> QED
      BY <1>5, <2>4, <3>1
  <2>6. m - 1 \in 1 .. Len(s) /\ i < m - 1 /\ ~(m <= m - 1)
    BY <1>1, <2>4, <2>5
  <2>7. Good(m - 1)
    BY <2>2, <2>3, <2>6
  <2> QED
    BY <1>6, <2>4, <2>5, <2>7
<1>8. Good(j)
  BY <1>7
<1> QED
  BY <1>8 DEF Good

(* A circle of threads that wait for each other.                           *)
Circle(T) == \A t \in T : WaitsFor(t) \in T

(* A cache whose child is worked on for an access from below is not held.  *)
LEMMA ChildFree ==
  ASSUME IInv, HInv, NEW t \in Threads, Busy(t), IsAccess(Top(t)), Top(t).at \in {"dir", "end"},
         Top(t).ch # Mem
  PROVE  bcc[Top(t).ch] \notin Threads
<1>1. SUFFICES ASSUME NEW u \in Threads, bcc[Top(t).ch] = u PROVE FALSE
  OBVIOUS
<1>2. PICK k \in Nat, n \in Caches : /\ k = Len(stack[t]) /\ k \in 1 .. Len(stack[t]) /\ n = Top(t).n
                                     /\ Top(t) = stack[t][k] /\ n \notin Leaves /\ k > 1
  <2>1. Top(t).n \notin Leaves
    BY Begun DEF FrameOK
  <2> QED
    BY <2>1, Begun
<1>3. PICK c \in Caches \ {Root} :
        /\ c = Top(t).ch /\ stack[t][k - 1].n = c /\ n = Parent[c]
        /\ k - 1 \in 1 .. Len(stack[t]) /\ Active(stack[t], k - 1) /\ ~Holds(stack[t], k - 1)
  <2>1. stack[t] \in Seq(Frames) /\ Shape(stack[t]) /\ IsAccess(stack[t][k])
    BY <1>2, Begun
  <2>2. /\ k - 1 \in 1 .. Len(stack[t]) /\ stack[t][k - 1].n \in Caches \ {Root}
        /\ stack[t][k].ch = stack[t][k - 1].n /\ stack[t][k].n = Parent[stack[t][k - 1].n]
        /\ Active(stack[t], k - 1) /\ ~Holds(stack[t], k - 1)
    BY <1>2, <2>1, Callers
  <2> QED
    BY <1>2, <2>2
<1>4. PICK j \in 1 .. Len(stack[u]) : Holds(stack[u], j) /\ stack[u][j].n = c
  BY <1>1, <1>3 DEF HInv, LocksHeld
<1>5. /\ Busy(u) /\ Types /\ ThreadOK(t) /\ ThreadOK(u)
  <2>1. stack[u] # <<>>
    BY <1>4, EmptySeq
  <2> QED
    BY <2>1 DEF IInv, Busy
<1>6. CASE IsAccess(stack[u][j])
  <2>1. Active(stack[u], j)
    BY <1>4, <1>6 DEF Holds, Active
  <2>2. t = u /\ k - 1 = j
    BY <1>3, <1>4, <1>5, <2>1, ActiveOnce
  <2> QED
    BY <1>3, <1>4, <2>2
<1>7. CASE ~IsAccess(stack[u][j])
  <2>1. j > 1
    BY <1>5, <1>7, Begun
  <2>2. j - 1 \in 1 .. Len(stack[u]) /\ Holds(stack[u], j - 1) /\ stack[u][j - 1].n = n
    <3>1. stack[u] \in Seq(Frames) /\ Shape(stack[u])
      BY <1>5, Begun
    <3> QED
      BY <1>3, <1>4, <1>7, <2>1, <3>1, Callers
  <2>3. Holds(stack[t], k)
    BY <1>2 DEF Holds
  <2>4. t = u /\ k = j - 1
    BY <1>2, <1>5, <2>2, <2>3, HoldsOnce
  <2> QED
    BY <1>2, <2>1, <2>4
<1> QED
  BY <1>6, <1>7

(* In a circle everybody waits for a lock of a cache, to enter it.         *)
LEMMA Entering ==
  ASSUME IInv, HInv, NEW T \in SUBSET Threads, Circle(T), NEW t \in T
  PROVE  /\ t \in Threads /\ Busy(t) /\ Top(t).n \in Caches
         /\ \/ IsAccess(Top(t)) /\ Top(t).at = "tcc" /\ tcc[Top(t).n] \in T
            \/ IsAccess(Top(t)) /\ Top(t).at = "bcc" /\ bcc[Top(t).n] \in T
            \/ ~IsAccess(Top(t)) /\ Top(t).at = "lock" /\ bcc[Top(t).n] \in T
<1>1. /\ t \in Threads /\ NoThread \notin T /\ WaitsFor(t) \in T
  BY Family DEF Circle
<1>2. Busy(t)
  BY <1>1 DEF WaitsFor
<1>3. \A u \in T : Busy(u) => Top(u).at # "fill"
  <2>1. \A u \in T : Busy(u) /\ Top(u).at = "fill" => WaitsFor(u) = NoThread
    BY DEF WaitsFor
  <2> QED
    BY <1>1, <2>1 DEF Circle
<1>4. \A n \in Leaves : flock[n] \notin T
  <2>1. \A u \in T, n \in Leaves : flock[n] = u => Busy(u) /\ Top(u).at = "fill"
    BY DEF HInv, LocksHeld
  <2> QED
    BY <1>3, <2>1
<1>5. PICK f \in Frames : f = Top(t) /\ f.n \in Caches /\ FrameOK(f)
  BY <1>1, <1>2, Begun
<1>6. WaitsFor(t) = CASE f.at = "tcc" -> tcc[f.n]
                      [] f.at \in {"bcc", "lock"} -> bcc[f.n]
                      [] f.at = "end" -> IF f.ch = Mem THEN flock[f.n] ELSE bcc[f.ch]
                      [] f.at = "down" /\ f.n \in Leaves -> flock[f.n]
                      [] OTHER -> NoThread
  BY <1>2, <1>5 DEF WaitsFor
<1>7. CASE IsAccess(f)
  <2>1. f.at \in {"tcc", "bcc", "evict", "insert", "dir", "end", "fill"}
    BY <1>7, Classes, FrameTypes DEF AccessFrames
  <2>2. f.at # "end"
    <3>1. SUFFICES ASSUME f.at = "end" PROVE FALSE
      OBVIOUS
    <3>2. f.ch # Mem => bcc[f.ch] \notin T
      BY <1>1, <1>2, <1>5, <1>7, <3>1, ChildFree
    <3>3. f.ch = Mem => f.n \in Leaves
      BY <1>5, <1>7 DEF FrameOK
    <3> QED
      BY <1>1, <1>4, <1>6, <3>1, <3>2, <3>3
  <2> QED
    BY <1>1, <1>2, <1>5, <1>6, <1>7, <2>1, <2>2
<1>8. CASE ~IsAccess(f)
  <2>1. f.at \in {"lock", "down"}
    BY <1>8, Classes DEF InvFrames
  <2>2. f.at # "down"
    BY <1>1, <1>4, <1>6
  <2> QED
    BY <1>1, <1>2, <1>5, <1>6, <1>8, <2>1, <2>2
<1> QED
  BY <1>7, <1>8

(* Of a nonempty set of caches one has no other of them above it, and one  *)
(* none below.                                                             *)
LEMMA Extremes ==
  ASSUME NEW W \in SUBSET Caches, W # {}
  PROVE  /\ \E n \in W : \A m \in W : m # Root => n \notin Up(Parent[m])
         /\ \E n \in W : \A m \in W : n # Root => m \notin Up(Parent[n])
<1>1. /\ IsFiniteSet(Caches) /\ \A m \in W : Up(m) \subseteq Caches /\ m \in Up(m)
  BY CoherenceAssumption, UpProperties DEF Up
<1>2. \A m \in Caches \ {Root}, n \in W : n \in Up(Parent[m]) =>
        Up(n) \subseteq Up(m) /\ Up(n) # Up(m)
  <2>1. SUFFICES ASSUME NEW m \in Caches \ {Root}, NEW n \in W, n \in Up(Parent[m])
                 PROVE  Up(n) \subseteq Up(m) /\ Up(n) # Up(m)
    OBVIOUS
  <2>2. Parent[m] \in Caches
    BY Family
  <2>3. Closed(Up(Parent[m])) /\ Up(Parent[m]) \in SUBSET Caches
    BY <2>2, UpProperties DEF Up
  <2>4. Up(n) \subseteq Up(Parent[m])
    BY <2>1, <2>3, UpProperties
  <2>5. m \notin Up(Parent[m]) /\ Up(Parent[m]) \subseteq Up(m) /\ m \in Up(m)
    BY UpStrict, UpProperties
  <2> QED
    BY <2>4, <2>5
<1>3. \E n \in W : \A m \in W : Up(m) \subseteq Up(n) => Up(m) = Up(n)
  <2> DEFINE T == {Up(m) : m \in W}
  <2>1. \A m \in W : Up(m) \in FiniteSubsetsOf(Caches)
    BY <1>1, FS_Subset DEF FiniteSubsetsOf
  <2>2. T \subseteq FiniteSubsetsOf(Caches) /\ T # {}
    BY <2>1
  <2>3. \E x \in T : \A y \in T : y \subseteq x => y = x
    <3> HIDE DEF T
    <3> QED
      BY <2>2, MinimalSet
  <2> QED
    BY <2>3
<1>4. \E n \in W : \A m \in W : Up(n) \subseteq Up(m) => Up(m) = Up(n)
  <2> DEFINE Rest(m) == Caches \ Up(m)
             T == {Rest(m) : m \in W}
  <2>1. \A m \in W : Rest(m) \in FiniteSubsetsOf(Caches)
    BY <1>1, FS_Subset DEF FiniteSubsetsOf
  <2>2. \E x \in T : \A y \in T : y \subseteq x => y = x
    <3>1. T \subseteq FiniteSubsetsOf(Caches) /\ T # {}
      <4> HIDE DEF Rest
      <4> QED
        BY <2>1
    <3> HIDE DEF T
    <3> QED
      BY <3>1, MinimalSet
  <2>3. PICK n \in W : \A m \in W : Rest(m) \subseteq Rest(n) => Rest(m) = Rest(n)
    <3> HIDE DEF Rest
    <3> QED
      BY <2>2
  <2>4. ASSUME NEW m \in W, Up(n) \subseteq Up(m) PROVE Up(m) = Up(n)
    <3>1. Rest(m) = Rest(n)
      BY <2>3, <2>4
    <3> QED
      BY <1>1, <3>1
  <2> QED
    BY <2>4
<1>5. \E n \in W : \A m \in W : m # Root => n \notin Up(Parent[m])
  BY <1>2, <1>4
<1>6. \E n \in W : \A m \in W : n # Root => m \notin Up(Parent[n])
  BY <1>2, <1>3
<1> QED
  BY <1>5, <1>6

(* Who waits for a cache to take the lock that serialises accesses waits   *)
(* for one that waits further up.                                          *)
LEMMA WaitsAbove ==
  ASSUME IInv, HInv, NEW T \in SUBSET Threads, Circle(T), NEW t \in T, Top(t).at = "tcc",
         \A u \in T : Top(u).at = "tcc"
  PROVE  \E u \in T : Top(t).n # Root /\ Top(u).n \in Up(Parent[Top(t).n])
<1>1. PICK u \in T, n \in Caches : n = Top(t).n /\ tcc[n] = u
  BY Entering
<1>2. PICK s \in Seq(Frames) : /\ s = stack[u] /\ Shape(s) /\ Len(s) \in 1 .. Len(s)
                               /\ Top(u) = s[Len(s)] /\ IsAccess(s[Len(s)]) /\ s[Len(s)].at = "tcc"
  <2>1. Busy(u) /\ u \in Threads /\ IsAccess(Top(u)) /\ Top(u).at = "tcc"
    BY Entering
  <2> QED
    BY <2>1, Begun
<1>3. PICK i \in 1 .. Len(s) : Active(s, i) /\ s[i].n = n
  BY <1>1, <1>2 DEF HInv, LocksHeld
<1>4. i < Len(s)
  <2>1. i # Len(s)
    BY <1>2, <1>3 DEF Active
  <2> QED
    BY <1>2, <2>1
<1>5. n # Root /\ s[Len(s)].n \in Up(Parent[n])
  BY <1>2, <1>3, <1>4, Climbs
<1> QED
  BY <1>1, <1>2, <1>5

(* Who waits for an access to give up a cache that it wants to invalidate  *)
(* waits for an invalidation further down.                                 *)
LEMMA WaitsBelow ==
  ASSUME IInv, HInv, NEW T \in SUBSET Threads, Circle(T), NEW t \in T, Top(t).at = "lock"
  PROVE  \E u \in T : /\ Top(u).at = "lock" /\ Top(u).n # Root
                      /\ Top(t).n \in Up(Parent[Top(u).n])
<1>1. PICK u \in T, n \in Caches :
        n = Top(t).n /\ bcc[n] = u /\ t \in Threads /\ Busy(t) /\ ~IsAccess(Top(t))
  BY Entering
<1>2. PICK s \in Seq(Frames) : /\ s = stack[u] /\ Shape(s) /\ Len(s) \in 1 .. Len(s)
                               /\ Top(u) = s[Len(s)] /\ Busy(u) /\ u \in Threads /\ IsAccess(s[1])
  BY Entering, Begun
<1>3. PICK i \in 1 .. Len(s) : Holds(s, i) /\ s[i].n = n
  BY <1>1, <1>2 DEF HInv, LocksHeld
<1>4. IsAccess(s[i])
  <2>1. SUFFICES ASSUME ~IsAccess(s[i]) PROVE FALSE
    OBVIOUS
  <2>2. PICK r \in Seq(Frames), k \in Nat :
          /\ r = stack[t] /\ Shape(r) /\ k = Len(r) /\ k \in 1 .. Len(r) /\ Top(t) = r[k] /\ k > 1
    BY <1>1, Begun
  <2>3. Holds(r, k - 1) /\ r[k - 1].n = Parent[n] /\ k - 1 \in 1 .. Len(r)
    BY <1>1, <2>2, Callers
  <2>4. i > 1
    BY <1>2, <2>1
  <2>5. Holds(s, i - 1) /\ s[i - 1].n = Parent[n] /\ i - 1 \in 1 .. Len(s)
    BY <1>2, <1>3, <2>1, <2>4, Callers
  <2>6. t = u /\ k - 1 = i - 1
    <3>1. ThreadOK(t) /\ ThreadOK(u)
      BY <1>1, <1>2 DEF IInv
    <3>2. /\ k - 1 \in 1 .. Len(stack[t]) /\ i - 1 \in 1 .. Len(stack[u])
          /\ Holds(stack[t], k - 1) /\ Holds(stack[u], i - 1)
          /\ stack[t][k - 1].n = stack[u][i - 1].n
      BY <1>2, <2>2, <2>3, <2>5
    <3> QED
      BY <1>1, <1>2, <3>1, <3>2, HoldsOnce
  <2>7. i = k /\ s = r
    BY <1>2, <2>2, <2>6
  <2> QED
    BY <1>3, <2>1, <2>2, <2>7 DEF Holds
<1>5. i < Len(s) /\ ~IsAccess(s[i + 1])
  <2>1. i # Len(s)
    <3>1. SUFFICES ASSUME i = Len(s) PROVE FALSE
      OBVIOUS
    <3>2. Top(u).at \in {"evict", "insert", "dir", "end"}
      BY <1>2, <1>3, <1>4, <3>1 DEF Holds
    <3> QED
      BY <3>2, Entering
  <2> QED
    BY <1>2, <1>3, <1>4, <2>1 DEF Holds
<1>6. s[Len(s)].n # Root /\ n \in Up(Parent[s[Len(s)].n])
  BY <1>2, <1>3, <1>5, Climbs
<1>7. Top(u).at = "lock"
  <2>1. ~IsAccess(s[Len(s)])
    <3>1. i + 1 \in 1 .. Len(s) /\ (i + 1 = Len(s) \/ i + 1 < Len(s))
      BY <1>2, <1>5
    <3> QED
      BY <1>2, <1>5, <3>1 DEF Shape
  <2> QED
    BY <1>2, <2>1, Entering
<1> QED
  BY <1>1, <1>2, <1>6, <1>7

(* Who waits for an invalidation to be done with the cache waits for one   *)
(* that waits, too.                                                        *)
LEMMA WaitsForInval ==
  ASSUME IInv, HInv, NEW T \in SUBSET Threads, Circle(T), NEW t \in T, Top(t).at = "bcc"
  PROVE  \E u \in T : Top(u).at = "lock"
<1>1. PICK u \in T, n \in Caches :
        n = Top(t).n /\ bcc[n] = u /\ t \in Threads /\ Busy(t) /\ IsAccess(Top(t))
  BY Entering
<1>2. PICK s \in Seq(Frames) : /\ s = stack[u] /\ Shape(s) /\ Len(s) \in 1 .. Len(s)
                               /\ Top(u) = s[Len(s)] /\ Busy(u) /\ u \in Threads
  BY Entering, Begun
<1>3. PICK i \in 1 .. Len(s) : Holds(s, i) /\ s[i].n = n
  BY <1>1, <1>2 DEF HInv, LocksHeld
<1>4. ~IsAccess(s[i])
  <2>1. SUFFICES ASSUME IsAccess(s[i]) PROVE FALSE
    OBVIOUS
  <2>2. PICK r \in Seq(Frames), k \in Nat :
          /\ r = stack[t] /\ k = Len(r) /\ k \in 1 .. Len(r) /\ Top(t) = r[k]
    BY <1>1, Begun
  <2>3. Active(r, k) /\ ~Holds(r, k)
    BY <1>1, <2>2 DEF Active, Holds
  <2>4. Active(s, i)
    BY <1>3, <2>1 DEF Active, Holds
  <2>5. t = u /\ k = i
    BY <1>1, <1>2, <1>3, <2>2, <2>3, <2>4, ActiveOnce DEF IInv
  <2> QED
    BY <1>2, <1>3, <2>2, <2>3, <2>5
<1>5. ~IsAccess(Top(u))
  <2>1. i = Len(s) \/ i < Len(s)
    BY <1>2
  <2> QED
    BY <1>2, <1>4, <2>1 DEF Shape
<1> QED
  BY <1>5, Entering

LEMMA NoCircle ==
  ASSUME IInv, HInv, NEW T \in SUBSET Threads, T # {}, Circle(T)
  PROVE  FALSE
<1>9. \A t \in T : Top(t).n \in Caches
  BY Entering
<1>1. CASE \E t \in T : Top(t).at = "lock"
  <2>1. PICK W \in SUBSET Caches : W = {n \in Caches : \E t \in T : Top(t).at = "lock" /\ Top(t).n = n}
    OBVIOUS
  <2>9. W # {}
    BY <1>9, <1>1, <2>1
  <2>2. PICK n \in W : \A m \in W : m # Root => n \notin Up(Parent[m])
    BY <2>9, Extremes
  <2>3. PICK t \in T : Top(t).at = "lock" /\ n = Top(t).n
    BY <2>1, <2>2
  <2>4. PICK u \in T : Top(u).at = "lock" /\ Top(u).n # Root /\ n \in Up(Parent[Top(u).n])
    BY <2>3, WaitsBelow
  <2> QED
    BY <1>9, <2>1, <2>2, <2>4
<1>2. CASE \A t \in T : Top(t).at # "lock"
  <2>1. \A t \in T : Top(t).at = "tcc"
    BY <1>2, Entering, WaitsForInval
  <2>2. PICK W \in SUBSET Caches : W = {n \in Caches : \E t \in T : Top(t).n = n}
    OBVIOUS
  <2>9. W # {}
    BY <1>9, <2>2
  <2>3. PICK n \in W : \A m \in W : n # Root => m \notin Up(Parent[n])
    BY <2>9, Extremes
  <2>4. PICK t \in T : n = Top(t).n
    BY <2>2, <2>3
  <2>5. PICK u \in T : n # Root /\ Top(u).n \in Up(Parent[n])
    BY <2>1, <2>4, WaitsAbove
  <2> QED
    BY <1>9, <2>2, <2>3, <2>5
<1> QED
  BY <1>1, <1>2

(* Accesses that lock their way up while invalidations lock their way down *)
(* never wait for each other in a circle, nor do they for a filter's lock, *)
(* in any tree of caches.                                                  *)
THEOREM NobodyDeadlocks == Spec => []NoDeadlock
<1>1. Init => IInv /\ HInv
  BY InitOK, HeldInit
<1>2. IInv /\ HInv /\ [Next]_vars => IInv' /\ HInv'
  BY NextKeeps, HeldKept
<1>3. IInv /\ HInv => NoDeadlock
  <2> SUFFICES ASSUME IInv, HInv, NEW T \in (SUBSET Threads) \ {{}}
               PROVE  \E t \in T : WaitsFor(t) \notin T
    BY DEF NoDeadlock
  <2>1. T \in SUBSET Threads /\ T # {}
    OBVIOUS
  <2> QED
    BY <2>1, NoCircle DEF Circle
<1> QED
  BY <1>1, <1>2, <1>3, PTL DEF Spec

------------------------------------------------------------------------------
(* No write is lost.                                                       *)

(* A thread brings the last write to c: an invalidation took it from below.*)
Induced(c, a) == \E t \in Threads : wb[t] = a /\ Busy(t) /\ Top(t).n = c

(* c answers for the last write of a, so the caches above may be stale.    *)
Answers(c, a) ==
  Excl(st[c][a]) /\ (st[c][a] = "M" \/ c \notin fresh[a] \/ Induced(c, a))

(* A stale copy has a child that answers for it; so has memory.            *)
FreshAt(a) ==
  /\ \A n \in Caches : Valid(st[n][a]) /\ n \notin fresh[a] => \E c \in Children(n) : Answers(c, a)
  /\ Mem \notin fresh[a] => Answers(Root, a)

(* A cache that accepts a dirty line is dirty already, and one that        *)
(* accepts a clean line is given a clean line.                             *)
PutOK(f) ==
  IsAccess(f) /\ f.at = "dir" =>
    /\ f.ty = "PUTX" => st[f.n][f.a] = "M"
    /\ f.ty = "PUTS" => st[f.ch][f.a] # "M"
PutsOK == \A t \in Threads : Busy(t) => PutOK(Top(t))

FInv == PutsOK /\ \A a \in Addrs : FreshAt(a)

(* A step of t changes lines of the cache it works on and of the child it  *)
(* serves.                                                                 *)
Touches(t, m) ==
  /\ Busy(t)
  /\ IF IsAccess(Top(t)) THEN Top(t).at # "tcc" /\ m \in {Top(t).n, Top(t).ch}
     ELSE Top(t).at = "down" /\ m = Top(t).n

LEMMA PutsStay ==
  ASSUME IInv, PutsOK, NEW t \in Threads,
         \A u \in Threads \ {t} : stack'[u] = stack[u],
         \A m \in Caches : st'[m] # st[m] => Touches(t, m),
         Busy(t)' => PutOK(Top(t))'
  PROVE  PutsOK'
<1>1. SUFFICES ASSUME NEW u \in Threads, u # t, Busy(u), IsAccess(Top(u)), Top(u).at = "dir",
                      Top(u).ty \in Puts, stack'[u] = stack[u],
                      st'[Top(u).n] # st[Top(u).n] \/ st'[Top(u).ch] # st[Top(u).ch]
               PROVE  FALSE
  BY DEF PutsOK, PutOK, Busy, Top, IsAccess, Puts
<1>2. At(u, "dir")
  BY <1>1 DEF At, IInv
<1>3. PICK e \in AccessFrames, n \in Caches, ch \in Caches, l \in Nat :
        /\ e = Top(u) /\ n = e.n /\ ch = e.ch /\ l = Len(stack[u]) /\ l >= 1 /\ l \in 1 .. Len(stack[u])
        /\ stack[u][l] = e /\ e.ch # Mem /\ Parent[ch] = n
  <2>1. PICK e \in AccessFrames, n \in Caches : \E ch \in Children(n) :
          e = Top(u) /\ n = e.n /\ ch = e.ch /\ e.ch # Mem /\ ch \in Caches
    BY <1>2, Serving
  <2>2. PICK l \in Nat : l = Len(stack[u]) /\ l >= 1 /\ l \in 1 .. Len(stack[u]) /\ stack[u][l] = Top(u)
    BY <1>1, Begun
  <2> QED
    BY <2>1, <2>2, Family
<1>4. /\ l > 1 /\ l - 1 \in 1 .. Len(stack[u]) /\ stack[u][l - 1].n = ch
      /\ Active(stack[u], l - 1) /\ Active(stack[u], l) /\ Holds(stack[u], l)
  <2>1. stack[u] \in Seq(Frames) /\ Shape(stack[u]) /\ IsAccess(stack[u][l]) /\ FrameOK(e)
    BY <1>1, <1>3, Begun
  <2>2. l # 1
    <3>1. stack[u][1].n \in Leaves
      BY <1>1, Begun
    <3> QED
      BY <1>3, <2>1, <3>1 DEF FrameOK
  <2>3. l > 1
    <3>1. l >= 1
      BY <1>3
    <3> QED
      BY <2>2, <3>1
  <2>4. l - 1 \in 1 .. Len(stack[u]) /\ stack[u][l - 1].n = ch /\ Active(stack[u], l - 1)
    BY <1>3, <2>1, <2>3, Callers
  <2>5. Active(stack[u], l) /\ Holds(stack[u], l)
    BY <1>1, <1>3 DEF Active, Holds
  <2> QED
    BY <2>3, <2>4, <2>5
<1>5. PICK m \in {n, ch} : Touches(t, m)
  BY <1>1, <1>3
<1>6. PICK j \in 1 .. Len(stack[u]) : Active(stack[u], j) /\ stack[u][j].n = m
  BY <1>3, <1>4, <1>5
<1>7. PICK k \in Nat : /\ k = Len(stack[t]) /\ k >= 1 /\ k \in 1 .. Len(stack[t]) /\ Top(t) = stack[t][k]
                       /\ Busy(t) /\ stack[t] \in Seq(Frames) /\ Shape(stack[t])
  BY <1>5, Begun DEF Touches
<1>8. ThreadOK(t) /\ ThreadOK(u) /\ Types /\ Mem \notin Caches
  BY Family DEF IInv
<1>9. CASE IsAccess(Top(t))
  <2>1. Active(stack[t], k)
    BY <1>5, <1>7, <1>9 DEF Touches, Active
  <2>2. CASE m = Top(t).n
    BY <1>1, <1>6, <1>7, <1>8, <2>1, <2>2, ActiveOnce
  <2>3. CASE m = Top(t).ch
    <3>1. k # 1
      <4>1. Top(t).ch # Mem /\ FrameOK(Top(t)) /\ stack[t][1].n \in Leaves
        BY <1>5, <1>7, <1>8, <2>3, Begun
      <4> QED
        BY <1>7, <1>9, <4>1 DEF FrameOK
    <3>2. k >= 1 /\ k > 1
      <4>1. k >= 1
        BY <1>7
      <4> QED
        BY <3>1, <4>1
    <3>3. k - 1 \in 1 .. Len(stack[t]) /\ Active(stack[t], k - 1) /\ stack[t][k - 1].n = m
      BY <1>7, <1>9, <2>3, <3>2, Callers
    <3> QED
      BY <1>1, <1>6, <1>8, <3>3, ActiveOnce
  <2> QED
    BY <1>5, <1>9, <2>2, <2>3 DEF Touches
<1>10. CASE ~IsAccess(Top(t))
  <2>1. m = Top(t).n /\ Holds(stack[t], k)
    BY <1>5, <1>7, <1>10 DEF Touches, Holds
  <2>2. m = ch
    BY <1>1, <1>3, <1>4, <1>5, <1>7, <1>8, <2>1, HoldsOnce
  <2>3. k > 1
    <3>1. IsAccess(stack[t][1])
      BY <1>7, Begun
    <3> QED
      BY <1>7, <1>10, <3>1
  <2>4. k - 1 \in 1 .. Len(stack[t]) /\ Holds(stack[t], k - 1) /\ stack[t][k - 1].n = n
    <3>1. /\ k - 1 \in 1 .. Len(stack[t]) /\ Holds(stack[t], k - 1)
          /\ stack[t][k - 1].n = Parent[Top(t).n]
      BY <1>7, <1>10, <2>3, Callers
    <3> QED
      BY <1>3, <2>1, <2>2, <3>1
  <2> QED
    BY <1>1, <1>3, <1>4, <1>8, <2>4, HoldsOnce
<1> QED
  BY <1>9, <1>10

(* Nothing that the copies of a rely on has changed.                       *)
LEMMA FreshStays ==
  ASSUME NEW a \in Addrs, FreshAt(a), fresh'[a] = fresh[a],
         \A m \in Caches : /\ Valid(st'[m][a]) => Valid(st[m][a])
                           /\ Excl(st[m][a]) => Excl(st'[m][a])
                           /\ st[m][a] = "M" => st'[m][a] = "M"
                           /\ Induced(m, a) => Induced(m, a)' \/ st'[m][a] = "M"
  PROVE  FreshAt(a)'
<1>1. \A m \in Caches : Answers(m, a) => Answers(m, a)'
  BY DEF Answers
<1>2. \A n \in Caches : Children(n) \subseteq Caches
  BY Family
<1> QED
  BY <1>1, <1>2, Family DEF FreshAt, Children

LEMMA InducedStays ==
  ASSUME NEW t \in Threads, NEW m \in Caches, NEW a \in Addrs, Induced(m, a),
         \A u \in Threads \ {t} : stack'[u] = stack[u] /\ wb'[u] = wb[u],
         ~(wb[t] = a /\ Busy(t) /\ Top(t).n = m)
  PROVE  Induced(m, a)'
BY DEF Induced, Busy, Top

(* A step of t that changes its own cache's lines only, if any, and leaves *)
(* every copy as good as it was.                                           *)
LEMMA FreshOwn ==
  ASSUME IInv, FInv, NEW t \in Threads, UNCHANGED fresh,
         \A u \in Threads \ {t} : stack'[u] = stack[u] /\ wb'[u] = wb[u],
         Busy(t)' => PutOK(Top(t))',
         wb[t] = NoAddr \/ st'[Top(t).n][wb[t]] = "M",
         \A m \in Caches : st'[m] # st[m] => Touches(t, m),
         \A m \in Caches, a \in Addrs :
           /\ Valid(st'[m][a]) => Valid(st[m][a])
           /\ Excl(st[m][a]) => Excl(st'[m][a])
           /\ st[m][a] = "M" => st'[m][a] = "M"
  PROVE  FInv'
<1>1. PutsOK'
  BY PutsStay DEF FInv
<1>2. ASSUME NEW a \in Addrs PROVE FreshAt(a)'
  <2>1. \A m \in Caches : Induced(m, a) => Induced(m, a)' \/ st'[m][a] = "M"
    BY InducedStays, Family
  <2> QED
    BY <2>1, FreshStays DEF FInv
<1> QED
  BY <1>1, <1>2 DEF FInv

LEMMA TopReplaced ==
  ASSUME IInv, NEW t \in Threads, Busy(t), NEW g \in AccessFrames,
         stack' = [stack EXCEPT ![t] = Frame(t, g)]
  PROVE  Busy(t)' /\ Top(t)' = g /\ \A u \in Threads \ {t} : stack'[u] = stack[u]
<1>1. PICK w \in Seq(Frames) : Replaced(stack[t], w, g) /\ StackIs(t, w)
  BY Replaces
<1>2. Len(w) = Len(stack[t]) /\ w[Len(w)] = g /\ w # <<>>
  <2>1. Len(stack[t]) >= 1
    BY Begun
  <2> QED
    BY <1>1, <2>1, EmptySeq DEF Replaced
<1> QED
  BY <1>1, <1>2 DEF StackIs, Busy, Top

LEMMA TopSent ==
  ASSUME IInv, NEW t \in Threads, Busy(t), NEW g \in AccessFrames, NEW r \in AccessFrames,
         stack' = [stack EXCEPT ![t] = Append(Frame(t, g), r)]
  PROVE  Busy(t)' /\ Top(t)' = r /\ \A u \in Threads \ {t} : stack'[u] = stack[u]
<1>1. PICK w \in Seq(Frames) : Pushed(stack[t], w, g, r) /\ StackIs(t, w)
  BY Sends
<1>2. w[Len(w)] = r /\ w # <<>>
  <2>1. Len(stack[t]) >= 1
    BY Begun
  <2> QED
    BY <1>1, <2>1, EmptySeq DEF Pushed
<1> QED
  BY <1>1, <1>2 DEF StackIs, Busy, Top

LEMMA TopCalled ==
  ASSUME IInv, NEW t \in Threads, Busy(t), NEW c \in Caches, NEW ty \in {"INV", "INVX"},
         NEW a \in Addrs, SendInval(t, c, ty, a)
  PROVE  /\ Busy(t)' /\ ~IsAccess(Top(t))' /\ Top(t)'.at = "lock"
         /\ \A u \in Threads \ {t} : stack'[u] = stack[u]
<1>1. PICK g \in InvFrames, w \in Seq(Frames) : g.at = "lock" /\ Pushed(stack[t], w, Top(t), g) /\ StackIs(t, w)
  BY Calls
<1>2. w[Len(w)] = g /\ w # <<>> /\ ~IsAccess(g)
  <2>1. Len(stack[t]) >= 1
    BY Begun
  <2> QED
    BY <1>1, <2>1, EmptySeq, Classes DEF Pushed
<1> QED
  BY <1>1, <1>2 DEF StackIs, Busy, Top, IsAccess

LEMMA TopPopped ==
  ASSUME IInv, NEW t \in Threads, Busy(t), stack' = [stack EXCEPT ![t] = Pop(@)]
  PROVE  /\ Busy(t)' => Len(stack[t]) > 1 /\ Top(t)' = stack[t][Len(stack[t]) - 1]
         /\ Len(stack[t]) > 1 => Busy(t)'
         /\ \A u \in Threads \ {t} : stack'[u] = stack[u]
<1>1. PICK w \in Seq(Frames) : Popped(stack[t], w) /\ StackIs(t, w)
  BY Returns
<1>2. PICK k \in Nat : k = Len(stack[t]) /\ k >= 1 /\ Len(w) = k - 1 /\ \A i \in 1 .. k - 1 : w[i] = stack[t][i]
  BY <1>1, Begun DEF Popped
<1>3. w # <<>> <=> k > 1
  BY <1>2, EmptySeq
<1>4. k > 1 => w[Len(w)] = stack[t][k - 1]
  BY <1>2
<1> QED
  BY <1>1, <1>2, <1>3, <1>4 DEF StackIs, Busy, Top

(* Steps that change no line and no copy, of a thread that brings nothing. *)
LEMMA FreshQuiet ==
  ASSUME IInv, FInv, NEW t \in Threads, UNCHANGED <<st, fresh, wb>>, wb[t] = NoAddr,
         \A u \in Threads \ {t} : stack'[u] = stack[u], Busy(t)' => PutOK(Top(t))'
  PROVE  FInv'
BY FreshOwn

LEMMA IssueFresh ==
  ASSUME IInv, FInv, NEW t \in Threads, NEW ty \in Gets, NEW a \in Addrs, Issue(t, ty, a)
  PROVE  FInv'
<1>1. /\ ~Busy(t) /\ UNCHANGED <<st, fresh, wb>> /\ ThreadOK(t) /\ stack \in [Threads -> Seq(Frames)]
      /\ stack' = [stack EXCEPT ![t] = <<Request(t, ty, a, Mem, "I")>>]
  BY DEF Issue, IInv, Types
<1>2. wb[t] = NoAddr
  BY <1>1 DEF ThreadOK, WritebackOK
<1>3. Top(t)' = Request(t, ty, a, Mem, "I") /\ \A u \in Threads \ {t} : stack'[u] = stack[u]
  BY <1>1 DEF Top
<1>4. PutOK(Top(t))'
  BY <1>3 DEF PutOK, Request
<1> QED
  BY <1>1, <1>2, <1>3, <1>4, FreshQuiet

LEMMA TakingFresh ==
  ASSUME IInv, FInv, NEW t \in Threads, TakeTcc(t) \/ InvLock(t)
  PROVE  FInv'
<1>1. Busy(t) /\ UNCHANGED <<st, fresh, wb>> /\ Top(t).at \in {"tcc", "lock"}
  BY DEF TakeTcc, InvLock, At, InvAt
<1>2. wb[t] = NoAddr
  BY <1>1, Begun DEF WritebackOK
<1>3. PICK f \in Frames, w \in Seq(Frames) : /\ Replaced(stack[t], w, f) /\ StackIs(t, w)
                                             /\ ~IsAccess(f) \/ f.at = "bcc"
  <2>1. CASE TakeTcc(t)
    <3>1. IsAccess(Top(t)) /\ Goto(t, "bcc")
      BY <2>1 DEF TakeTcc, At
    <3> QED
      BY <1>1, <3>1, Moves DEF Frames
  <2>2. CASE InvLock(t)
    <3>1. ~IsAccess(Top(t)) /\ Goto(t, "down")
      BY <2>2 DEF InvLock, InvAt
    <3> QED
      BY <1>1, <3>1, MovesInv, Classes DEF Frames
  <2> QED
    BY <2>1, <2>2
<1>4. w[Len(w)] = f
  BY <1>3 DEF Replaced
<1>5. Top(t)' = f /\ \A u \in Threads \ {t} : stack'[u] = stack[u]
  BY <1>3, <1>4 DEF StackIs, Top
<1>6. PutOK(Top(t))'
  BY <1>3, <1>5 DEF PutOK, IsAccess
<1> QED
  BY <1>1, <1>2, <1>5, <1>6, FreshQuiet

LEMMA SendingFresh ==
  ASSUME IInv, IInv', FInv, NEW t \in Threads, EvictInval(t) \/ DirInval(t) \/ InvDown(t)
  PROVE  FInv'
<1>1. PICK f \in Frames : /\ f = Top(t) /\ Busy(t) /\ f.n \in Caches /\ f.a \in Addrs /\ FrameOK(f)
                          /\ f.at \in {"evict", "dir", "down"} /\ (IsAccess(f) <=> f.at # "down")
                          /\ f.at = "evict" => f.v \in Addrs
  <2>1. /\ Busy(t) /\ Top(t).at \in {"evict", "dir", "down"} /\ (IsAccess(Top(t)) <=> Top(t).at # "down")
    BY DEF EvictInval, DirInval, InvDown, At, InvAt
  <2> QED
    BY <2>1, Begun DEF FrameOK
<1>2. UNCHANGED <<st, fresh, wb>>
  BY DEF EvictInval, DirInval, InvDown
<1>3. \E c \in Caches, ty \in {"INV", "INVX"}, a \in Addrs : SendInval(t, c, ty, a)
  <2>1. \A a \in Addrs : dir[f.n][a].sh \subseteq Caches
    BY <1>1 DEF IInv, Types, Entries
  <2>2. CASE EvictInval(t)
    <3>1. f.v \in Addrs /\ \E c \in dir[f.n][f.v].sh : SendInval(t, c, "INV", f.v)
      BY <1>1, <2>2 DEF EvictInval, At
    <3> QED
      BY <2>1, <3>1
  <2>3. CASE DirInval(t)
    <3>1. \E c \in Conflicts(f) : SendInval(t, c, IF f.ty = "GETX" THEN "INV" ELSE "INVX", f.a)
      BY <1>1, <2>3 DEF DirInval
    <3>2. Conflicts(f) \subseteq Caches
      BY <1>1, <2>1 DEF Conflicts
    <3> QED
      BY <1>1, <3>1, <3>2
  <2>4. CASE InvDown(t)
    <3>1. \E c \in Targets(f) : SendInval(t, c, f.ty, f.a)
      BY <1>1, <2>4 DEF InvDown
    <3>2. Targets(f) \subseteq Caches
      BY <1>1, <2>1 DEF Targets
    <3>3. f.ty \in {"INV", "INVX"}
      BY <1>1, <2>4, Classes, FrameTypes DEF InvDown, InvAt
    <3> QED
      BY <1>1, <3>1, <3>2, <3>3
  <2> QED
    BY <2>2, <2>3, <2>4
<1>4. /\ Busy(t)' /\ ~IsAccess(Top(t))' /\ Top(t)'.at = "lock"
      /\ \A u \in Threads \ {t} : stack'[u] = stack[u]
  BY <1>1, <1>3, TopCalled
<1>5. WritebackOK(t)'
  BY DEF IInv, ThreadOK
<1>6. wb[t] = NoAddr
  BY <1>2, <1>4, <1>5 DEF WritebackOK
<1>7. PutOK(Top(t))'
  BY <1>4 DEF PutOK
<1> QED
  BY <1>2, <1>4, <1>6, <1>7, FreshQuiet

LEMMA EndFresh ==
  ASSUME IInv, FInv, NEW t \in Threads, End(t)
  PROVE  FInv'
<1>1. Busy(t) /\ UNCHANGED <<st, fresh, wb>> /\ IsAccess(Top(t)) /\ Top(t).at = "end"
  BY DEF End, At
<1>2. wb[t] = NoAddr
  BY <1>1, Begun DEF WritebackOK
<1>3. CASE Top(t).ch = Mem
  <2>1. PICK f \in AccessFrames, w \in Seq(Frames) :
          f.at = "fill" /\ Replaced(stack[t], w, f) /\ StackIs(t, w)
    BY <1>1, <1>3, Moves DEF End
  <2>2. w[Len(w)] = f
    BY <2>1 DEF Replaced
  <2>3. Top(t)' = f /\ \A u \in Threads \ {t} : stack'[u] = stack[u]
    BY <2>1, <2>2 DEF StackIs, Top
  <2>4. PutOK(Top(t))'
    BY <2>1, <2>3 DEF PutOK
  <2> QED
    BY <1>1, <1>2, <2>3, <2>4, FreshQuiet
<1>4. CASE Top(t).ch # Mem
  <2>1. stack' = [stack EXCEPT ![t] = Pop(@)]
    BY <1>4 DEF End
  <2>2. PICK s \in Seq(Frames), k \in Nat :
          /\ s = stack[t] /\ k = Len(s) /\ k \in 1 .. Len(s) /\ s[k] = Top(t) /\ Shape(s)
    BY <1>1, Begun
  <2>3. k > 1 => s[k - 1].ty \in Gets
    BY <1>1, <2>2, Callers
  <2>4. /\ Busy(t)' => k > 1 /\ Top(t)' = s[k - 1]
        /\ \A u \in Threads \ {t} : stack'[u] = stack[u]
    BY <1>1, <2>1, <2>2, TopPopped
  <2>5. Busy(t)' => PutOK(Top(t))'
    BY <2>3, <2>4 DEF PutOK, Gets
  <2> QED
    BY <1>1, <1>2, <2>4, <2>5, FreshQuiet
<1> QED
  BY <1>3, <1>4

(* The root gets a line: memory has its last write.                        *)
LEMMA RootGets ==
  ASSUME IInv, FInv, NEW t \in Threads, wb[t] = NoAddr, UNCHANGED wb,
         \A u \in Threads \ {t} : stack'[u] = stack[u], Busy(t)' => PutOK(Top(t))',
         Busy(t), IsAccess(Top(t)), Top(t).at # "tcc", Top(t).n = Root,
         NEW lines \in [Addrs -> States], NEW a \in Addrs, NEW ty \in Gets,
         \A b \in Addrs : lines[b] = st[Root][b] \/ (~Valid(lines[b]) /\ ~Valid(st[Root][b])),
         lines[a] \in {"I", "S"},
         st' = [st EXCEPT ![Root] = [lines EXCEPT ![a] = MemState(t, ty)]],
         fresh' = [fresh EXCEPT ![a] = MemFresh(ty, a, lines[a])]
  PROVE  FInv'
<1>1. /\ Root \in Caches /\ \A m \in Caches \ {Root} : st'[m] = st[m]
      /\ st'[Root] = [lines EXCEPT ![a] = MemState(t, ty)]
      /\ fresh'[a] = MemFresh(ty, a, lines[a]) /\ \A b \in Addrs \ {a} : fresh'[b] = fresh[b]
  BY Family DEF IInv, Types
<1>2. PutsOK'
  <2>1. \A m \in Caches : st'[m] # st[m] => Touches(t, m)
    BY <1>1 DEF Touches
  <2> QED
    BY <2>1, PutsStay DEF FInv
<1>3. ASSUME NEW b \in Addrs, b # a PROVE FreshAt(b)'
  <2>1. \A m \in Caches : Induced(m, b) => Induced(m, b)' \/ st'[m][b] = "M"
    BY InducedStays, Family
  <2>2. st'[Root][b] = lines[b]
    BY <1>1, <1>3
  <2>3. \A m \in Caches : /\ Valid(st'[m][b]) => Valid(st[m][b])
                          /\ Excl(st[m][b]) => Excl(st'[m][b])
                          /\ st[m][b] = "M" => st'[m][b] = "M"
    <3>1. lines[b] = st[Root][b] \/ (~Valid(lines[b]) /\ ~Valid(st[Root][b]))
      OBVIOUS
    <3>2. lines[b] = st[Root][b] => \A m \in Caches : st'[m][b] = st[m][b]
      BY <1>1, <2>2
    <3>3. ~Valid(lines[b]) /\ ~Valid(st[Root][b]) =>
            \A m \in Caches : st'[m][b] = st[m][b] \/ (~Valid(st'[m][b]) /\ ~Valid(st[m][b]))
      BY <1>1, <2>2
    <3> QED
      BY <3>1, <3>2, <3>3 DEF Valid, Excl
  <2> QED
    BY <1>1, <1>3, <2>1, <2>3, FreshStays DEF FInv
<1>4. Mem \in fresh[a]
  <2>1. ~Excl(st[Root][a])
    BY DEF Valid, Excl
  <2> QED
    BY <2>1 DEF FInv, FreshAt, Answers
<1>5. fresh'[a] = fresh[a] \cup {Root}
  BY <1>1, <1>4 DEF MemFresh, Gets
<1>6. FreshAt(a)'
  <2>1. ASSUME NEW n \in Caches, Valid(st'[n][a]), n \notin fresh'[a]
        PROVE  \E c \in Children(n) : Answers(c, a)'
    <3>1. Valid(st[n][a]) /\ n \notin fresh[a]
      BY <1>1, <1>5, <2>1
    <3>2. PICK c \in Children(n) : Answers(c, a)
      BY <3>1 DEF FInv, FreshAt
    <3>3. c \in Caches \ {Root}
      BY Family
    <3>4. Induced(c, a) => Induced(c, a)'
      BY <3>3, InducedStays
    <3>5. st'[c] = st[c]
      BY <1>1, <3>3
    <3> QED
      BY <1>5, <3>2, <3>3, <3>4, <3>5 DEF Answers
  <2> QED
    BY <1>4, <1>5, <2>1 DEF FreshAt, Children
<1> QED
  BY <1>2, <1>3, <1>6 DEF FInv

(* The requester is a child of the cache, or the core of a leaf.           *)
LEMMA RequesterBelow ==
  ASSUME IInv, NEW t \in Threads, Busy(t), IsAccess(Top(t))
  PROVE  /\ Top(t).ch # Top(t).n
         /\ Top(t).ch # Mem => Top(t).ch \in Caches \ {Root} /\ Parent[Top(t).ch] = Top(t).n
<1>1. PICK s \in Seq(Frames), k \in Nat :
        /\ s = stack[t] /\ k = Len(s) /\ k >= 1 /\ k \in 1 .. Len(s) /\ s[k] = Top(t) /\ Shape(s)
        /\ FrameOK(s[k]) /\ s[1].n \in Leaves /\ s[k].n \in Caches
  BY Begun
<1>2. CASE Top(t).ch = Mem
  BY <1>1, <1>2, Family
<1>3. CASE Top(t).ch # Mem
  <2>1. k # 1
    BY <1>1, <1>3 DEF FrameOK
  <2>2. k > 1
    <3>1. k >= 1
      BY <1>1
    <3> QED
      BY <2>1, <3>1
  <2>3. s[k].ch = s[k - 1].n /\ s[k].n = Parent[s[k - 1].n] /\ s[k - 1].n \in Caches \ {Root}
    BY <1>1, <2>2, Callers
  <2> QED
    BY <1>1, <2>3, Family
<1> QED
  BY <1>2, <1>3

(* The lines of n are as they were, but for ones that held nothing.        *)
Alike(n, lines) ==
  \A b \in Addrs : lines[b] = st[n][b] \/ (~Valid(lines[b]) /\ ~Valid(st[n][b]))

LEMMA RowChange ==
  ASSUME IInv, NEW t \in Threads, Busy(t), IsAccess(Top(t)), Top(t).at # "tcc",
         NEW n \in Caches, n = Top(t).n, \A m \in Caches \ {n} : st'[m] = st[m],
         \A b \in Addrs : /\ Valid(st'[n][b]) => Valid(st[n][b])
                          /\ Excl(st[n][b]) => Excl(st'[n][b])
                          /\ st[n][b] = "M" => st'[n][b] = "M"
  PROVE  /\ \A m \in Caches : st'[m] # st[m] => Touches(t, m)
         /\ \A m \in Caches, b \in Addrs :
              /\ Valid(st'[m][b]) => Valid(st[m][b])
              /\ Excl(st[m][b]) => Excl(st'[m][b])
              /\ st[m][b] = "M" => st'[m][b] = "M"
<1>2. \A m \in Caches : st'[m] # st[m] => Touches(t, m)
  BY DEF Touches
<1>3. ASSUME NEW m \in Caches, NEW b \in Addrs
      PROVE  /\ Valid(st'[m][b]) => Valid(st[m][b])
             /\ Excl(st[m][b]) => Excl(st'[m][b])
             /\ st[m][b] = "M" => st'[m][b] = "M"
  <2>1. CASE m = n
    BY <2>1
  <2>2. CASE m # n
    BY <2>2
  <2> QED
    BY <2>1, <2>2
<1> QED
  BY <1>2, <1>3

LEMMA SendGets ==
  ASSUME IInv, FInv, NEW t \in Threads, Busy(t), IsAccess(Top(t)), Top(t).at # "tcc",
         wb[t] = NoAddr, UNCHANGED wb, NEW g \in AccessFrames, g.n = Top(t).n, g.ty \in Gets,
         NEW ty \in Gets, NEW a \in Addrs, NEW lines \in [Addrs -> States],
         Alike(Top(t).n, lines), lines[a] \in {"I", "S"}, SendUp(t, g, ty, a, lines[a], lines)
  PROVE  FInv'
<1>1. PICK n \in Caches : n = g.n /\ n = Top(t).n
  BY Begun
<1>2. CASE n = Root
  <2>1. /\ stack' = [stack EXCEPT ![t] = Frame(t, g)]
        /\ st' = [st EXCEPT ![Root] = [lines EXCEPT ![a] = MemState(t, ty)]]
        /\ fresh' = [fresh EXCEPT ![a] = MemFresh(ty, a, lines[a])]
    BY <1>1, <1>2 DEF SendUp
  <2>2. Top(t)' = g /\ \A u \in Threads \ {t} : stack'[u] = stack[u]
    BY <2>1, TopReplaced
  <2>3. PutOK(Top(t))'
    BY <2>2 DEF PutOK, Gets
  <2>4. \A b \in Addrs : lines[b] = st[Root][b] \/ (~Valid(lines[b]) /\ ~Valid(st[Root][b]))
    BY <1>1, <1>2 DEF Alike
  <2> QED
    BY <1>1, <1>2, <2>1, <2>2, <2>3, <2>4, RootGets
<1>3. CASE n # Root
  <2>1. PICK r \in AccessFrames : r = Request(Parent[n], ty, a, n, lines[a]) /\ r.at # "dir"
    <3>1. Parent[n] \in Caches /\ lines[a] \in States
      BY <1>3, Family
    <3>2. Request(Parent[n], ty, a, n, lines[a]) \in AccessFrames
      BY <3>1 DEF Request, AccessFrames
    <3>3. Request(Parent[n], ty, a, n, lines[a]).at # "dir"
      BY DEF Request
    <3> QED
      BY <3>2, <3>3
  <2>2. /\ stack' = [stack EXCEPT ![t] = Append(Frame(t, g), r)]
        /\ st' = [st EXCEPT ![n] = [lines EXCEPT ![a] = lines[a]]] /\ UNCHANGED fresh
    BY <1>1, <1>3, <2>1 DEF SendUp
  <2>3. Top(t)' = r /\ \A u \in Threads \ {t} : stack'[u] = stack[u]
    BY <2>2, TopSent
  <2>4. PutOK(Top(t))'
    BY <2>1, <2>3 DEF PutOK
  <2>5. st'[n] = lines /\ \A m \in Caches \ {n} : st'[m] = st[m]
    BY <2>2 DEF IInv, Types
  <2>6. \A b \in Addrs : /\ Valid(lines[b]) => Valid(st[n][b])
                         /\ Excl(st[n][b]) => Excl(lines[b])
                         /\ st[n][b] = "M" => lines[b] = "M"
    BY <1>1 DEF Alike, Valid, Excl
  <2>7. /\ \A m \in Caches : st'[m] # st[m] => Touches(t, m)
        /\ \A m \in Caches, b \in Addrs :
             /\ Valid(st'[m][b]) => Valid(st[m][b])
             /\ Excl(st[m][b]) => Excl(st'[m][b])
             /\ st[m][b] = "M" => st'[m][b] = "M"
    BY <1>1, <2>5, <2>6, RowChange
  <2> QED
    BY <2>2, <2>3, <2>4, <2>7, FreshOwn
<1> QED
  BY <1>2, <1>3

LEMMA ServeFresh ==
  ASSUME IInv, FInv, NEW t \in Threads, Busy(t), IsAccess(Top(t)), Top(t).at # "tcc",
         wb[t] = NoAddr, UNCHANGED wb, ~aborted',
         NEW f \in AccessFrames, f.n = Top(t).n, f.ch # f.n,
         f.ty = "PUTS" => f.ch \in Caches /\ st[f.ch][f.a] # "M",
         NEW lines \in [Addrs -> States], Alike(Top(t).n, lines), lines[f.a] # "none",
         Serve(t, f, lines)
  PROVE  FInv'
<1>1. PICK n \in Caches, a \in Addrs : n = f.n /\ n = Top(t).n /\ a = f.a /\ f.ty \in Gets \cup Puts
  BY FrameTypes
<1>2. PICK g \in AccessFrames : /\ g = [f EXCEPT !.at = IF n \in Leaves THEN "end" ELSE "dir"]
                                /\ g.n = n /\ g.ty = f.ty /\ g.a = a /\ g.ch = f.ch
  <2>1. PICK l \in {"tcc", "bcc", "evict", "insert", "dir", "end", "fill"} :
          l = IF n \in Leaves THEN "end" ELSE "dir"
    OBVIOUS
  <2>2. LET g == [f EXCEPT !.at = l] IN
        /\ g \in AccessFrames /\ g.n = f.n /\ g.ty = f.ty /\ g.a = f.a /\ g.ch = f.ch
        /\ g.init = f.init /\ g.v = f.v /\ g.at = l
    BY MoveAccess, Zenon
  <2> QED
    BY <1>1, <2>1, <2>2
<1> DEFINE up == f.ty \in Gets /\ (lines[a] = "I" \/ (f.ty = "GETX" /\ lines[a] = "S"))
           row == [lines EXCEPT ![a] = IF f.ty \in {"PUTX", "GETX"} THEN "M" ELSE @]
<1>3. CASE up
  <2>1. SendUp(t, g, f.ty, a, lines[a], lines)
    BY <1>1, <1>2, <1>3 DEF Serve
  <2>2. f.ty \in Gets /\ lines[a] \in {"I", "S"}
    BY <1>3
  <2> QED
    BY <1>1, <1>2, <2>1, <2>2, SendGets
<1>4. CASE ~up
  <2>1. /\ stack' = [stack EXCEPT ![t] = Frame(t, g)] /\ UNCHANGED fresh
        /\ st' = [st EXCEPT ![n] = row]
        /\ aborted' = ~(IF f.ty = "PUTX" THEN Excl(lines[a]) ELSE Valid(lines[a]))
    BY <1>1, <1>2, <1>4 DEF Serve, Check
  <2>2. f.ty \in {"PUTX", "GETX"} => Excl(lines[a])
    BY <1>1, <1>4, <2>1 DEF Valid, Excl, Gets, Puts
  <2>3. /\ row[a] = IF f.ty \in {"PUTX", "GETX"} THEN "M" ELSE lines[a]
        /\ \A b \in Addrs \ {a} : row[b] = lines[b]
    OBVIOUS
  <2> HIDE DEF row
  <2>4. \A b \in Addrs : /\ Valid(row[b]) => Valid(lines[b])
                         /\ Excl(lines[b]) => Excl(row[b])
                         /\ lines[b] = "M" => row[b] = "M"
    BY <2>2, <2>3 DEF Valid, Excl
  <2>5. \A b \in Addrs : /\ Valid(row[b]) => Valid(st[n][b])
                         /\ Excl(st[n][b]) => Excl(row[b])
                         /\ st[n][b] = "M" => row[b] = "M"
    BY <1>1, <2>4 DEF Alike, Valid, Excl
  <2>10. st'[n] = row /\ \A m \in Caches \ {n} : st'[m] = st[m]
    BY <2>1 DEF IInv, Types
  <2>6. /\ st'[n] = row
        /\ \A m \in Caches : st'[m] # st[m] => Touches(t, m)
        /\ \A m \in Caches, b \in Addrs :
             /\ Valid(st'[m][b]) => Valid(st[m][b])
             /\ Excl(st[m][b]) => Excl(st'[m][b])
             /\ st[m][b] = "M" => st'[m][b] = "M"
    BY <1>1, <2>5, <2>10, RowChange
  <2>7. Top(t)' = g /\ \A u \in Threads \ {t} : stack'[u] = stack[u]
    BY <2>1, TopReplaced
  <2>8. f.ty = "PUTS" => st'[f.ch] = st[f.ch]
    BY <1>1, <2>1 DEF IInv, Types
  <2>9. PutOK(Top(t))'
    BY <1>1, <1>2, <2>3, <2>6, <2>7, <2>8 DEF PutOK
  <2> QED
    BY <2>1, <2>6, <2>7, <2>9, FreshOwn
<1> QED
  BY <1>3, <1>4

LEMMA InsertFresh ==
  ASSUME IInv, FInv, NEW t \in Threads, Busy(t), IsAccess(Top(t)), Top(t).at # "tcc",
         wb[t] = NoAddr, UNCHANGED wb, ~aborted',
         NEW f \in AccessFrames, f.n = Top(t).n, f.ch # f.n, f.ty \in Gets,
         ~Valid(st[f.n][f.a]), f.v # NoAddr => ~Valid(st[f.n][f.v]), Insert(t, f)
  PROVE  FInv'
<1>1. PICK n \in Caches, a \in Addrs : n = f.n /\ n = Top(t).n /\ a = f.a /\ f.v \in Addrs \cup {NoAddr}
  BY FrameTypes
<1>2. PICK lines \in [Addrs -> States] :
        lines = [b \in Addrs |-> IF b = f.a THEN "I" ELSE IF b = f.v THEN "none" ELSE st[f.n][b]]
  <2>1. st[n] \in [Addrs -> States]
    BY DEF IInv, Types
  <2> QED
    BY <1>1, <2>1 DEF States
<1>3. Serve(t, f, lines)
  BY <1>2 DEF Insert
<1>4. Alike(n, lines)
  BY <1>1, <1>2, Family DEF Alike, Valid
<1>5. lines[f.a] = "I" /\ f.ty # "PUTS"
  BY <1>1, <1>2 DEF Gets
<1> QED
  BY <1>1, <1>3, <1>4, <1>5, ServeFresh

LEMMA RefillFresh ==
  ASSUME IInv, IInv', FInv, NEW t \in Threads, Refill(t)
  PROVE  FInv'
<1>1. PICK f \in AccessFrames : f = Top(t) /\ Busy(t) /\ IsAccess(f) /\ f.at = "insert"
  BY Begun, Classes DEF Refill, At
<1>2. ~aborted' /\ UNCHANGED wb
  BY DEF IInv, Refill
<1>3. Insert(t, f) /\ st[f.n][f.v] = "I"
  BY <1>1, <1>2 DEF Refill, Panic
<1>4. wb[t] = NoAddr /\ FrameOK(f) /\ FrameClaim(stack[t], Len(stack[t])) /\ f = stack[t][Len(stack[t])]
  BY <1>1, Begun DEF WritebackOK
<1>5. f.a \notin Tagged(f.n) /\ f.a \in Addrs /\ f.n \in Caches /\ f.ty \in Gets
  BY <1>1, <1>4, FrameTypes DEF FrameClaim, VictimOK, FrameOK
<1>6. ~Valid(st[f.n][f.a]) /\ ~Valid(st[f.n][f.v])
  BY <1>3, <1>5 DEF Tagged, Valid
<1>7. f.ch # f.n
  BY <1>1, RequesterBelow
<1> QED
  BY <1>1, <1>2, <1>3, <1>4, <1>5, <1>6, <1>7, InsertFresh

LEMMA LookupFresh ==
  ASSUME IInv, IInv', FInv, NEW t \in Threads, Lookup(t)
  PROVE  FInv'
<1>1. PICK e \in AccessFrames : /\ e = Top(t) /\ Busy(t) /\ IsAccess(e) /\ e.at = "bcc" /\ wb[t] = NoAddr
                                /\ FrameOK(e) /\ ReqOK(e) /\ e.v = NoAddr
  <2>1. Busy(t) /\ IsAccess(Top(t)) /\ Top(t).at = "bcc"
    BY DEF Lookup, At
  <2>2. /\ Top(t) \in AccessFrames /\ FrameOK(Top(t)) /\ WritebackOK(t)
        /\ FrameClaim(stack[t], Len(stack[t])) /\ Top(t) = stack[t][Len(stack[t])]
    BY <2>1, Begun, Classes
  <2>3. ReqOK(Top(t))
    BY <2>1, <2>2 DEF FrameClaim
  <2> QED
    BY <2>1, <2>2, <2>3 DEF WritebackOK, FrameOK
<1>2. PICK n \in Caches : n = e.n /\ st[n] \in [Addrs -> States]
  BY FrameTypes DEF IInv, Types
<1>3. ~aborted' /\ UNCHANGED wb
  BY DEF IInv, Lookup
<1>4. PICK race \in Gets \cup Puts \cup {"skip", "panic"} : race = AfterRace(e)
  <2>1. e.ty \in Gets \cup Puts
    BY FrameTypes
  <2> QED
    BY <2>1 DEF AfterRace, Gets, Puts
<1> DEFINE f == [e EXCEPT !.ty = race]
<1>5. /\ f.n = n /\ f.a = e.a /\ f.v = NoAddr /\ f.ch = e.ch /\ f.ty = race
      /\ race \in Gets \cup Puts => f \in AccessFrames
  <2>1. /\ f.n = e.n /\ f.a = e.a /\ f.v = e.v /\ f.ch = e.ch /\ f.ty = race
        /\ race \in Gets \cup Puts => f \in AccessFrames
    BY DEF AccessFrames
  <2> QED
    BY <1>1, <1>2, <2>1
<1>6. f.ch # f.n /\ (race = "PUTS" => e.ch \in Caches /\ st[e.ch][e.a] # "M")
  <2>1. e.ch # e.n /\ (e.ch # Mem => e.ch \in Caches)
    BY <1>1, RequesterBelow
  <2>2. race = "PUTS" => e.ty \in Puts /\ e.ch # Mem
    <3>1. e.ch # Mem => st[e.ch][e.a] \in States
      BY <2>1, FrameTypes DEF IInv, Types
    <3> QED
      BY <1>1, <1>4, <3>1, RaceResult DEF Puts
  <2>3. race = "PUTS" /\ st[e.ch][e.a] = "M" => FALSE
    BY <1>1, <1>4, <2>2 DEF AfterRace, ChildState, ReqOK, Puts, Gets
  <2> QED
    BY <1>2, <1>5, <2>1, <2>2, <2>3
<1>7. \/ Panic
      \/ Goto(t, "end") /\ UNCHANGED <<st, fresh>>
      \/ race \in Gets \cup Puts /\ e.a \in Tagged(n) /\ Serve(t, f, st[n])
      \/ race \in Gets /\ e.a \notin Tagged(n) /\ Insert(t, f)
      \/ /\ race \in Gets /\ UNCHANGED <<st, fresh>>
         /\ \E v \in Tagged(n) :
              stack' = [stack EXCEPT ![t] = Frame(t, [f EXCEPT !.at = "evict", !.v = v])]
  <2>1. Victims(n) \subseteq {NoAddr} \cup Tagged(n)
    BY DEF Victims
  <2>2. \/ Panic
        \/ Goto(t, "end") /\ UNCHANGED <<st, fresh>>
        \/ race \in Gets \cup Puts /\ f.a \in Tagged(f.n) /\ Serve(t, f, st[f.n])
        \/ /\ race \in Gets /\ f.a \notin Tagged(f.n)
           /\ \E v \in Victims(f.n) :
                IF v = NoAddr THEN Insert(t, f)
                ELSE /\ stack' = [stack EXCEPT ![t] = Frame(t, [f EXCEPT !.at = "evict", !.v = v])]
                     /\ UNCHANGED <<st, fresh>>
    BY <1>1, <1>4 DEF Lookup
  <2> QED
    BY <1>5, <2>1, <2>2
<1>8. CASE Panic
  BY <1>3, <1>8 DEF Panic
<1>9. CASE Goto(t, "end") /\ UNCHANGED <<st, fresh>>
  <2>1. PICK g \in AccessFrames : g = [e EXCEPT !.at = "end"] /\ g.at = "end"
    <3>1. [e EXCEPT !.at = "end"] \in AccessFrames /\ [e EXCEPT !.at = "end"].at = "end"
      BY DEF AccessFrames
    <3> QED
      BY <3>1
  <2>2. Top(t)' = g /\ \A u \in Threads \ {t} : stack'[u] = stack[u]
    BY <1>1, <1>9, <2>1, MoveIsFrame, TopReplaced
  <2>3. PutOK(Top(t))'
    BY <2>1, <2>2 DEF PutOK
  <2> QED
    BY <1>1, <1>3, <1>9, <2>2, <2>3, FreshQuiet
<1>10. CASE race \in Gets \cup Puts /\ e.a \in Tagged(n) /\ Serve(t, f, st[n])
  <2>1. PICK h \in AccessFrames : h = f
    BY <1>5, <1>10
  <2>2. PICK lines \in [Addrs -> States] : lines = st[n]
    BY <1>2
  <2>3. Alike(n, lines) /\ lines[h.a] # "none"
    BY <1>5, <1>10, <2>1, <2>2 DEF Alike, Tagged
  <2>4. h.n = Top(t).n /\ h.ch # h.n /\ (h.ty = "PUTS" => h.ch \in Caches /\ st[h.ch][h.a] # "M")
    BY <1>1, <1>2, <1>5, <1>6, <2>1
  <2>5. Serve(t, h, lines) /\ Alike(Top(t).n, lines)
    BY <1>1, <1>2, <1>10, <2>1, <2>2, <2>3
  <2> QED
    BY <1>1, <1>3, <2>3, <2>4, <2>5, ServeFresh
<1>11. CASE race \in Gets /\ e.a \notin Tagged(n) /\ Insert(t, f)
  <2>1. PICK h \in AccessFrames : h = f
    BY <1>5, <1>11
  <2>2. e.a \in Addrs
    BY FrameTypes
  <2>3. ~Valid(st[h.n][h.a]) /\ h.v = NoAddr
    BY <1>5, <1>11, <2>1, <2>2 DEF Tagged, Valid
  <2>4. h.n = Top(t).n /\ h.ch # h.n /\ h.ty \in Gets /\ Insert(t, h)
    BY <1>1, <1>2, <1>5, <1>6, <1>11, <2>1
  <2> QED
    BY <1>1, <1>3, <2>3, <2>4, InsertFresh
<1>12. CASE /\ race \in Gets /\ UNCHANGED <<st, fresh>>
            /\ \E v \in Tagged(n) :
                 stack' = [stack EXCEPT ![t] = Frame(t, [f EXCEPT !.at = "evict", !.v = v])]
  <2>1. PICK v \in Addrs : stack' = [stack EXCEPT ![t] = Frame(t, [f EXCEPT !.at = "evict", !.v = v])]
    BY <1>12 DEF Tagged
  <2>2. PICK g \in AccessFrames : g = [f EXCEPT !.at = "evict", !.v = v] /\ g.at = "evict"
    <3>1. PICK h \in AccessFrames : h = f
      BY <1>5, <1>12
    <3>2. /\ [h EXCEPT !.at = "evict", !.v = v] \in AccessFrames
          /\ [h EXCEPT !.at = "evict", !.v = v].at = "evict"
      BY DEF AccessFrames
    <3> QED
      BY <3>1, <3>2
  <2>3. Top(t)' = g /\ \A u \in Threads \ {t} : stack'[u] = stack[u]
    BY <1>1, <2>1, <2>2, TopReplaced
  <2>4. PutOK(Top(t))'
    BY <2>2, <2>3 DEF PutOK
  <2> QED
    BY <1>1, <1>3, <1>12, <2>3, <2>4, FreshQuiet
<1> QED
  BY <1>7, <1>8, <1>9, <1>10, <1>11, <1>12

(* Only the thread that holds a cache brings something to it.              *)
LEMMA OnlyInducer ==
  ASSUME IInv, NEW u \in Threads, Busy(u), wb[u] # NoAddr
  PROVE  /\ Top(u).at \in {"evict", "dir", "down"} /\ Holds(stack[u], Len(stack[u]))
         /\ bcc[Top(u).n] = u
         /\ \A t \in Threads : \A j \in 1 .. Len(stack[t]) :
              Holds(stack[t], j) /\ stack[t][j].n = Top(u).n => t = u
<1>1. PICK k \in Nat : /\ k = Len(stack[u]) /\ k \in 1 .. Len(stack[u]) /\ Top(u) = stack[u][k]
                       /\ WritebackOK(u) /\ Top(u) \in Frames /\ Locked(u)
  BY Begun
<1>2. Top(u).at \in {"evict", "dir", "down"}
  BY <1>1 DEF WritebackOK
<1>3. Holds(stack[u], k)
  <2>1. IsAccess(Top(u)) => Top(u).at # "down"
    BY <1>1, Classes, FrameTypes
  <2>2. ~IsAccess(Top(u)) => Top(u).at \in {"lock", "down"}
    BY <1>1, Classes, FrameTypes
  <2> QED
    BY <1>1, <1>2, <2>1, <2>2 DEF Holds
<1>4. \A t \in Threads : ThreadOK(t)
  BY DEF IInv
<1>5. bcc[Top(u).n] = u
  BY <1>1, <1>3 DEF Locked
<1> QED
  BY <1>1, <1>2, <1>3, <1>4, <1>5, HoldsOnce

(* A copy that no child has is as good as it gets.                         *)
LEMMA NoChildFresh ==
  ASSUME IInv, FInv, NEW n \in Caches, NEW a \in Addrs, Valid(st[n][a]), ~dir[n][a].ex
  PROVE  n \in fresh[a]
<1>1. \A c \in Children(n) : ~Excl(st[c][a])
  BY DEF IInv, DirOK
<1> QED
  BY <1>1 DEF FInv, FreshAt, Answers

(* Some child of the root has each line that any cache below it has.       *)
LEMMA TopCopies ==
  ASSUME IInv, NEW m \in Caches \ {Root}, NEW a \in Addrs, Valid(st[m][a])
  PROVE  \E c \in Children(Root) : Valid(st[c][a])
<1>1. PICK X \in SUBSET (Caches \ {Root}) : X = {c \in Caches \ {Root} : Valid(st[c][a])}
  OBVIOUS
<1>2. PICK c \in X : Parent[c] \notin X
  BY <1>1, CoherenceAssumption
<1>3. Valid(st[Parent[c]][a]) /\ Parent[c] \in Caches
  BY <1>1, <1>2, Family DEF IInv, DirOK
<1>4. Parent[c] = Root
  BY <1>1, <1>2, <1>3
<1> QED
  BY <1>1, <1>2, <1>4, Family

LEMMA EvictWriteFresh ==
  ASSUME IInv, FInv, NEW t \in Threads, EvictWrite(t)
  PROVE  FInv'
<1>1. PICK e \in AccessFrames, n \in Caches, a \in Addrs :
        /\ e = Top(t) /\ n = e.n /\ a = e.v /\ Busy(t) /\ IsAccess(e) /\ e.at = "evict" /\ e.ty \in Gets
        /\ WritebackOK(t)
  <2>1. Busy(t) /\ IsAccess(Top(t)) /\ Top(t).at = "evict"
    BY DEF EvictWrite, At
  <2>2. Top(t) \in AccessFrames /\ FrameOK(Top(t)) /\ WritebackOK(t)
    BY <2>1, Begun, Classes
  <2> QED
    BY <2>1, <2>2, FrameTypes DEF FrameOK
<1>2. PICK now \in States : now = IF wb[t] = NoAddr THEN st[n][a] ELSE "M"
  BY DEF IInv, Types, States
<1>3. PICK ty \in Puts : ty = IF now = "M" THEN "PUTX" ELSE "PUTS"
  BY DEF Puts
<1>4. PICK g \in AccessFrames : g = [e EXCEPT !.at = "insert"] /\ g.n = n /\ g.at = "insert"
  <2>1. /\ [e EXCEPT !.at = "insert"] \in AccessFrames
        /\ [e EXCEPT !.at = "insert"].n = e.n /\ [e EXCEPT !.at = "insert"].at = "insert"
    BY DEF AccessFrames
  <2> QED
    BY <1>1, <2>1
<1>5. /\ dir[n][a].sh = {} /\ wb' = [wb EXCEPT ![t] = NoAddr]
      /\ IF Valid(now) THEN SendUp(t, g, ty, a, now, st[n])
         ELSE stack' = [stack EXCEPT ![t] = Frame(t, g)] /\ UNCHANGED <<st, bcc, fresh>>
  BY <1>1, <1>2, <1>3, <1>4 DEF EvictWrite
<1>6. /\ wb[t] # NoAddr => wb[t] = a /\ Excl(st[n][a])
      /\ Valid(now) <=> Valid(st[n][a])
      /\ wb[t] = NoAddr => now = st[n][a]
  BY <1>1, <1>2 DEF WritebackOK, Valid, Excl
<1>7. \A u \in Threads \ {t} : wb'[u] = wb[u]
  BY <1>5 DEF IInv, Types
<1>8. Valid(st[n][a]) => n \in fresh[a]
  <2>1. Types /\ DirOK
    BY DEF IInv
  <2>2. dir[n][a].ex => \E c \in Children(n) : dir[n][a].sh = {c}
    BY <2>1, Exclusive
  <2> QED
    BY <1>5, <2>2, NoChildFresh
<1>9. CASE ~Valid(now)
  <2>1. stack' = [stack EXCEPT ![t] = Frame(t, g)] /\ UNCHANGED <<st, bcc, fresh>>
    BY <1>5, <1>9
  <2>2. wb[t] = NoAddr
    BY <1>6, <1>9 DEF Valid, Excl
  <2>3. UNCHANGED wb
    BY <1>5, <2>2 DEF IInv, Types
  <2>4. Top(t)' = g /\ \A u \in Threads \ {t} : stack'[u] = stack[u]
    BY <1>1, <2>1, TopReplaced
  <2>5. PutOK(Top(t))'
    BY <1>4, <2>4 DEF PutOK
  <2> QED
    BY <2>1, <2>2, <2>3, <2>4, <2>5, FreshQuiet
<1>10. CASE Valid(now) /\ n # Root
  <2>1. PICK r \in AccessFrames : r = Request(Parent[n], ty, a, n, now) /\ r.at # "dir"
    <3>1. Parent[n] \in Caches
      BY <1>10, Family
    <3>2. Request(Parent[n], ty, a, n, now) \in AccessFrames
      BY <3>1 DEF Request, AccessFrames
    <3>3. Request(Parent[n], ty, a, n, now).at # "dir"
      BY DEF Request
    <3> QED
      BY <3>2, <3>3
  <2>2. /\ stack' = [stack EXCEPT ![t] = Append(Frame(t, g), r)]
        /\ st' = [st EXCEPT ![n] = [st[n] EXCEPT ![a] = now]] /\ UNCHANGED fresh
    BY <1>4, <1>5, <1>10, <2>1 DEF SendUp
  <2>3. Top(t)' = r /\ \A u \in Threads \ {t} : stack'[u] = stack[u]
    BY <1>1, <2>2, TopSent
  <2>4. PutOK(Top(t))'
    BY <2>1, <2>3 DEF PutOK
  <2>5. /\ st'[n][a] = now /\ \A b \in Addrs \ {a} : st'[n][b] = st[n][b]
        /\ \A m \in Caches \ {n} : st'[m] = st[m]
    BY <2>2 DEF IInv, Types
  <2>6. \A b \in Addrs : /\ Valid(st'[n][b]) => Valid(st[n][b])
                         /\ Excl(st[n][b]) => Excl(st'[n][b])
                         /\ st[n][b] = "M" => st'[n][b] = "M"
    <3>1. /\ Valid(now) => Valid(st[n][a])
          /\ Excl(st[n][a]) => Excl(now)
          /\ st[n][a] = "M" => now = "M"
      BY <1>2, <1>6 DEF Valid, Excl
    <3> QED
      BY <2>5, <3>1
  <2>7. /\ \A m \in Caches : st'[m] # st[m] => Touches(t, m)
        /\ \A m \in Caches, b \in Addrs :
             /\ Valid(st'[m][b]) => Valid(st[m][b])
             /\ Excl(st[m][b]) => Excl(st'[m][b])
             /\ st[m][b] = "M" => st'[m][b] = "M"
    BY <1>1, <2>5, <2>6, RowChange
  <2>8. wb[t] = NoAddr \/ st'[Top(t).n][wb[t]] = "M"
    BY <1>1, <1>2, <1>6, <2>5
  <2> QED
    BY <1>7, <2>2, <2>3, <2>4, <2>7, <2>8, FreshOwn
<1>11. CASE Valid(now) /\ n = Root
  <2>1. /\ stack' = [stack EXCEPT ![t] = Frame(t, g)]
        /\ st' = [st EXCEPT ![Root] = [st[Root] EXCEPT ![a] = MemState(t, ty)]]
        /\ fresh' = [fresh EXCEPT ![a] = MemFresh(ty, a, now)]
    BY <1>4, <1>5, <1>11 DEF SendUp
  <2>2. Top(t)' = g /\ \A u \in Threads \ {t} : stack'[u] = stack[u]
    BY <1>1, <2>1, TopReplaced
  <2>3. PutOK(Top(t))'
    BY <1>4, <2>2 DEF PutOK
  <2>4. /\ st'[Root][a] = "I" /\ \A b \in Addrs \ {a} : st'[Root][b] = st[Root][b]
        /\ \A m \in Caches \ {Root} : st'[m] = st[m]
        /\ fresh'[a] = MemFresh(ty, a, now) /\ \A b \in Addrs \ {a} : fresh'[b] = fresh[b]
    BY <1>3, <1>11, <2>1 DEF MemState, IInv, Types
  <2>5. \A m \in Caches : st'[m] # st[m] => Touches(t, m)
    BY <1>1, <1>11, <2>4 DEF Touches
  <2>6. PutsOK'
    BY <2>2, <2>3, <2>5, PutsStay DEF FInv
  <2>7. ASSUME NEW b \in Addrs, b # a PROVE FreshAt(b)'
    <3>1. \A m \in Caches : Induced(m, b) => Induced(m, b)'
      BY <1>6, <1>7, <2>2, <2>7, InducedStays, Family
    <3>2. \A m \in Caches : st'[m][b] = st[m][b]
      BY <2>4, <2>7
    <3> QED
      BY <2>4, <2>7, <3>1, <3>2, FreshStays DEF FInv
  <2>8. Mem \in fresh'[a] /\ fresh[a] \ {Root} \subseteq fresh'[a]
    <3>1. Root \in fresh[a] /\ Mem # Root
      BY <1>6, <1>8, <1>11, Family
    <3>2. CASE ty = "PUTX"
      BY <2>4, <3>1, <3>2 DEF MemFresh
    <3>3. CASE ty = "PUTS"
      <4>1. wb[t] = NoAddr /\ st[Root][a] # "M"
        BY <1>2, <1>3, <1>6, <1>11, <3>3
      <4>2. ~Induced(Root, a)
        <5>1. SUFFICES ASSUME NEW u \in Threads, wb[u] = a, Busy(u), Top(u).n = Root PROVE FALSE
          BY DEF Induced
        <5>2. PICK k \in 1 .. Len(stack[t]) : Holds(stack[t], k) /\ stack[t][k].n = Root
          <6>1. Len(stack[t]) \in 1 .. Len(stack[t]) /\ stack[t][Len(stack[t])] = e
            BY <1>1, Begun
          <6>2. Holds(stack[t], Len(stack[t]))
            BY <1>1, <6>1 DEF Holds
          <6> QED
            BY <1>1, <1>11, <6>1, <6>2
        <5>3. t = u
          BY <5>1, <5>2, Family, OnlyInducer
        <5> QED
          BY <4>1, <5>1, <5>3, Family
      <4>3. Mem \in fresh[a]
        BY <3>1, <4>1, <4>2 DEF FInv, FreshAt, Answers
      <4> QED
        BY <2>4, <3>1, <3>3, <4>3 DEF MemFresh
    <3> QED
      BY <1>3, <3>2, <3>3
  <2>9. FreshAt(a)'
    <3>1. ASSUME NEW m \in Caches, Valid(st'[m][a]), m \notin fresh'[a]
          PROVE  FALSE
      <4>1. m # Root /\ Valid(st[m][a])
        BY <2>4, <3>1 DEF Valid
      <4>2. \E c \in Children(Root) : Valid(st[c][a])
        BY <4>1, TopCopies
      <4> QED
        BY <1>5, <1>11, <4>2 DEF IInv, DirOK
    <3> QED
      BY <2>8, <3>1 DEF FreshAt, Children
  <2> QED
    BY <2>6, <2>7, <2>9 DEF FInv
<1> QED
  BY <1>9, <1>10, <1>11

(* A put of the child: what it had is now the cache's alone.               *)
LEMMA DirPutFresh ==
  ASSUME IInv, HInv, FInv, NEW t \in Threads, DirPut(t)
  PROVE  FInv'
<1>0. At(t, "dir") /\ Types /\ DirOK
  BY DEF DirPut, IInv
<1>1. PICK e \in AccessFrames, n \in Caches, ch \in Caches, a \in Addrs :
           /\ e = Top(t) /\ n = e.n /\ ch = e.ch /\ e.at = "dir" /\ Busy(t) /\ e.ch # Mem
           /\ a = e.a /\ ReqOK(e) /\ WritebackOK(t) /\ ch \in Children(n)
  BY <1>0, Serving
<1>2. /\ e.ty \in Puts /\ st' = [st EXCEPT ![ch][a] = "I"]
      /\ fresh' = [fresh EXCEPT ![a] = FreshAfter(e, FALSE)]
      /\ Goto(t, "end") /\ UNCHANGED wb
  BY <1>1 DEF DirPut
<1>3. IsAccess(Top(t)) /\ wb[t] = NoAddr
  BY <1>0, <1>1, <1>2 DEF At, WritebackOK, Puts
<1>4. /\ st'[ch][a] = "I" /\ \A b \in Addrs \ {a} : st'[ch][b] = st[ch][b]
      /\ \A m \in Caches \ {ch} : st'[m] = st[m]
      /\ fresh'[a] = FreshAfter(e, FALSE) /\ \A b \in Addrs \ {a} : fresh'[b] = fresh[b]
  BY <1>0, <1>2 DEF Types
<1>5. PICK g \in AccessFrames : g.at = "end" /\ stack' = [stack EXCEPT ![t] = Frame(t, g)]
  <2>1. [e EXCEPT !.at = "end"] \in AccessFrames /\ [e EXCEPT !.at = "end"].at = "end"
    BY DEF AccessFrames
  <2> QED
    BY <1>1, <1>2, <2>1, MoveIsFrame
<1>6. Top(t)' = g /\ \A u \in Threads \ {t} : stack'[u] = stack[u]
  BY <1>1, <1>5, TopReplaced
<1>7. PutsOK'
  <2>1. PutOK(Top(t))'
    BY <1>5, <1>6 DEF PutOK
  <2>2. \A m \in Caches : st'[m] # st[m] => Touches(t, m)
    BY <1>1, <1>3, <1>4 DEF Touches
  <2> QED
    BY <1>6, <2>1, <2>2, PutsStay DEF FInv
<1>8. \A c \in Caches, b \in Addrs : Induced(c, b) => Induced(c, b)'
  BY <1>2, <1>3, <1>6, InducedStays, Family
<1>9. ASSUME NEW b \in Addrs, b # a PROVE FreshAt(b)'
  <2>1. \A m \in Caches : st'[m][b] = st[m][b]
    BY <1>4, <1>9
  <2> QED
    BY <1>4, <1>8, <1>9, <2>1, FreshStays DEF FInv
<1>10. dir[ch][a].sh = {} /\ Valid(st[ch][a]) /\ (e.ty = "PUTX" => st[ch][a] = "M") /\ e.ty \in {"PUTS", "PUTX"}
  BY <1>1, <1>2 DEF ReqOK, Gets, Puts, Valid
<1>11. ch \in fresh[a]
  <2>1. dir[ch][a].ex => \E c \in Children(ch) : dir[ch][a].sh = {c}
    BY <1>0, Exclusive
  <2> QED
    BY <1>10, <2>1, NoChildFresh
<1>12. /\ fresh[a] \ {ch} \subseteq fresh'[a] /\ n # ch
       /\ fresh'[a] \subseteq fresh[a] \cup {n}
  BY <1>1, <1>4, <1>10, <1>11, Family DEF FreshAfter
<1>13. n \in fresh'[a] /\ (e.ty = "PUTX" => st[n][a] = "M") /\ (e.ty = "PUTS" => n \in fresh[a])
  <2>1. CASE e.ty = "PUTX"
    <3>1. PutOK(e)
      BY <1>1 DEF FInv, PutsOK
    <3>2. st[n][a] = "M"
      BY <1>1, <1>3, <2>1, <3>1 DEF PutOK
    <3>3. n \in fresh'[a]
      BY <1>1, <1>4, <1>11, <1>12, <2>1 DEF FreshAfter
    <3> QED
      BY <2>1, <3>2, <3>3
  <2>2. CASE e.ty = "PUTS"
    <3>1. st[ch][a] # "M"
      BY <1>1, <1>3, <2>2 DEF FInv, PutsOK, PutOK
    <3>2. ~Induced(ch, a)
      <4>1. SUFFICES ASSUME NEW u \in Threads, wb[u] = a, Busy(u), Top(u).n = ch PROVE FALSE
        BY DEF Induced
      <4>2. bcc[ch] = u
        BY <4>1, OnlyInducer, Family
      <4>3. bcc[ch] \notin Threads
        BY <1>1, <1>3, ChildFree
      <4> QED
        BY <4>2, <4>3
    <3>3. \A c \in Children(n) : Excl(st[c][a]) => c = ch
      BY <1>0, <1>1, <1>10 DEF DirOK
    <3>4. ~\E c \in Children(n) : Answers(c, a)
      BY <1>11, <3>1, <3>2, <3>3 DEF Answers
    <3>5. Valid(st[n][a])
      BY <1>0, <1>1, <1>10 DEF DirOK
    <3>6. n \in fresh[a]
      BY <3>4, <3>5 DEF FInv, FreshAt
    <3> QED
      BY <1>12, <2>2, <3>6
  <2> QED
    BY <1>10, <2>1, <2>2
<1>14. ASSUME NEW c \in Caches, c # ch, Answers(c, a) PROVE Answers(c, a)'
  <2>1. st'[c] = st[c] /\ (Induced(c, a) => Induced(c, a)')
    BY <1>4, <1>8, <1>14
  <2>2. c \notin fresh[a] => c \notin fresh'[a] \/ st[c][a] = "M"
    BY <1>10, <1>12, <1>13
  <2> QED
    BY <1>14, <2>1, <2>2 DEF Answers
<1>15. FreshAt(a)'
  <2>1. ASSUME NEW m \in Caches, Valid(st'[m][a]), m \notin fresh'[a]
        PROVE  \E c \in Children(m) : Answers(c, a)'
    <3>1. m # ch /\ m # n
      BY <1>4, <1>13, <2>1 DEF Valid
    <3>2. Valid(st[m][a]) /\ m \notin fresh[a]
      BY <1>4, <1>12, <2>1, <3>1
    <3>3. PICK c \in Children(m) : Answers(c, a)
      BY <3>2 DEF FInv, FreshAt
    <3>4. c \in Caches /\ c # ch
      BY <1>1, <3>1, Family
    <3> QED
      BY <1>14, <3>3, <3>4
  <2>2. Mem \notin fresh'[a] => Answers(Root, a)'
    <3>1. Root \in Caches /\ Root # ch /\ Mem # ch
      BY <1>1, Family
    <3>2. Mem \notin fresh'[a] => Mem \notin fresh[a]
      BY <1>12, <3>1
    <3> QED
      BY <1>14, <3>1, <3>2 DEF FInv, FreshAt
  <2> QED
    BY <2>1, <2>2 DEF FreshAt, Children
<1> QED
  BY <1>7, <1>9, <1>15 DEF FInv

(* A get of the child: the cache has the last write, and so has the child. *)
LEMMA DirGrantFresh ==
  ASSUME IInv, FInv, NEW t \in Threads, DirGrant(t)
  PROVE  FInv'
<1>0. At(t, "dir") /\ Types /\ DirOK
  BY DEF DirGrant, IInv
<1>1. PICK e \in AccessFrames, n \in Caches, ch \in Caches, a \in Addrs :
           /\ e = Top(t) /\ n = e.n /\ ch = e.ch /\ e.at = "dir" /\ Busy(t) /\ e.ch # Mem
           /\ a = e.a /\ ReqOK(e) /\ OwnOK(e) /\ WritebackOK(t) /\ ch \in Children(n)
  BY <1>0, Serving
<1>2. PICK x \in States :
      /\ e.ty \in Gets /\ Conflicts(e) = {} /\ wb' = [wb EXCEPT ![t] = NoAddr] /\ Goto(t, "end")
      /\ st' = [st EXCEPT ![ch][a] = x, ![n][a] = IF wb[t] # NoAddr THEN "M" ELSE @]
      /\ fresh' = [fresh EXCEPT ![a] = FreshAfter(e, ch \in dir[n][a].sh)]
  <2>1. /\ e.ty \in Gets /\ Conflicts(e) = {} /\ wb' = [wb EXCEPT ![t] = NoAddr] /\ Goto(t, "end")
    BY <1>1 DEF DirGrant
  <2> DEFINE alone == e.ty = "GETX" \/ (dir[n][a].sh = {} /\ Excl(st[n][a]) /\ t \notin NoExcl)
             x == IF e.ty = "GETX" THEN "M" ELSE IF alone THEN "E" ELSE "S"
  <2>2. st' = [st EXCEPT ![ch][a] = x, ![n][a] = IF wb[t] # NoAddr THEN "M" ELSE @]
    BY <1>1, Zenon DEF DirGrant
  <2>3. fresh' = [fresh EXCEPT ![a] = FreshAfter(e, ch \in dir[n][a].sh)]
    BY <1>1, Zenon DEF DirGrant
  <2>4. x \in States
    BY DEF States
  <2> QED
    BY <2>1, <2>2, <2>3, <2>4
<1>3. /\ IsAccess(Top(t)) /\ wb[t] \in {NoAddr, a} /\ (wb[t] # NoAddr => Excl(st[n][a]))
      /\ n # ch /\ a # NoAddr
  <2>1. IsAccess(Top(t)) /\ n # ch /\ a # NoAddr
    BY <1>0, <1>1, Family DEF At
  <2>2. wb[t] # NoAddr => wb[t] = a
    BY <1>1, <1>2 DEF WritebackOK
  <2>3. wb[t] # NoAddr => Excl(st[n][a])
    BY <1>1, <2>2 DEF WritebackOK
  <2> QED
    BY <2>1, <2>2, <2>3
<1>4. /\ \A b \in Addrs \ {a} : st'[ch][b] = st[ch][b] /\ st'[n][b] = st[n][b] /\ fresh'[b] = fresh[b]
      /\ \A m \in Caches \ {ch, n} : st'[m] = st[m]
      /\ st'[n][a] = IF wb[t] # NoAddr THEN "M" ELSE st[n][a]
      /\ fresh'[a] = FreshAfter(e, ch \in dir[n][a].sh)
      /\ \A u \in Threads \ {t} : wb'[u] = wb[u]
  BY <1>0, <1>2, <1>3 DEF Types
<1>5. PICK g \in AccessFrames : g.at = "end" /\ stack' = [stack EXCEPT ![t] = Frame(t, g)]
  <2>1. [e EXCEPT !.at = "end"] \in AccessFrames /\ [e EXCEPT !.at = "end"].at = "end"
    BY DEF AccessFrames
  <2> QED
    BY <1>1, <1>2, <2>1, MoveIsFrame
<1>6. Top(t)' = g /\ \A u \in Threads \ {t} : stack'[u] = stack[u]
  BY <1>1, <1>5, TopReplaced
<1>7. PutsOK'
  <2>1. PutOK(Top(t))'
    BY <1>5, <1>6 DEF PutOK
  <2>2. \A m \in Caches : st'[m] # st[m] => Touches(t, m)
    BY <1>1, <1>3, <1>4 DEF Touches
  <2> QED
    BY <1>6, <2>1, <2>2, PutsStay DEF FInv
<1>8. ASSUME NEW b \in Addrs, b # a PROVE FreshAt(b)'
  <2>1. \A m \in Caches : st'[m][b] = st[m][b]
    BY <1>4, <1>8
  <2>2. wb[t] # b
    BY <1>3, <1>8, Family
  <2>3. \A c \in Caches : Induced(c, b) => Induced(c, b)'
    BY <1>4, <1>6, <2>2, InducedStays
  <2> QED
    BY <1>4, <1>8, <2>1, <2>3, FreshStays DEF FInv
<1>9. n \in fresh[a]
  <2>1. Valid(st[n][a])
    BY <1>1, <1>2 DEF OwnOK, Valid
  <2>2. ~Excl(st[ch][a])
    BY <1>1, <1>2 DEF ReqOK, Gets, Excl
  <2>3. /\ IsExclusive(dir[n][a]) <=> dir[n][a].ex
        /\ dir[n][a].ex => \E c \in dir[n][a].sh : Excl(st[c][a])
    <3>1. /\ IsExclusive(dir[n][a]) <=> dir[n][a].ex
          /\ \A c \in dir[n][a].sh : dir[n][a].ex => Excl(st[c][a])
          /\ dir[n][a].ex => \E c \in Children(n) : dir[n][a].sh = {c}
      BY <1>0, Exclusive
    <3> QED
      BY <3>1
  <2>4. ~dir[n][a].ex
    <3>1. e.ty = "GETX" => dir[n][a].sh \subseteq {ch}
      BY <1>1, <1>2 DEF Conflicts
    <3>2. e.ty # "GETX" => ~IsExclusive(dir[n][a]) \/ dir[n][a].sh = {}
      BY <1>1, <1>2 DEF Conflicts
    <3> QED
      BY <2>2, <2>3, <3>1, <3>2
  <2> QED
    BY <2>1, <2>4, NoChildFresh
<1>10. fresh'[a] = fresh[a] \cup {ch}
  BY <1>1, <1>2, <1>4, <1>9 DEF FreshAfter, Gets
<1>11. ASSUME NEW c \in Caches, c # ch, Answers(c, a) PROVE Answers(c, a)'
  <2>1. /\ Excl(st[c][a]) => Excl(st'[c][a])
        /\ st[c][a] = "M" => st'[c][a] = "M"
    BY <1>3, <1>4, <1>11 DEF Excl
  <2>2. Induced(c, a) => Induced(c, a)' \/ st'[c][a] = "M"
    <3>1. CASE wb[t] = a /\ c = n
      BY <1>3, <1>4, <3>1
    <3>2. CASE ~(wb[t] = a /\ c = n)
      <4>1. ~(wb[t] = a /\ Busy(t) /\ Top(t).n = c)
        BY <1>1, <3>2
      <4> QED
        BY <1>4, <1>6, <4>1, InducedStays
    <3> QED
      BY <3>1, <3>2
  <2> QED
    BY <1>10, <1>11, <2>1, <2>2 DEF Answers
<1>12. FreshAt(a)'
  <2>1. ASSUME NEW m \in Caches, Valid(st'[m][a]), m \notin fresh'[a]
        PROVE  \E c \in Children(m) : Answers(c, a)'
    <3>1. m # ch /\ m # n
      BY <1>9, <1>10, <2>1
    <3>2. Valid(st[m][a]) /\ m \notin fresh[a]
      BY <1>4, <1>10, <2>1, <3>1
    <3>3. PICK c \in Children(m) : Answers(c, a)
      BY <3>2 DEF FInv, FreshAt
    <3>4. c \in Caches /\ c # ch
      BY <1>1, <3>1, Family
    <3> QED
      BY <1>11, <3>3, <3>4
  <2>2. Mem \notin fresh'[a] => Answers(Root, a)'
    <3>1. Root \in Caches /\ Root # ch
      BY <1>1, Family
    <3> QED
      BY <1>10, <1>11, <3>1 DEF FInv, FreshAt
  <2> QED
    BY <2>1, <2>2 DEF FreshAt, Children
<1> QED
  BY <1>7, <1>8, <1>12 DEF FInv

(* A line goes, or its exclusivity: what was written goes with the reply   *)
(* to the caller's cache.                                                  *)
LEMMA InvFinishFresh ==
  ASSUME IInv, FInv, NEW t \in Threads, InvFinish(t)
  PROVE  FInv'
<1>0. Types /\ DirOK
  BY DEF IInv
<1>1. /\ Busy(t) /\ ~IsAccess(Top(t)) /\ Top(t).at = "down"
      /\ stack' = [stack EXCEPT ![t] = Pop(@)] /\ Targets(Top(t)) = {}
  BY DEF InvFinish, InvAt
<1>2. PICK s \in Seq(Frames), k \in Nat, f \in InvFrames :
        /\ s = stack[t] /\ k = Len(s) /\ k \in 1 .. Len(s) /\ f = Top(t) /\ f = s[k]
        /\ IsAccess(s[1]) /\ Shape(s) /\ FrameOK(f) /\ InvOK(f) /\ WritebackOK(t) /\ Holds(s, k)
        /\ \A i \in 1 .. Len(s) : s[i] \in Frames /\ FrameOK(s[i])
  <2>1. PICK f \in InvFrames : f = Top(t) /\ f = stack[t][Len(stack[t])]
    BY <1>1, Begun, Classes
  <2>2. /\ InvOK(f) /\ Holds(stack[t], Len(stack[t]))
    BY <1>1, <2>1, Begun DEF FrameClaim, Holds
  <2>3. /\ stack[t] \in Seq(Frames) /\ Len(stack[t]) \in Nat
        /\ Len(stack[t]) \in 1 .. Len(stack[t])
        /\ IsAccess(stack[t][1]) /\ Shape(stack[t]) /\ FrameOK(f) /\ WritebackOK(t)
        /\ \A i \in 1 .. Len(stack[t]) : stack[t][i] \in Frames /\ FrameOK(stack[t][i])
    BY <1>1, <2>1, Begun DEF Shape
  <2> QED
    BY <2>1, <2>2, <2>3
<1>3. k > 1
  BY <1>1, <1>2
<1>4. PICK m \in Caches \ {Root}, p \in Caches, a \in Addrs, ty \in {"INV", "INVX"}, induced \in BOOLEAN :
        /\ m = f.n /\ p = Parent[m] /\ a = f.a /\ ty = f.ty
        /\ induced = (wb[t] # NoAddr \/ st[m][a] = "M")
  <2>1. f.n \in Caches \ {Root} /\ Parent[f.n] \in Caches /\ f.a \in Addrs /\ f.ty \in {"INV", "INVX"}
    BY <1>1, <1>2, Family, FrameTypes DEF FrameOK
  <2> QED
    BY <2>1
<1>5. PICK g \in Frames : /\ g = s[k - 1] /\ g.n = p /\ k - 1 \in 1 .. Len(s)
                          /\ IsAccess(g) /\ g.at = "dir" => g.ty \in Gets
  <2>1. Link(s[k - 1], s[k]) /\ k - 1 \in 1 .. Len(s)
    BY <1>2, <1>3 DEF Shape
  <2>2. s[k - 1] \in Frames /\ s[k - 1].n = p
    BY <1>1, <1>2, <1>4, <2>1 DEF Link
  <2>3. IsAccess(s[k - 1]) /\ s[k - 1].at = "dir" => s[k - 1].ty \in Gets
    BY <1>1, <1>2, <2>1 DEF Link
  <2> QED
    BY <2>1, <2>2, <2>3
<1>6. /\ st' = [st EXCEPT ![m][a] = IF ty = "INVX" THEN "S" ELSE "I"]
      /\ wb' = [wb EXCEPT ![t] = IF induced THEN a ELSE NoAddr]
      /\ fresh' = [fresh EXCEPT ![a] = (@ \ (IF ty = "INV" THEN {m} ELSE {}))
                                         \cup (IF induced /\ m \in @ THEN {p} ELSE {})]
  BY <1>2, <1>4 DEF InvFinish
<1>7. /\ m # p /\ m \in Children(p) /\ a # NoAddr /\ Mem # m /\ Top(t).n = m
      /\ wb[t] \in {NoAddr, a}
  <2>1. m # p /\ m \in Children(p) /\ a # NoAddr /\ Mem # m /\ Top(t).n = m
    BY <1>2, <1>4, Family
  <2>2. wb[t] # NoAddr => wb[t] = a
    BY <1>1, <1>2, <1>4 DEF WritebackOK
  <2> QED
    BY <2>1, <2>2
<1>8. /\ st'[m][a] = IF ty = "INVX" THEN "S" ELSE "I"
      /\ \A b \in Addrs \ {a} : st'[m][b] = st[m][b] /\ fresh'[b] = fresh[b]
      /\ \A c \in Caches \ {m} : st'[c] = st[c]
      /\ wb'[t] = IF induced THEN a ELSE NoAddr
      /\ \A u \in Threads \ {t} : wb'[u] = wb[u]
      /\ fresh'[a] = (fresh[a] \ (IF ty = "INV" THEN {m} ELSE {}))
                       \cup (IF induced /\ m \in fresh[a] THEN {p} ELSE {})
  BY <1>0, <1>4, <1>6 DEF Types
<1>9. Busy(t)' /\ Top(t)' = g /\ \A u \in Threads \ {t} : stack'[u] = stack[u]
  BY <1>1, <1>2, <1>3, <1>5, TopPopped
<1>10. PutsOK'
  <2>1. PutOK(Top(t))'
    BY <1>5, <1>9 DEF PutOK, Gets
  <2>2. \A c \in Caches : st'[c] # st[c] => Touches(t, c)
    BY <1>1, <1>7, <1>8 DEF Touches
  <2> QED
    BY <1>9, <2>1, <2>2, PutsStay DEF FInv
<1>11. ASSUME NEW b \in Addrs, b # a PROVE FreshAt(b)'
  <2>1. \A c \in Caches : st'[c][b] = st[c][b]
    BY <1>8, <1>11
  <2>2. wb[t] # b
    BY <1>7, <1>11, Family
  <2>3. \A c \in Caches : Induced(c, b) => Induced(c, b)'
    BY <1>8, <1>9, <2>2, InducedStays
  <2> QED
    BY <1>8, <1>11, <2>1, <2>3, FreshStays DEF FInv
<1>12. /\ Valid(st[m][a]) /\ m \in dir[p][a].sh /\ Valid(st[p][a])
       /\ \A c \in Children(p) : Excl(st[c][a]) => c = m
  <2>1. Valid(st[m][a])
    BY <1>2, <1>4 DEF InvOK, Valid, Excl
  <2> QED
    BY <1>0, <1>7, <2>1 DEF DirOK
<1>13. m \in fresh[a]
  <2>1. /\ IsExclusive(dir[m][a]) <=> dir[m][a].ex
        /\ dir[m][a].ex => dir[m][a].sh # {}
    <3>1. dir[m][a].ex => \E c \in Children(m) : dir[m][a].sh = {c}
      BY <1>0, Exclusive
    <3>2. IsExclusive(dir[m][a]) <=> dir[m][a].ex
      BY <1>0, Exclusive
    <3> QED
      BY <3>1, <3>2
  <2>2. ~dir[m][a].ex
    BY <1>1, <1>2, <1>4, <2>1 DEF Targets
  <2> QED
    BY <1>12, <2>2, NoChildFresh
<1>14. p \in fresh'[a]
  <2>1. CASE induced
    BY <1>8, <1>13, <2>1
  <2>2. CASE ~induced
    <3>1. ~Induced(m, a)
      <4>1. SUFFICES ASSUME NEW u \in Threads, wb[u] = a, Busy(u), Top(u).n = m PROVE FALSE
        BY DEF Induced
      <4>2. t = u
        <5>1. wb[u] # NoAddr
          BY <1>7, <4>1
        <5>2. \A j \in 1 .. Len(stack[t]) : Holds(stack[t], j) /\ stack[t][j].n = Top(u).n => t = u
          BY <4>1, <5>1, OnlyInducer
        <5> QED
          BY <1>2, <1>4, <4>1, <5>2
      <4> QED
        BY <1>4, <1>7, <2>2, <4>1, <4>2
    <3>2. ~\E c \in Children(p) : Answers(c, a)
      BY <1>4, <1>12, <1>13, <2>2, <3>1 DEF Answers
    <3>3. p \in fresh[a]
      BY <1>12, <3>2 DEF FInv, FreshAt
    <3> QED
      BY <1>7, <1>8, <3>3
  <2> QED
    BY <2>1, <2>2
<1>15. ASSUME NEW c \in Caches, c # m, Answers(c, a) PROVE Answers(c, a)'
  <2>1. st'[c] = st[c]
    BY <1>8, <1>15
  <2>2. Induced(c, a) => Induced(c, a)'
    <3>1. ~(wb[t] = a /\ Busy(t) /\ Top(t).n = c)
      BY <1>7, <1>15
    <3> QED
      BY <1>8, <1>9, <3>1, InducedStays
  <2>3. c \notin fresh[a] => c \notin fresh'[a] \/ Induced(c, a)'
    <3>1. CASE c = p /\ induced
      BY <1>5, <1>8, <1>9, <3>1 DEF Induced
    <3>2. CASE ~(c = p /\ induced)
      BY <1>8, <3>2
    <3> QED
      BY <3>1, <3>2
  <2> QED
    BY <1>15, <2>1, <2>2, <2>3 DEF Answers
<1>16. FreshAt(a)'
  <2>1. ASSUME NEW n \in Caches, Valid(st'[n][a]), n \notin fresh'[a]
        PROVE  \E c \in Children(n) : Answers(c, a)'
    <3>1. n # m /\ n # p
      <4>1. CASE n = m
        <5>1. ty = "INVX"
          BY <1>8, <2>1, <4>1 DEF Valid
        <5> QED
          BY <1>8, <1>13, <2>1, <4>1, <5>1
      <4> QED
        BY <1>14, <2>1, <4>1
    <3>2. Valid(st[n][a]) /\ n \notin fresh[a]
      BY <1>8, <2>1, <3>1
    <3>3. PICK c \in Children(n) : Answers(c, a)
      BY <3>2 DEF FInv, FreshAt
    <3>4. c \in Caches /\ c # m
      BY <1>7, <3>1, Family
    <3> QED
      BY <1>15, <3>3, <3>4
  <2>2. Mem \notin fresh'[a] => Answers(Root, a)'
    <3>1. Root \in Caches /\ Root # m /\ (Mem \notin fresh'[a] => Mem \notin fresh[a])
      BY <1>4, <1>7, <1>8, Family
    <3> QED
      BY <1>15, <3>1 DEF FInv, FreshAt
  <2> QED
    BY <2>1, <2>2 DEF FreshAt, Children
<1> QED
  BY <1>10, <1>11, <1>16 DEF FInv

(* A core writes: all other copies are stale, and they are above it.       *)
LEMMA FillFresh ==
  ASSUME IInv, FInv, NEW t \in Threads, Fill(t)
  PROVE  FInv'
<1>1. /\ Busy(t) /\ IsAccess(Top(t)) /\ Top(t).at = "fill"
      /\ stack' = [stack EXCEPT ![t] = Pop(@)] /\ UNCHANGED <<st, wb>>
  BY DEF Fill, At
<1>2. FrameOK(Top(t)) /\ Top(t).n \in Leaves /\ FrameClaim(stack[t], Len(stack[t])) /\ WritebackOK(t)
  BY <1>1, Begun DEF FrameOK
<1>3. PICK f \in AccessFrames : f = Top(t) /\ f.n = t /\ f.a \in Addrs /\ Len(stack[t]) = 1
  <2>1. Top(t).n = t /\ Len(stack[t]) = 1 /\ Top(t) \in AccessFrames
    BY <1>1, <1>2, OwnAccess
  <2> QED
    BY <2>1, FrameTypes
<1>4. ~Busy(t)' /\ \A u \in Threads \ {t} : stack'[u] = stack[u]
  <2>1. /\ Busy(t)' => Len(stack[t]) > 1
        /\ \A u \in Threads \ {t} : stack'[u] = stack[u]
    BY <1>1, TopPopped
  <2>2. ~(Len(stack[t]) > 1)
    BY <1>3
  <2> QED
    BY <2>1, <2>2
<1>5. wb[t] = NoAddr
  BY <1>1, <1>2 DEF WritebackOK
<1>6. CASE f.ty # "GETX"
  <2>1. UNCHANGED fresh
    BY <1>3, <1>6 DEF Fill, IInv, Types
  <2> QED
    BY <1>1, <1>4, <1>5, <2>1, FreshQuiet
<1>7. CASE f.ty = "GETX"
  <2>1. PICK a \in Addrs : a = f.a
    BY <1>3
  <2>2. fresh'[a] = {t} /\ \A b \in Addrs \ {a} : fresh'[b] = fresh[b]
    BY <1>3, <1>7, <2>1 DEF Fill, IInv, Types
  <2>3. st[t][a] = "M"
    <3>1. OwnOK(f)
      BY <1>1, <1>2, <1>3, Begun DEF FrameClaim
    <3> QED
      BY <1>1, <1>3, <1>7, <2>1, <3>1 DEF OwnOK, Gets
  <2>4. PutsOK'
    BY <1>1, <1>4, PutsStay DEF FInv
  <2>5. ASSUME NEW b \in Addrs, b # a PROVE FreshAt(b)'
    <3>1. \A c \in Caches : Induced(c, b) => Induced(c, b)'
      BY <1>1, <1>4, <1>5, InducedStays, Family
    <3> QED
      BY <1>1, <2>2, <2>5, <3>1, FreshStays DEF FInv
  <2>6. t \in Leaves /\ t \in Caches /\ t # Root /\ Mem # t
    BY Family DEF Threads
  <2>7. /\ Root \in Up(t) /\ \A c \in Up(t) : c = t \/ \E d \in Up(t) : d \in Children(c)
    BY <2>6, UpProperties
  <2>8. /\ \A c \in Up(t) : Excl(st[c][a])
        /\ \A n \in Caches : Valid(st[n][a]) => n \in Up(t)
    <3>1. Excl(st[t][a])
      BY <2>3 DEF Excl
    <3> QED
      BY <2>6, <3>1, OnePath
  <2>9. \A c \in Up(t) : Answers(c, a)'
    BY <1>1, <2>2, <2>3, <2>8 DEF Answers
  <2>10. FreshAt(a)'
    <3>1. ASSUME NEW n \in Caches, Valid(st'[n][a]), n \notin fresh'[a]
          PROVE  \E c \in Children(n) : Answers(c, a)'
      <4>1. n # t /\ n \in Up(t)
        BY <1>1, <2>2, <2>8, <3>1
      <4>2. \E d \in Up(t) : d \in Children(n)
        BY <2>7, <4>1
      <4> QED
        BY <2>9, <4>2
    <3>2. Answers(Root, a)'
      BY <2>7, <2>9
    <3> QED
      BY <3>1, <3>2 DEF FreshAt, Children
  <2> QED
    BY <2>4, <2>5, <2>10 DEF FInv
<1> QED
  BY <1>6, <1>7

LEMMA FreshSame ==
  ASSUME FInv, UNCHANGED <<st, fresh, stack, wb>>
  PROVE  FInv'
BY DEF FInv, PutsOK, PutOK, FreshAt, Answers, Induced, Busy, Top

LEMMA FreshKept == IInv /\ IInv' /\ HInv /\ FInv /\ [Next]_vars => FInv'
<1> SUFFICES ASSUME IInv, IInv', HInv, FInv, [Next]_vars PROVE FInv'
  OBVIOUS
<1>1. ASSUME NEW t \in Threads, NEW ty \in Gets, NEW a \in Addrs, Issue(t, ty, a) PROVE FInv'
  BY <1>1, IssueFresh
<1>2. ASSUME NEW t \in Threads, ContextSwitch(t) PROVE FInv'
  BY <1>2, FreshSame DEF ContextSwitch
<1>3. ASSUME NEW t \in Threads, Step(t) PROVE FInv'
  <2>1. CASE TakeTcc(t) \/ InvLock(t)  BY <2>1, TakingFresh
  <2>2. CASE Lookup(t)  BY <2>2, LookupFresh
  <2>3. CASE EvictInval(t) \/ DirInval(t) \/ InvDown(t)  BY <2>3, SendingFresh
  <2>4. CASE EvictWrite(t)  BY <2>4, EvictWriteFresh
  <2>5. CASE Refill(t)  BY <2>5, RefillFresh
  <2>6. CASE DirPut(t)  BY <2>6, DirPutFresh
  <2>7. CASE DirGrant(t)  BY <2>7, DirGrantFresh
  <2>8. CASE End(t)  BY <2>8, EndFresh
  <2>9. CASE Fill(t)  BY <2>9, FillFresh
  <2>10. CASE InvFinish(t)  BY <2>10, InvFinishFresh
  <2> QED
    BY <1>3, <2>1, <2>2, <2>3, <2>4, <2>5, <2>6, <2>7, <2>8, <2>9, <2>10 DEF Step
<1>4. ASSUME UNCHANGED vars PROVE FInv'
  BY <1>4, FreshSame DEF vars
<1> QED
  BY <1>1, <1>2, <1>3, <1>4 DEF Next

LEMMA FreshInit == Init => FInv
BY DEF Init, FInv, PutsOK, FreshAt, Valid, Busy, Threads

(* Below a stale copy is one that answers for it, down to the one that has *)
(* the line modified or the thread that brings it.                         *)
LEMMA FreshEverywhere ==
  ASSUME FInv
  PROVE  CopiesFresh
<1> SUFFICES ASSUME NEW a \in Addrs
             PROVE  /\ \A n \in Leaves : Valid(st[n][a]) => n \in fresh[a]
                    /\ \/ Mem \in fresh[a]
                       \/ \E n \in Caches : st[n][a] = "M"
                       \/ \E t \in Threads : wb[t] = a
  BY DEF CopiesFresh
<1>1. \A n \in Leaves : Valid(st[n][a]) => n \in fresh[a]
  BY DEF FInv, FreshAt, Leaves
<1>2. ASSUME Mem \notin fresh[a], \A n \in Caches : st[n][a] # "M", \A t \in Threads : wb[t] # a
      PROVE  FALSE
  <2>1. PICK X \in SUBSET Caches : X = {n \in Caches : Excl(st[n][a]) /\ n \notin fresh[a]}
    OBVIOUS
  <2>2. \A c \in Caches : Answers(c, a) => c \in X
    BY <1>2, <2>1 DEF Answers, Induced
  <2>3. Root \in X
    BY <1>2, <2>2, Family DEF FInv, FreshAt
  <2>4. PICK n \in X : \A m \in X : m # Root => n \notin Up(Parent[m])
    BY <2>3, Extremes
  <2>5. PICK c \in Children(n) : Answers(c, a)
    BY <2>1 DEF FInv, FreshAt, Valid, Excl
  <2>6. c \in X /\ c # Root /\ Parent[c] = n
    BY <2>1, <2>2, <2>5, Family
  <2>7. n \in Up(n)
    BY <2>1, UpProperties
  <2> QED
    BY <2>4, <2>6, <2>7
<1> QED
  BY <1>1, <1>2

(* No write is lost: a core never reads a stale copy, and when no cache    *)
(* has a line modified and no invalidation is bringing a write back,       *)
(* memory has the last one - through every eviction, downgrade and race    *)
(* of a writeback with an invalidation, in a tree of any shape.            *)
THEOREM WritesAreNeverLost == Spec => []CopiesFresh
<1>1. Init => IInv /\ HInv /\ FInv
  BY InitOK, HeldInit, FreshInit
<1>2. IInv /\ HInv /\ FInv /\ [Next]_vars => (IInv /\ HInv /\ FInv)'
  BY NextKeeps, HeldKept, FreshKept
<1>3. FInv => CopiesFresh
  BY FreshEverywhere
<1> QED
  BY <1>1, <1>2, <1>3, PTL DEF Spec
=============================================================================
