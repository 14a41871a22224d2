--------------------------------- MODULE Slabs ---------------------------------
(***************************************************************************)
(* The memory of a core's timing events: slab_alloc.h, the allocator in    *)
(* its EventRecorder, and the life of an event in timing_event.h.  The     *)
(* bound phase allocates events, crossings and blocks of children; in the  *)
(* weave phase the simulation threads finish events and give the memory    *)
(* back, each by itself.                                                   *)
(***************************************************************************)
EXTENDS Integers, Sequences, FiniteSets, SequencesExt

CONSTANTS Slots,      \* slabs, most of them not allocated yet
          Size,       \* of a slab's buffer
          EventSize, CrossingSize, BlockSize,   \* BlockSize: of a block of children
          BlockEvents, MaxKids,
          Threads, Events

VARIABLES sl, ev

vars == <<sl, ev>>

Nobody == [todo |-> <<>>, recycle |-> 0]
NoEvent == [kind |-> "none", kids |-> 0, src |-> FALSE, blocks |-> <<>>]

(* The allocator starts with a slab of its own.  elems is what is in use.  *)
Init ==
  /\ sl = [live |-> [s \in Slots |-> 0], used |-> [s \in Slots |-> 0], cur |-> 1, free |-> <<>>,
           known |-> {1}, liveSlabs |-> 1, weave |-> FALSE, failed |-> FALSE]
  /\ ev = [of |-> [e \in Events |-> NoEvent], elems |-> {}, th |-> [t \in Threads |-> Nobody]]

-----------------------------------------------------------------------------
(* allocSlab(): the last one freed, or a new one.                          *)
AllocSlab(s) ==
  IF s.free # <<>> THEN [s EXCEPT !.cur = Last(s.free), !.free = Front(@), !.liveSlabs = @ + 1]
  ELSE LET n == Cardinality(s.known) + 1
       IN [s EXCEPT !.cur = n, !.known = @ \cup {n}, !.liveSlabs = @ + 1]

(* Slab::alloc(): usedBytes grows even if there is no room.                *)
Fits(s, n) == s.used[s.cur] + n < Size
Bump(s, n) == [s EXCEPT !.used[s.cur] = @ + n, !.live[s.cur] = IF Fits(s, n) THEN @ + 1 ELSE @]

(* SlabAlloc::alloc()                                                      *)
Alloc(n) ==
  IF Fits(sl, n) THEN Bump(sl, n)
  ELSE LET s == AllocSlab(Bump(sl, n)) IN [Bump(s, n) EXCEPT !.failed = ~Fits(s, n)]

Elem(e, k, n, s) == [of |-> e, part |-> k, slab |-> s.cur, end |-> s.used[s.cur]]
Room == sl.free # <<>> \/ sl.known # Slots

SizeOf(kind) == IF kind = "event" THEN EventSize ELSE CrossingSize
NewEvent(e, kind) ==
  /\ ~sl.weave /\ Room
  /\ ev.of[e] = NoEvent /\ \A f \in Events : f < e => ev.of[f] # NoEvent
  /\ \E s \in {Alloc(SizeOf(kind))} :
       /\ sl' = s
       /\ ev' = [ev EXCEPT !.of[e] = [NoEvent EXCEPT !.kind = kind],
                           !.elems = @ \cup {Elem(e, 0, SizeOf(kind), s)}]

(* addChild(): the second child takes a block for both, and from then on   *)
(* whatever does not fit the last block.  First a fault.                   *)
FirstBlockOnly(n) == n = 1
NeedsBlock(n) == n = 1 \/ (n > 1 /\ n % BlockEvents = 0)
InBlock(b, k) == IF k = 2 THEN <<<<1, 2>>>> ELSE <<<<k>>>> \o b
AddChild(e) ==
  LET r == ev.of[e]
      k == r.kids + 1
      kept == [r EXCEPT !.kids = k,
                        !.blocks = IF r.kids = 0 THEN <<>> ELSE [@ EXCEPT ![1] = Append(@, k)]]
      more == [r EXCEPT !.kids = k, !.blocks = InBlock(@, k)]
  IN /\ ~sl.weave /\ r.kind = "event" /\ r.kids < MaxKids /\ Room
     /\ IF ~NeedsBlock(r.kids) THEN ev' = [ev EXCEPT !.of[e] = kept] /\ UNCHANGED sl
        ELSE \E s \in {Alloc(BlockSize)} :
               /\ sl' = s
               /\ ev' = [ev EXCEPT !.of[e] = more,
                           !.elems = @ \cup {Elem(e, Len(more.blocks), BlockSize, s)}]

(* visitChildren() goes over the blocks, the last one first, each up to    *)
(* the first free place.                                                   *)
Visited(r) == IF r.kids = 1 THEN <<1>>
              ELSE FlattenSeq([b \in DOMAIN r.blocks |->
                                 SubSeq(r.blocks[b], 1, IF Len(r.blocks[b]) < BlockEvents
                                                        THEN Len(r.blocks[b]) ELSE BlockEvents)])

-----------------------------------------------------------------------------
(* Between the phases.                                                     *)
Weave == /\ sl' = [sl EXCEPT !.weave = ~@]
         /\ \A t \in Threads : ev.th[t] = Nobody
         /\ sl.weave \/ ev.elems # {}
         /\ UNCHANGED ev

SlabOf(e, k) == (CHOOSE x \in ev.elems : x.of = e /\ x.part = k).slab
Own(e) == [of |-> e, part |-> 0, slab |-> SlabOf(e, 0)]
Busy(e) == \E t \in Threads : \E i \in DOMAIN ev.th[t].todo : ev.th[t].todo[i].of = e

(* The source half of a crossing is done.  It is a member of the crossing, *)
(* not an element of its own, but freeEvent() frees it.                    *)
SourceDone(t, e) ==
  /\ sl.weave /\ ev.th[t] = Nobody /\ ev.of[e].kind = "crossing" /\ ~ev.of[e].src
  /\ ev' = [ev EXCEPT !.of[e].src = TRUE,
                      !.th[t].todo = <<[of |-> e, part |-> 1, slab |-> SlabOf(e, 0)]>>]
  /\ UNCHANGED sl

(* done(): every child hears of it, and freeEvent() frees the blocks and   *)
(* the event.  A crossing's source half is done before.                    *)
Done(t, e) ==
  LET r == ev.of[e]
      n == Len(r.blocks)
  IN /\ sl.weave /\ ev.th[t] = Nobody /\ r # NoEvent /\ ~Busy(e)
     /\ r.kind = "crossing" => r.src
     /\ sl' = [sl EXCEPT !.failed = @ \/ Len(Visited(r)) # r.kids]
     /\ ev' = [ev EXCEPT !.of[e] = NoEvent,
                         !.th[t].todo = [b \in 1 .. n |-> [of |-> e, part |-> n - b + 1, slab |-> SlabOf(e, n - b + 1)]]
                                          \o <<Own(e)>>]

(* freeElem(): who takes the last one frees the slab.                      *)
FreeElem(t) ==
  /\ ev.th[t].todo # <<>> /\ ev.th[t].recycle = 0 /\ ~sl.failed
  /\ LET x == Head(ev.th[t].todo)
         prev == sl.live[x.slab]
     IN /\ sl' = [sl EXCEPT !.live[x.slab] = @ - 1, !.failed = prev = 0 \/ prev >= sl.used[x.slab]]
        /\ ev' = [ev EXCEPT !.th[t] = [todo |-> Tail(@.todo), recycle |-> IF prev = 1 THEN x.slab ELSE 0],
                            !.elems = {y \in @ : <<y.of, y.part>> # <<x.of, x.part>>}]

(* freeSlab(), under freeLock.  The current slab is used again at once.    *)
(* First a fault.                                                          *)
ToFreeListAny(s) == TRUE
ToFreeList(s) == s # sl.cur
FreeSlab(t) ==
  /\ ev.th[t].recycle # 0 /\ ~sl.failed
  /\ LET s == ev.th[t].recycle
         clear == [sl EXCEPT !.live[s] = 0, !.used[s] = 0]
         freed == IF ToFreeList(s) THEN [clear EXCEPT !.free = Append(@, s), !.liveSlabs = @ - 1] ELSE clear
     IN /\ sl' = [freed EXCEPT !.failed = freed.liveSlabs = 0]
        /\ ev' = [ev EXCEPT !.th[t].recycle = 0]

(* With one domain there are no crossings.                                 *)
Next ==
  \/ \E e \in Events : NewEvent(e, "event") \/ AddChild(e)
  \/ Weave
  \/ \E t \in Threads, e \in Events : Done(t, e)
  \/ \E t \in Threads : FreeElem(t) \/ FreeSlab(t)

NextWithCrossings ==
  \/ Next
  \/ \E e \in Events : NewEvent(e, "crossing")
  \/ \E t \in Threads, e \in Events : SourceDone(t, e)

Spec == Init /\ [][Next]_vars
SpecWithCrossings == Init /\ [][NextWithCrossings]_vars

-----------------------------------------------------------------------------
(* A slab is given back, and its memory handed out again, only when all    *)
(* its events are done: what is in use is never free.                      *)
CollectedWhenDone ==
  \A x \in ev.elems : x.end <= sl.used[x.slab] /\ ~Contains(sl.free, x.slab)

(* The count of a slab is that of its elements, whoever frees them, and no *)
(* slab is lost: it is current, free, in use, or about to be freed.        *)
CountsExact ==
  /\ \A s \in Slots : sl.live[s] = Cardinality({x \in ev.elems : x.slab = s})
  /\ \A s \in sl.known : \/ s = sl.cur \/ Contains(sl.free, s) \/ sl.live[s] > 0
                         \/ \E t \in Threads : ev.th[t].recycle = s
  /\ sl.liveSlabs = Cardinality(sl.known) - Len(sl.free)

(* Every child of an event hears of its end, once.                         *)
EveryChildHears ==
  \A e \in Events : ToSet(Visited(ev.of[e])) = 1 .. ev.of[e].kids /\ Len(Visited(ev.of[e])) = ev.of[e].kids

SlabsExact == ~sl.failed /\ CollectedWhenDone /\ CountsExact /\ EveryChildHears

================================================================================
