------------------------------- MODULE IssueModel -------------------------------
(***************************************************************************)
(* The issue micro-model of MeMo (MeMo/IssueModel.cpp): when each uop of a *)
(* stream is issued, dispatched and retired under the limits of an out-of- *)
(* order core, and nothing else (loads and stores take the time of an L1   *)
(* hit).  The structures are those of legos.h.  A step is the body of      *)
(* bbl()'s loop for one uop.                                               *)
(***************************************************************************)
EXTENDS Integers, Sequences, FiniteSetsExt, TLC

CONSTANTS H,              \* cycles in each array of the window (8192 in the code)
          WSZ,            \* uops the window holds
          Far,            \* bound: how many cycles ahead a free port is looked for
          Uops,           \* the uops a stream is made of
          Width, RFPorts, \* issued per cycle, register reads per cycle
          ROBSize, LQSize, SQSize, IQSize,
          L1DLat, Dispatch, \* L1D_LAT, and DISPATCH_STAGE - ISSUE_STAGE
          Garbage,        \* what the members the constructor leaves alone may hold
          MaxUops, Skews  \* bounds: uops in a stream; skews of cSimEnd()

VARIABLES core,           \* the members of IssueModel
          hist            \* the uops so far and their cycles, and what is in the window

vars == <<core, hist>>

Larger(a, b) == IF a > b THEN a ELSE b
Regs == {0} \cup UNION {{u.rs[1], u.rs[2], u.rd} : u \in Uops}

-----------------------------------------------------------------------------
(* The instruction window (WindowStructure): which ports are taken in each *)
(* cycle to come.  The next cycles are in two arrays of H, what lies       *)
(* further ahead in an ordered map; each time the window has moved on H    *)
(* cycles, the arrays swap and the map's next H cycles are brought in.     *)
Free == [units |-> {}, count |-> 0]
Clear == [i \in 0 .. H - 1 |-> Free]
EmptyWindow == [now |-> 0, pos |-> 0, curWin |-> Clear, nextWin |-> Clear, ub |-> <<>>, occupancy |-> 0]

(* The entry of cycle c, now or later: in one of the arrays or in the map. *)
At(w, c) ==
  LET i == c - w.now + w.pos IN
  IF i < H THEN w.curWin[i]
  ELSE IF i < 2 * H THEN w.nextWin[i - H]
  ELSE IF c \in DOMAIN w.ub THEN w.ub[c] ELSE Free

Put(w, c, e) ==
  LET i == c - w.now + w.pos IN
  IF i < H THEN [w EXCEPT !.curWin[i] = e]
  ELSE IF i < 2 * H THEN [w EXCEPT !.nextWin[i - H] = e]
  ELSE [w EXCEPT !.ub = (c :> e) @@ @]

-----------------------------------------------------------------------------
(* advancePos(), with the rebase at the end of the array.  The assertion:  *)
(* nothing in the map is nearer than the second array.                     *)
(* (Before it, a fault: only the array that becomes the current one.)      *)
DueTooLate(w) == {c \in DOMAIN w.ub : c < w.now + H}
Due(w) == {c \in DOMAIN w.ub : c < w.now + 2 * H}
Rebase(w) ==
  [w EXCEPT !.pos = 0,
            !.curWin = w.nextWin,
            !.nextWin = [i \in 0 .. H - 1 |->
                           IF w.now + H + i \in Due(w) THEN w.ub[w.now + H + i] ELSE w.curWin[i]],
            !.ub = [c \in DOMAIN w.ub \ Due(w) |-> w.ub[c]]]

RebaseAsserts(w) == \A c \in Due(w) : c >= w.now + H

advancePos(w) ==
  LET n == [w EXCEPT !.occupancy = @ - w.curWin[w.pos].count,
                     !.curWin[w.pos] = Free,
                     !.pos = @ + 1, !.now = @ + 1]
  IN IF n.pos = H THEN Rebase(n) ELSE n

AdvanceBy(w, k) ==
  LET f[i \in 0 .. k] == IF i = 0 THEN w ELSE LET v == f[i - 1] IN advancePos(v)
  IN f[k]

(* While the window is full, it moves on: past the first cycle with a uop. *)
MakeRoom(w) ==
  IF w.occupancy < WSZ THEN w
  ELSE AdvanceBy(w, 1 + Min({k \in 0 .. Far : At(w, w.now + k).count > 0}))

(* longAdvance(): with nothing left in the window, it just jumps.          *)
longAdvance(w, target) ==
  LET drain == {k \in 0 .. target - w.now :
                  FoldSet(LAMBDA j, n : n + At(w, w.now + j).count, 0, 0 .. k - 1) = w.occupancy}
  IN IF drain = {} THEN AdvanceBy(w, target - w.now)
     ELSE [AdvanceBy(w, Min(drain)) EXCEPT !.now = target]

-----------------------------------------------------------------------------
(* scheduleInternal(): the first cycle, from sched on, in which one of the *)
(* ports is free.  A uop takes the lowest of them; a slot after it (real   *)
(* is FALSE) is one port's and is not counted.                             *)
FirstFree(w, sched, ports) ==
  LET from == Max({sched, w.now})
  IN Min({c \in from .. from + Far : ports \ At(w, c).units # {}})

Take(w, sched, ports, real) ==
  LET c == FirstFree(w, sched, ports)
      port == Min(ports \ At(w, c).units)
      e == [units |-> At(w, c).units \cup {port}, count |-> At(w, c).count + (IF real THEN 1 ELSE 0)]
  IN [w |-> [Put(w, c, e) EXCEPT !.occupancy = @ + (IF real THEN 1 ELSE 0)], cycle |-> c, port |-> port]

(* schedule(): the uop, and as many slots of its port after it as its      *)
(* extraSlots.  Both the window's cycle and the uop's may change.          *)
schedule(w, sched, ports, extra) ==
  LET uop == Take(MakeRoom(w), sched, ports, TRUE)
      f[i \in 0 .. extra] ==
        IF i = 0 THEN [w |-> uop.w, cycle |-> uop.cycle]
        ELSE LET v == f[i - 1] IN Take(v.w, v.cycle + 1, {uop.port}, FALSE)
  IN [w |-> f[extra].w, cycle |-> uop.cycle, port |-> uop.port]

-----------------------------------------------------------------------------
(* ReorderBuffer: SZ entries, freed in order as they retire, W at a time.  *)
NewROB(sz) == [buf |-> [i \in 0 .. sz - 1 |-> 0], idx |-> 0, cycle |-> 0, retires |-> 1]
minAllocCycle(b) == b.buf[b.idx]
Leave(b, cycle) ==
  [b EXCEPT !.buf[b.idx] = cycle, !.idx = (@ + 1) % Cardinality(DOMAIN b.buf)]

(* (Before it, a fault: no new cycle for a full bundle.)                   *)
markRetireUnbounded(b, min) ==
  LET c == Larger(b.cycle, min) IN Leave([b EXCEPT !.cycle = c], c)
markRetire(b, min) ==
  LET r == IF min > b.cycle THEN <<min, 1>>
           ELSE IF b.retires = Width THEN <<b.cycle + 1, 0>>
           ELSE <<b.cycle, b.retires + 1>>
  IN Leave([b EXCEPT !.cycle = r[1], !.retires = r[2]], r[1])

(* CycleQueue: the same without the order; markLeave().                    *)
NewQueue(sz) == [buf |-> [i \in 0 .. sz - 1 |-> 0], idx |-> 0]

-----------------------------------------------------------------------------
(* The constructor: the last stores' cycles and the forwarding table are   *)
(* not initialised, and nothing is ever stored into the addresses read:    *)
(* they may all be the same, or all different.                             *)
Init ==
  \E g \in Garbage, same \in BOOLEAN :
    /\ core = [w |-> EmptyWindow, decode |-> 4, issued |-> 0, reads |-> 0,
               score |-> [r \in Regs |-> 0],
               uopQ |-> NewQueue(IQSize), rob |-> NewROB(ROBSize),
               lq |-> NewROB(LQSize), sq |-> NewROB(SQSize),
               lastStore |-> g, lastAddr |-> g, fwd |-> g, same |-> same]
    /\ hist = [ops |-> <<>>, slots |-> {}, skewed |-> 0]

NewCycle(c) == [c EXCEPT !.issued = 0, !.reads = 0]
Tick(c) == NewCycle([c EXCEPT !.w = advancePos(@)])

(* Decode: not before the issue queue has room; the core follows.          *)
Decoded(c, u) ==
  LET d == Larger(c.decode + u.dec, minAllocCycle(c.uopQ))
      n == [c EXCEPT !.decode = d]
      m == IF d > c.w.now THEN NewCycle([n EXCEPT !.w = AdvanceBy(@, d - c.w.now)]) ELSE n
  IN [m EXCEPT !.uopQ = Leave(@, m.w.now)]

(* Issue: the width, then the register reads of values not just computed.  *)
Issued(c) == [(IF c.issued >= Width THEN Tick(c) ELSE c) EXCEPT !.issued = @ + 1]

ReadsRF(c, u) ==
  LET s == [c.score EXCEPT ![0] = c.w.now]
      n == c.reads + Cardinality({i \in {1, 2} : s[u.rs[i]] < c.w.now})
      m == [c EXCEPT !.score = s]
  IN IF n > RFPorts
     THEN [m EXCEPT !.w = advancePos(@), !.reads = n - RFPorts, !.issued = 0]
     ELSE [m EXCEPT !.reads = n]

Scheduled(c, u) ==
  LET ops == Larger(c.score[u.rs[1]], c.score[u.rs[2]])
      min == Larger(ops, Larger(minAllocCycle(c.rob), c.w.now) + Dispatch)
      s == schedule(c.w, min, u.ports, u.extra)
      n == [c EXCEPT !.w = s.w]
  IN [core |-> IF s.w.now > c.w.now THEN NewCycle(n) ELSE n, cycle |-> s.cycle, port |-> s.port]

(* The load and store unit: when the uop, in its port at cycle d, is done. *)
Loaded(c, d) ==
  LET disp == Larger(Larger(d, minAllocCycle(c.lq)), c.lastAddr + 1)
      done == IF c.same THEN Larger(disp + L1DLat, c.fwd) ELSE disp + L1DLat
  IN [core |-> [c EXCEPT !.lq = markRetire(@, done)], disp |-> disp, commit |-> done]

Stored(c, d) ==
  LET disp == Larger(Larger(d, minAllocCycle(c.sq)), c.lastAddr + 1)
      done == disp + L1DLat
  IN [core |-> [c EXCEPT !.sq = markRetire(@, done), !.fwd = done, !.lastStore = Larger(@, done)],
      disp |-> disp, commit |-> done]

Executed(c, u, d) ==
  CASE u.type = "load" -> Loaded(c, d)
    [] u.type = "store" -> Stored(c, d)
    [] u.type = "addr" -> [core |-> [c EXCEPT !.lastAddr = Larger(@, d + u.lat)],
                           disp |-> d, commit |-> d + u.lat]
    [] u.type = "fence" -> [core |-> [c EXCEPT !.lastAddr =
                                        Larger(d + u.lat, Larger(@, c.lastStore + u.lat))],
                            disp |-> d, commit |-> d + u.lat]
    [] OTHER -> [core |-> c, disp |-> d, commit |-> d + u.lat]

(* One uop, through to its retirement.                                     *)
Uop(u) ==
  /\ Len(hist.ops) < MaxUops
  /\ \E c1 \in {Issued(Decoded(core, u))} : \E c2 \in {ReadsRF(c1, u)} :
     \E s \in {Scheduled(c2, u)} : \E x \in {Executed(s.core, u, s.cycle)} :
     \E rob \in {markRetire(x.core.rob, x.commit)} :
       /\ core' = [x.core EXCEPT !.rob = rob, !.score[u.rd] = x.commit, !.score[0] = x.commit]
       /\ hist' = [hist EXCEPT
            !.ops = Append(@, [u |-> u, at |-> c2.w.now, left |-> s.core.w.now, disp |-> x.disp,
                               commit |-> x.commit, retire |-> rob.cycle]),
            !.slots = @ \cup {<<s.cycle, s.port, TRUE>>}]

(* advance(), from cSimEnd(): the core's clock is moved on by the skew.    *)
advance(d) ==
  /\ hist.skewed = 0
  /\ core' = NewCycle([core EXCEPT !.w = longAdvance(@, core.w.now + d), !.decode = @ + d])
  /\ hist' = [hist EXCEPT !.skewed = d]

Next == (\E u \in Uops : Uop(u)) \/ (\E d \in Skews : advance(d))

-----------------------------------------------------------------------------
(* The window, in its two arrays and its map, is the one table it stands   *)
(* for: the uops in it are those scheduled for cycles to come, one to a    *)
(* port and cycle, no more than it has room for, and nothing is brought    *)
(* in too late.                                                            *)
ToCome == {s \in hist.slots : s[1] >= core.w.now}
WindowExact ==
  /\ RebaseAsserts(core.w)
  /\ core.w.occupancy = Cardinality(ToCome) /\ core.w.occupancy <= WSZ
  /\ Cardinality(hist.slots) = Len(hist.ops)
  /\ \A s \in ToCome :
       /\ s[2] \in At(core.w, s[1]).units
       /\ At(core.w, s[1]).count = Cardinality({t \in ToCome : t[1] = s[1]})

(* The limits of the core: issue in order, a uop at most over the width    *)
(* in a cycle (IssueModel.cpp:184 resets the count with the uop still to   *)
(* issue, legos.h:267 retires one in the cycle it starts at 0); a uop      *)
(* waits for its operands, for the entry it takes in the reorder buffer,   *)
(* and retires in order.                                                   *)
N == Len(hist.ops)
op(i) == hist.ops[i]
LastWriter(i, r) == {j \in 1 .. i - 1 : op(j).u.rd = r /\ \A k \in j + 1 .. i - 1 : op(k).u.rd # r}
InCycle(f(_), c) == Cardinality({i \in 1..N : f(i) = c})
CoreLimits ==
  \A i \in 1..N :
    /\ i > 1 => op(i).at >= op(i - 1).left /\ op(i).retire >= op(i - 1).retire
    /\ op(i).retire >= op(i).commit
    /\ \A r \in {op(i).u.rs[1], op(i).u.rs[2]} \ {0} :
         \A j \in LastWriter(i, r) : op(i).disp >= op(j).commit
    /\ i > ROBSize => op(i).disp >= op(i - ROBSize).retire + Dispatch
    /\ InCycle(LAMBDA j : op(j).at, op(i).at) <= Width + 1
    /\ InCycle(LAMBDA j : op(j).retire, op(i).retire) <= Width + 1

(* Memory order: an access waits for the addresses of all stores before    *)
(* it, and after a fence a load waits for the stores themselves; a load    *)
(* is not satisfied before the store to its address.  At most a queue of   *)
(* them is under way.                                                      *)
Before(i, type) == {j \in 1 .. i - 1 : op(j).u.type = type}
MemoryOrder ==
  \A i \in 1..N :
    /\ op(i).u.type \in {"load", "store"} =>
         /\ \A j \in Before(i, "addr") : op(i).disp > op(j).commit
         /\ \A j \in Before(i, "fence") : \A k \in Before(j, "store") : op(i).disp > op(k).commit
    /\ op(i).u.type = "load" =>
         /\ core.same /\ Before(i, "store") # {} => op(i).commit >= op(Max(Before(i, "store"))).commit
         /\ \A j \in Before(i, "load") :
              Cardinality({k \in Before(i, "load") : k > j}) = LQSize - 1 => op(i).disp >= op(j).commit

IssueExact == WindowExact /\ CoreLimits /\ MemoryOrder
=============================================================================
