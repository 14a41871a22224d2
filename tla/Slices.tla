-------------------------------- MODULE Slices --------------------------------
(***************************************************************************)
(* How MeMo cuts a program into slices.  Instrumented instructions count   *)
(* themselves (zsim.cpp:635-659); a model (CacheModel, FetchModel,         *)
(* IssueModel) simulates a basic block when the next one starts, and then  *)
(* dumps the statistics if a slice's worth has been counted; a thread      *)
(* that ends dumps the last slice (zsim.cpp:981).  One thread, which may   *)
(* lose its core, change cores and be fast-forwarded.                      *)
(***************************************************************************)
EXTENDS Integers, Sequences, FiniteSetsExt

CONSTANTS Size,      \* interval_size
          MaxLen,    \* instructions of a basic block
          Cores,
          MaxCount,  \* bound on the instructions
          MaxBreaks  \* bound on system calls, lost cores and fast-forwards

VARIABLES th,  \* the thread: at, where it is; core, whose context is its own (0: none);
               \* breaks so far; by, how it ended
          ct   \* the counters pcount, icount, interval; of each core prev (prevBbl, 0 if
               \* null) and instrs; the slices dumped; lost, whether a block that was
               \* counted was not or will not be simulated

vars == <<th, ct>>

Slice(c, kind) == [kind |-> kind, icount |-> c.icount, pcount |-> c.pcount,
                   instrs |-> MapThenSumSet(LAMBDA k : c.instrs[k], Cores)]
dump(c, kind) == [c EXCEPT !.slices = Append(@, Slice(c, kind))]

Init ==
  /\ \E at \in {"start", "ff"} : th = [at |-> at, core |-> 0, breaks |-> 0]
  /\ ct = [pcount |-> 0, icount |-> 0, interval |-> 0, prev |-> [k \in Cores |-> 0],
           instrs |-> [k \in Cores |-> 0], slices |-> <<>>, lost |-> FALSE]

-----------------------------------------------------------------------------
(* contextSwitch(-1), from deschedule() of the context: the block that     *)
(* the core holds back is dropped.                                         *)
Descheduled(c, core) ==
  IF core = 0 THEN c
  ELSE [c EXCEPT !.prev[core] = 0, !.lost = @ \/ c.prev[core] # 0]

(* The end of bbl(): the slice is cut.                                     *)
(* (Before it, a fault: what exceeds the slice's size starts the next.)    *)
CutKeepsExcess(c) ==
  IF c.interval >= Size THEN [dump(c, "cut") EXCEPT !.interval = @ - Size] ELSE c
Cut(c) ==
  IF c.interval >= Size THEN [dump(c, "cut") EXCEPT !.interval = 0] ELSE c

(* bbl() of the core's model for a block of n instructions.                *)
Simulated(c, core, n) ==
  [c EXCEPT !.instrs[core] = @ + c.prev[core], !.prev[core] = n]
AssertFails(c, core) ==
  c.prev[core] # 0 /\ Simulated(c, core, 0).instrs[core] # c.pcount
bbl(c, core, n) ==
  IF c.prev[core] = 0 THEN Simulated(c, core, n) ELSE Cut(Simulated(c, core, n))

(* The instructions of the block count themselves; d of them is a          *)
(* repetition after the first, or of no times, of a string instruction.    *)
Counted(c, n, d) ==
  [c EXCEPT !.pcount = @ + n, !.icount = @ + n - d, !.interval = @ + n - d]

(* SimThreadFini(), with emit_last: the last slice, and finish().          *)
SimThreadFini(c, core) ==
  Descheduled(IF c.interval # Size THEN dump(c, "last") ELSE c, core)

-----------------------------------------------------------------------------
Lens == 1..MaxLen
Bounded(n) == ct.pcount + n <= MaxCount
Break == th.breaks < MaxBreaks

(* join(): the thread finds its context in the OUT queue, or gets another. *)
CoreAt(k) == IF th.core # 0 THEN k = th.core ELSE TRUE

(* A basic block of a simulated thread, which joins first if it is out:    *)
(* the analysis call, the end of the phase if it has come, and the block.  *)
BasicBlock(n, d, k) ==
  /\ th.at \in {"start", "run", "sys"}
  /\ Bounded(n)
  /\ CoreAt(k)
  /\ IF AssertFails(ct, k)
     THEN th' = [th EXCEPT !.at = "aborted"] /\ UNCHANGED ct
     ELSE LET c == bbl(ct, k, n) IN
          \/ /\ ct' = Counted(c, n, d)
             /\ th' = [th EXCEPT !.at = "run", !.core = k]
          \/ \* sync() gives the core away, and comes back with some core
             /\ Break
             /\ \E k2 \in Cores : th' = [th EXCEPT !.at = "run", !.core = k2, !.breaks = @ + 1]
             /\ ct' = Counted(Descheduled(c, k), n, d)
          \/ \* TakeBarrier() finds the process in fast-forward
             /\ Break
             /\ th' = [at |-> "ff", core |-> 0, breaks |-> th.breaks + 1]
             /\ ct' = [Counted(SimThreadFini(c, k), n, d) EXCEPT !.lost = TRUE]

(* SyscallEnter() leaves the core, which may then be taken from it.        *)
SyscallEnter ==
  /\ th.at = "run" /\ Break
  /\ th' = [th EXCEPT !.at = "sys", !.breaks = @ + 1]
  /\ UNCHANGED ct
LoseCore ==
  /\ th.at = "sys" /\ th.core # 0
  /\ th' = [th EXCEPT !.core = 0]
  /\ ct' = Descheduled(ct, th.core)

(* SyscallExit() in a process that has entered fast-forward.               *)
SyscallExitToFF ==
  /\ th.at = "sys"
  /\ th' = [th EXCEPT !.at = "ff", !.core = 0]
  /\ ct' = SimThreadFini(ct, th.core)

(* FFBasicBlock(): the counting goes on; out of fast-forward, the thread   *)
(* starts again, and is simulated from the next block on.                  *)
FFBasicBlock(n, d, exit) ==
  /\ th.at = "ff" /\ Bounded(n)
  /\ th' = IF exit THEN [th EXCEPT !.at = "start"] ELSE th
  /\ ct' = [Counted(ct, n, d) EXCEPT !.lost = TRUE]

(* ThreadFini(), after the exit system call; and termination: SimEnd().    *)
ThreadFini ==
  /\ th.at \in {"sys", "ff"}
  /\ th' = [th EXCEPT !.at = IF th.at = "sys" THEN "ended" ELSE "ffended"]
  /\ ct' = IF th.at = "sys" THEN SimThreadFini(ct, th.core) ELSE ct
SimEnd ==
  /\ th.at \in {"sys", "run"}
  /\ th' = [th EXCEPT !.at = "killed"]
  /\ UNCHANGED ct

Next ==
  \/ \E n \in Lens, d \in {0, 1} :
       \/ \E k \in Cores : BasicBlock(n, d, k)
       \/ \E exit \in BOOLEAN : FFBasicBlock(n, d, exit)
  \/ SyscallEnter
  \/ LoseCore
  \/ SyscallExitToFF
  \/ ThreadFini
  \/ SimEnd

-----------------------------------------------------------------------------
Cuts == {i \in DOMAIN ct.slices : ct.slices[i].kind = "cut"}
CutBefore(i) == LET earlier == {j \in Cuts : j < i} IN
                IF earlier = {} THEN 0 ELSE ct.slices[Max(earlier)].icount

(* A slice that is cut holds a slice's worth of counted instructions and   *)
(* less than one block more, and its statistics are of exactly the         *)
(* instructions executed before it.                                        *)
CutsExact ==
  \A i \in Cuts :
    LET s == ct.slices[i] IN
    /\ s.icount - CutBefore(i) \in Size..(Size + MaxLen - 1)
    /\ s.instrs = s.pcount

(* What the models have simulated lags behind what was counted by the      *)
(* block held back, and an assertion of bbl() fails only after a block     *)
(* was executed that no model simulates: the thread was fast-forwarded,    *)
(* or lost its core with a block held back.  No such program goes on to a  *)
(* further cut (CutsExact has it).                                         *)
SimulatedExact ==
  /\ ~ct.lost /\ th.core # 0 => ct.instrs[th.core] + ct.prev[th.core] = ct.pcount
  /\ th.at = "aborted" => ct.lost

(* Every instruction counted is in some slice when the thread has ended,   *)
(* unless exactly a slice's worth was counted since the last cut: that     *)
(* last slice is never dumped (zsim.cpp:983 takes it for one already cut,  *)
(* and a cut needs a next block).                                          *)
Covered == IF ct.slices = <<>> THEN 0 ELSE ct.slices[Len(ct.slices)].icount
LastSliceExact ==
  th.at = "ended" => \/ Covered = ct.icount
                     \/ ct.interval = Size

SlicesExact == CutsExact /\ SimulatedExact /\ LastSliceExact
=============================================================================
