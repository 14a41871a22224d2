------------------------------ MODULE CoreModels ------------------------------
(***************************************************************************)
(* Two of MeMo's core models: CacheModel.cpp, with loads and stores and no *)
(* front end, and FetchModel.cpp, with a front end, branches and no loads. *)
(* One core of either kind.  A basic block is simulated when the next one  *)
(* starts, and then the thread waits at the phase barrier if the core is   *)
(* past the end of the phase; a core may change threads there, or when the *)
(* thread leaves it.  Latencies of the caches, the outcome of branch       *)
(* prediction and contention are any of small sets.                        *)
(***************************************************************************)
EXTENDS Integers, Sequences, SequencesExt, FiniteSetsExt

CONSTANTS Blocks,     \* basic blocks: uops (type, rs, rd, lat, dec), lines, branch
          Regs,       \* registers; 0 is none
          Decode,      \* DECODE_STAGE - FETCH_STAGE
          Dispatch,   \* DISPATCH_STAGE - ISSUE_STAGE
          DataLat, FetchLats, MemLats, \* L1D_LAT; what l1i and l1d add
          PhaseLength,
          Contention, \* cycles cSimEnd() may advance a core by
          MaxBlocks, MaxBreaks \* bounds

VARIABLES core,  \* kind, cur and dec (curCycle, decodeCycle), reg, prev (prevBbl), branch
                 \* (branchPc), loads recorded, addr and store (lastStoreAddrCommitCycle,
                 \* lastStoreCommitCycle), phaseEnd
          env    \* glob (globPhaseCycles); thread, and where it is (at); left, the loads it
                 \* has yet to do in its block.  Ghosts: blocks, breaks so far; since, the
                 \* blocks since the thread has the core; owner, of the branch; ops, the
                 \* memory operations; failed and late, see below

vars == <<core, env>>

Max2(a, b) == IF a > b THEN a ELSE b
NoBlock == [uops |-> <<>>, lines |-> 0, branch |-> FALSE]
LoadsOf(b) == Cardinality({i \in DOMAIN b.uops : b.uops[i].type = "load"})

Init ==
  \E k \in {"cache", "fetch"} :
    /\ core = [kind |-> k, cur |-> 0, dec |-> Decode + 1, reg |-> [r \in Regs |-> 0], prev |-> NoBlock,
               branch |-> FALSE, loads |-> 0, addr |-> 0, store |-> 0, phaseEnd |-> PhaseLength]
    /\ env = [glob |-> 0, thread |-> 1, at |-> "run", left |-> 0, blocks |-> 0, breaks |-> 0,
              since |-> 0, owner |-> 0, ops |-> <<>>, failed |-> FALSE, late |-> FALSE]

-----------------------------------------------------------------------------
(* The uops of a block, one after the other.  x has what of the core they  *)
(* read and write, and disp, commit (lastCommitCycle) and ops.             *)
Decoded(x, u) ==
  [x EXCEPT !.dec = @ + u.dec - x.prevDec, !.prevDec = u.dec,
            !.cur = Max2(@, x.dec + u.dec - x.prevDec)]
Sourced(x, r) == IF r = 0 THEN x.cur ELSE x.reg[r]
DispCycle(x, u) == Max2(Max2(Sourced(x, u.rs[1]), Sourced(x, u.rs[2])), x.cur + Dispatch)
Dispatched(x, u) ==
  [x EXCEPT !.disp = DispCycle(x, u), !.cur = IF x.kind = "cache" THEN DispCycle(x, u) ELSE @]

(* Memory operations wait for all store addresses before them; a predicated *)
(* load that is not done takes no time, and its latency is -1 here.         *)
(* (Before it, a fault: they wait for those that have dispatched.)          *)
StartEarly(x, u) == x.disp
Start(x, u) ==
  IF x.kind = "cache" /\ u.type \in {"load", "store"} THEN Max2(x.addr + 1, x.disp) ELSE x.disp
Commit(x, u, lat) ==
  IF x.kind = "fetch" \/ u.type \notin {"load", "store"} THEN x.disp + u.lat
  ELSE IF lat < 0 THEN Start(x, u) ELSE Start(x, u) + lat + DataLat
Ordered(x, u, commit) ==
  CASE u.type = "store" -> [x EXCEPT !.store = Max2(@, commit)]
    [] u.type = "addr" -> [x EXCEPT !.addr = Max2(@, commit)]
    [] u.type = "fence" -> [x EXCEPT !.addr = Max2(commit, Max2(@, x.store))]
    [] OTHER -> x
Committed(x, u, start, commit) ==
  [Ordered(x, u, commit) EXCEPT !.reg = [r \in Regs |-> IF r = u.rd THEN commit ELSE @[r]],
     !.commit = commit, !.ops = Append(@, [type |-> u.type, issue |-> x.cur, start |-> start, commit |-> commit])]
Uop(x, u, lat) ==
  CHOOSE z \in {Committed(d, u, Start(d, u), Commit(d, u, lat)) : d \in {Dispatched(y, u) : y \in {Decoded(x, u)}}} : TRUE

Uops(b, lats) ==
  LET f[i \in 0 .. Len(b.uops)] ==
        IF i = 0
        THEN [kind |-> core.kind, cur |-> core.cur, dec |-> core.dec, reg |-> core.reg, addr |-> core.addr,
              store |-> core.store, prevDec |-> 0, disp |-> 0, commit |-> 0, ops |-> <<>>]
        ELSE LET x == f[i - 1] IN Uop(x, b.uops[i], lats[i])
  IN f[Len(b.uops)]

(* The front end of the block b that starts.  After a misprediction, the  *)
(* right path is fetched when the last uop before it has committed.        *)
(* (Before it, a fault: the right path is fetched at once.)                *)
FetchCycleAtOnce(x, mispredicted) == x.dec - Decode
FetchCycle(x, mispredicted) == IF mispredicted THEN x.commit ELSE x.dec - Decode
DecodeCycle(x, b, mispredicted, lat) ==
  Max2(x.dec + 1, FetchCycle(x, mispredicted) + b.lines * lat + Decode)

-----------------------------------------------------------------------------
(* bbl(): the first block since the core was scheduled waits for the next. *)
Waits(b) ==
  /\ core' = [core EXCEPT !.prev = b, !.loads = 0]
  /\ env' = [env EXCEPT !.blocks = @ + 1, !.since = @ + 1, !.left = LoadsOf(b)]

(* Then the loop of BblFunc(): past the end of the phase, to the barrier.  *)
Past(c) == c.cur > c.phaseEnd
PhaseChecked(c) == [c EXCEPT !.phaseEnd = IF Past(c) THEN @ + PhaseLength ELSE @]
At(c) == IF Past(c) THEN "barrier" ELSE "run"

Simulates(b, lats, lat, mispredicted) ==
  \E x \in {Uops(core.prev, lats)} :
    \E c \in {[core EXCEPT !.cur = x.cur, !.reg = x.reg, !.addr = x.addr, !.store = x.store,
                 !.dec = IF core.kind = "fetch" THEN DecodeCycle(x, b, mispredicted, lat)
                         ELSE DecodeCycle(x, b, FALSE, lat),
                 !.prev = b, !.branch = FALSE, !.loads = 0]} :
      /\ core' = PhaseChecked(c)
      /\ env' = [env EXCEPT !.blocks = @ + 1, !.since = @ + 1, !.at = At(c), !.left = LoadsOf(b),
                   !.ops = @ \o x.ops,
                   !.failed = @ \/ (core.kind = "cache" /\ core.loads # LoadsOf(core.prev)),
                   !.late = @ \/ c.cur < core.cur \/ c.dec < core.dec \/ x.dec < core.dec
                              \/ (mispredicted /\ (c.dec < x.commit + Decode \/ x.commit < x.dec - Decode))]

Mem(b) == {i \in DOMAIN b.uops : b.uops[i].type \in {"load", "store"}}
Latencies(b) ==
  {[i \in DOMAIN b.uops |-> IF i \in Mem(b) THEN l[i] ELSE 0] :
     l \in {m \in [Mem(b) -> MemLats \cup {-1}] : \A i \in Mem(b) : b.uops[i].type = "store" => m[i] >= 0}}

Bbl(b) ==
  /\ env.at = "run" /\ env.blocks < MaxBlocks /\ env.left = 0
  /\ IF core.prev = NoBlock THEN Waits(b)
     ELSE \/ /\ core.kind = "cache"
             /\ \E lats \in Latencies(core.prev) : Simulates(b, lats, 3, FALSE)
          \/ /\ core.kind = "fetch"
             /\ \E lat \in FetchLats, m \in (IF core.branch THEN BOOLEAN ELSE {FALSE}) :
                  Simulates(b, [i \in DOMAIN core.prev.uops |-> 0], lat, m)

(* The instructions of the thread's block: loads and a branch at its end.  *)
(* A thread that has come back in the middle of its block does the rest.   *)
load ==
  /\ env.at = "run" /\ env.left > 0
  /\ core' = [core EXCEPT !.loads = @ + 1] /\ env' = [env EXCEPT !.left = @ - 1]

branch ==
  /\ core.kind = "fetch" /\ env.at = "run" /\ env.left = 0
  /\ env.since > 0 /\ core.prev.branch
  /\ core' = [core EXCEPT !.branch = TRUE] /\ env' = [env EXCEPT !.owner = env.thread]

-----------------------------------------------------------------------------
advance(c, target) == IF target > c.cur THEN [c EXCEPT !.dec = @ + target - c.cur, !.cur = target] ELSE c

(* The phase ends with the thread at the barrier: cSimEnd(), and the loop. *)
EndOfPhase(a) ==
  /\ env.at = "barrier"
  /\ LET c == advance(core, core.cur + a) IN core' = PhaseChecked(c) /\ env' = [env EXCEPT !.glob = @ + PhaseLength, !.at = At(c)]

(* The thread leaves the core: at the barrier, or in or after a block.     *)
Leave ==
  /\ env.at \in {"run", "barrier"} /\ env.breaks < MaxBreaks
  /\ env' = [env EXCEPT !.at = IF env.at = "run" THEN "away" ELSE "out", !.breaks = @ + 1]
  /\ UNCHANGED core

(* n phases later a thread joins: this one, its core kept (one that was at *)
(* the barrier has lost it), or one that is anywhere in a block of its     *)
(* own, after contextSwitch(-1): back from the loop of the barrier, or not. *)
(* (Before it, a fault: join() starts a phase where the core left off.)    *)
joinAsLeft(c, glob) == [advance(c, glob) EXCEPT !.phaseEnd = c.phaseEnd]
join(c, glob) == [advance(c, glob) EXCEPT !.phaseEnd = glob + PhaseLength]
contextSwitch(c) == [c EXCEPT !.prev = NoBlock]

Rejoin(n, a) ==
  /\ env.at = "away"
  /\ LET glob == env.glob + n * PhaseLength IN
     /\ core' = join(IF n = 0 THEN core ELSE advance(core, core.cur + a), glob)
     /\ env' = [env EXCEPT !.glob = glob, !.at = "run"]

Switch(n, a, t, left) ==
  /\ env.at \in {"away", "out"}
  /\ LET glob == env.glob + n * PhaseLength
         c == join(contextSwitch(IF n = 0 THEN core ELSE advance(core, core.cur + a)), glob)
     IN \/ /\ left = 0
           /\ core' = PhaseChecked(c)
           /\ env' = [env EXCEPT !.glob = glob, !.at = At(c), !.thread = t, !.left = 0, !.since = 0]
        \/ /\ core' = c
           /\ env' = [env EXCEPT !.glob = glob, !.at = "run", !.thread = t, !.left = left, !.since = 0]

Next ==
  \/ \E b \in Blocks : Bbl(b)
  \/ load
  \/ branch
  \/ Leave
  \/ \E a \in Contention :
       \/ EndOfPhase(a)
       \/ \E n \in 0 .. 1 : Rejoin(n, a) \/ \E t \in 1 .. 2, left \in 0 .. 1 : Switch(n, a, t, left)

-----------------------------------------------------------------------------
(* A running thread is in the phase its core thinks it is, whatever took   *)
(* the core from it and whenever it came back (CacheModel.cpp:357-366).    *)
InStep ==
  /\ env.at = "run" => core.phaseEnd = env.glob + PhaseLength
  /\ env.at = "barrier" => core.phaseEnd = env.glob + 2 * PhaseLength

(* The loads recorded are those of the block that is simulated, although   *)
(* threads come and go in the middle of blocks (CacheModel.cpp:250).       *)
LoadsMatch == ~env.failed

(* No cycle count goes back, and a mispredicted branch delays the block    *)
(* after it until it commits.                                              *)
Forward == ~env.late

(* Loads wait for all stores before a fence, and for the addresses of all  *)
(* stores; what the recorder is given is issued in order and not after it  *)
(* is dispatched.                                                          *)
Before(i, k) ==
  \/ env.ops[i].type = "addr"
  \/ env.ops[i].type = "store" /\ \E j \in i + 1 .. k - 1 : env.ops[j].type = "fence"
FencesHold ==
  core.kind = "cache" =>
    \A i, k \in DOMAIN env.ops : i < k =>
      /\ env.ops[i].issue <= env.ops[k].issue /\ env.ops[k].issue <= env.ops[k].start
      /\ (env.ops[k].type = "load" /\ Before(i, k)) => env.ops[k].start > env.ops[i].commit

(* A branch is that of the thread's last block; one of a thread that had   *)
(* the core before is still predicted once, with the second block of the   *)
(* next thread, as contextSwitch() does not clear it (FetchModel.cpp:109,  *)
(* FetchModel.h:50).                                                       *)
BranchOwn == core.branch => env.owner = env.thread \/ env.since <= 1

CoreModelsExact == InStep /\ LoadsMatch /\ Forward /\ FencesHold /\ BranchOwn
=============================================================================
