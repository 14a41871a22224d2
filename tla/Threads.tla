--------------------------------- MODULE Threads ---------------------------------
(***************************************************************************)
(* What each thread of a process does at its next instrumentation point:   *)
(* zsim.cpp's fPtrs, its core identifiers, the callbacks of Pin that       *)
(* change them (start, end, system calls, signals, fork), the magic        *)
(* operations, fast-forward, and fast-forward by instruction counts (FFI). *)
(* The scheduler is what its callers see of it: whether it knows a thread, *)
(* whether the thread runs, and on which core.                             *)
(*                                                                         *)
(* Only the main executable is instrumented, so that a thread may make any *)
(* number of system calls with no instrumentation point in between.        *)
(***************************************************************************)
EXTENDS Integers, Sequences, FiniteSets

CONSTANTS Threads, Cores,
          Configs,      \* [register, blocking, ff : BOOLEAN; points : of FFI; calls : its system
                        \*  calls; forks, n : how many forks and threads it makes]
          BlockSizes,   \* instructions of a basic block
          PhaseInstrs,  \* at most, of a phase
          MaxInstrs     \* of a run

VARIABLES th, ps
vars == <<th, ps>>

Invalid == -1
Uninitialized == -2

(* pc: "again" is about to repeat a system call.  ptr: its fPtrs; on: the  *)
(* core they are of.  st, at: the scheduler's view of it.  post: what      *)
(* postPatchFunctions holds.  fake: inFakeTimeoutMode.  Then ghosts: kept, *)
(* the thread has been marked for sleep with no leave(); reg, it may be    *)
(* simulated.                                                              *)
Fresh == [pc |-> "new", ptr |-> "join", on |-> 0, cid |-> Uninitialized, active |-> FALSE,
          st |-> "none", at |-> 0, marked |-> FALSE, post |-> "null", fake |-> FALSE,
          reg |-> FALSE, kept |-> FALSE]

NoFFI == [on |-> FALSE, nff |-> FALSE, point |-> 1, done |-> 0, limit |-> 0, start |-> 0,
          prev |-> 0, target |-> 0]

(* FFIInit; target is that of the event, 0 if there is none.               *)
FFIInit(c) ==
  IF c.points = <<>> THEN NoFFI
  ELSE [NoFFI EXCEPT !.on = TRUE, !.limit = c.points[1], !.nff = ~c.ff,
                     !.target = IF c.ff THEN 0 ELSE c.points[1]]

Init ==
  /\ th = [t \in Threads |-> Fresh]
  /\ \E c \in Configs :
       ps = [c |-> c, ff |-> c.ff, ffi |-> FFIInit(c), simmed |-> 0, total |-> 0, late |-> 0,
             left |-> PhaseInstrs, forks |-> 0, heir |-> FALSE, ended |-> FALSE, fail |-> "none"]

Alive == ps.fail = "none" /\ ~ps.ended
In(t, pc) == Alive /\ th[t].pc = pc

Type(ptr) == IF ptr \in {"nop", "ff", "ffi", "entry"} THEN "nop" ELSE ptr
FFPtrs(f) == IF ~f.on THEN "ff" ELSE IF f.nff THEN "entry" ELSE "ffi"

-----------------------------------------------------------------------------
(* A step of t: its record becomes r, or an assertion, named, fails.       *)
Becomes(t, r) == th' = [th EXCEPT ![t] = r]
Moves(t, r) == Becomes(t, r) /\ UNCHANGED ps
Fails(why) == ps' = [ps EXCEPT !.fail = why] /\ UNCHANGED th

Free(t) == {c \in Cores : \A u \in Threads \ {t} : th[u].st = "run" => th[u].at # c}

Left(r) == [r EXCEPT !.st = IF r.marked THEN "sleep" ELSE "out", !.marked = FALSE, !.at = 0]

(* SimThreadStart: start(), then clearCid.                                 *)
CanStart(r) == r.st = "none" /\ r.cid # Invalid
SimThreadStart(r) ==
  [r EXCEPT !.st = "out", !.active = TRUE, !.ptr = "join", !.cid = Invalid]

(* SimThreadFini: finish() takes the thread off its core.                  *)
CanFini(r) == r.st \in {"out", "run"} /\ ~(r.st = "run" /\ r.marked)
SimThreadFini(r) ==
  [r EXCEPT !.st = "none", !.at = 0, !.marked = FALSE, !.active = FALSE, !.on = 0,
            !.cid = Uninitialized]

ThreadStart(t) ==
  /\ In(t, "new") /\ t <= ps.c.n
  /\ LET r == [th[t] EXCEPT !.pc = "code"]
     IN IF ps.ff THEN Moves(t, [r EXCEPT !.ptr = FFPtrs(ps.ffi), !.reg = TRUE])
        ELSE IF ps.c.register THEN Moves(t, [r EXCEPT !.ptr = "nop"])
        ELSE IF CanStart(r) THEN Moves(t, [SimThreadStart(r) EXCEPT !.reg = TRUE])
        ELSE Fails("start")

(* After its last system call, which it does not come back from.           *)
ThreadFini(t) ==
  /\ In(t, "sys") /\ th[t].post = "null"
  /\ IF Type(th[t].ptr) = "nop" THEN Moves(t, [th[t] EXCEPT !.pc = "gone"])
     ELSE IF CanFini(th[t]) THEN Moves(t, [SimThreadFini(th[t]) EXCEPT !.pc = "gone"])
     ELSE Fails("finish")

(* The thread goes on in the child, under another procIdx; the others are  *)
(* not there.  FFIInit is not repeated.                                    *)
AfterForkInChild(t) ==
  /\ In(t, "sys") /\ th[t].post = "null" /\ ps.forks < ps.c.forks
  /\ th' = [u \in Threads |-> [Fresh EXCEPT !.post = th[u].post, !.fake = th[u].fake]]
  /\ ps' = [ps EXCEPT !.forks = @ + 1, !.ff = ps.c.ff,
                      !.heir = \E u \in Threads : th[u].fake]

-----------------------------------------------------------------------------
(* Basic blocks.                                                           *)

(* Join waits for a core; the block is then simulated.                     *)
Join(t) ==
  /\ In(t, "code") /\ th[t].ptr = "join"
  /\ IF th[t].st = "run" THEN Fails("marked")
     ELSE \E c \in Free(t) :
            IF th[t].marked THEN Fails("marked")
            ELSE IF th[t].cid # Invalid THEN Fails("setCid")
            ELSE Moves(t, [th[t] EXCEPT !.st = "run", !.at = c, !.cid = c, !.ptr = "core",
                                        !.on = c])

(* Simulated instructions are counted when FFI looks at them.              *)
Simulate(t) ==
  /\ In(t, "code") /\ th[t].ptr = "core" /\ ps.ffi.on /\ ps.total < MaxInstrs
  /\ \E n \in BlockSizes :
       /\ n <= ps.left
       /\ ps' = [ps EXCEPT !.total = @ + n, !.simmed = @ + n, !.left = @ - n,
                           !.late = IF ps.ff THEN @ + n ELSE @]
  /\ UNCHANGED th

FFBasicBlock(t) ==
  /\ In(t, "code") /\ th[t].ptr = "ff" /\ ~ps.ff
  /\ IF CanStart(th[t]) THEN Moves(t, SimThreadStart(th[t])) ELSE Fails("start")

(* FFIAdvance: the next point, or the end of the simulation.               *)
FFIAdvance(s) ==
  IF s.ffi.point = Len(s.c.points) THEN [s EXCEPT !.ended = TRUE]
  ELSE [s EXCEPT !.ffi.point = @ + 1, !.ffi.limit = @ + s.c.points[s.ffi.point + 1]]

(* FFITrackNFFInterval: simulate until the limit.                          *)
FFITrackNFFInterval(s) ==
  IF s.ff \/ s.ffi.done >= s.ffi.limit THEN [s EXCEPT !.fail = "interval"]
  ELSE [s EXCEPT !.ffi.nff = TRUE, !.ffi.target = s.ffi.limit - s.ffi.done]

Counts(s, n) == [s EXCEPT !.ffi.done = @ + n, !.total = @ + n]

FFIBlock(t, s, n) ==
  \E s1 \in {Counts(s, n)} :
    IF s1.ffi.done < s1.ffi.limit THEN ps' = s1 /\ Becomes(t, [th[t] EXCEPT !.ptr = "ffi"])
    ELSE \E s2 \in {FFIAdvance(s1)} :
           IF s2.ended THEN ps' = s2 /\ UNCHANGED th
           ELSE IF ~s2.ff \/ ~CanStart(th[t])
                THEN ps' = [s2 EXCEPT !.fail = "leaving"] /\ UNCHANGED th
           ELSE /\ ps' = FFITrackNFFInterval([s2 EXCEPT !.ff = FALSE])
                /\ Becomes(t, SimThreadStart(th[t]))

FFIBasicBlock(t) ==
  /\ In(t, "code") /\ th[t].ptr = "ffi" /\ ps.total < MaxInstrs
  /\ \E n \in BlockSizes : FFIBlock(t, ps, n)

(* A fault of the next definition: what ran before the event is not added. *)
Entered(s) == [s EXCEPT !.ffi.nff = FALSE]
Entering(s) == [s EXCEPT !.ffi.done = @ + s.ffi.start - s.ffi.prev, !.ffi.nff = FALSE]
FFIEntryBasicBlock(t) ==
  /\ In(t, "code") /\ th[t].ptr = "entry" /\ ps.total < MaxInstrs
  /\ \E s \in {FFIAdvance(Entering(ps))} :
       IF ~ps.ffi.nff THEN Fails("entry")
       ELSE IF s.ended THEN ps' = s /\ UNCHANGED th
       ELSE \E n \in BlockSizes : FFIBlock(t, s, n)

-----------------------------------------------------------------------------
(* The end of a phase, and who waits for it.                               *)

Sync(t) ==
  /\ In(t, "code") /\ th[t].ptr = "core"
  /\ IF th[t].marked THEN Fails("marked") ELSE Moves(t, [th[t] EXCEPT !.pc = "barrier"])

(* The event's ffiFire enters fast-forward; sleepers may be woken.         *)
Fires(s) == s.ffi.target > 0 /\ s.simmed - s.ffi.start >= s.ffi.target
Fire(s) ==
  IF s.ff THEN [s EXCEPT !.fail = "fire"]
  ELSE [s EXCEPT !.ff = TRUE, !.late = 0, !.ffi.target = 0, !.ffi.prev = s.ffi.start,
                 !.ffi.start = s.simmed]
EndOfPhase ==
  /\ Alive /\ \A t \in Threads : th[t].st = "run" => th[t].pc = "barrier"
  /\ \E t \in Threads : th[t].st # "none"
  /\ ps' = [IF Fires(ps) THEN Fire(ps) ELSE ps EXCEPT !.left = PhaseInstrs]
  /\ \E W \in SUBSET {t \in Threads : th[t].st = "sleep"} :
       th' = [t \in Threads |->
                IF th[t].pc = "barrier" THEN [th[t] EXCEPT !.pc = "back"]
                ELSE IF t \in W THEN [th[t] EXCEPT !.st = "out"] ELSE th[t]]

(* TakeBarrier, after sync(), which may have moved the thread.             *)
(* (Before it, a fault: the functions are those of the core it comes from.)*)
Goes(t, r, c) == [r EXCEPT !.pc = "code", !.cid = c, !.at = c]
LandsThere(t, r, c) == [Goes(t, r, c) EXCEPT !.ptr = "core"]
Lands(t, r, c) == [Goes(t, r, c) EXCEPT !.ptr = "core", !.on = c]
TakeBarrier(t) ==
  /\ In(t, "back")
  /\ \E c \in Free(t) :
       IF ps.ff
       THEN Moves(t, [SimThreadFini(Left(Goes(t, th[t], c))) EXCEPT !.ptr = FFPtrs(ps.ffi)])
       ELSE Moves(t, Lands(t, th[t], c))

-----------------------------------------------------------------------------
(* System calls and signals.                                               *)

(* PatchTimeoutSyscall, PatchNanosleep: the post-patch, and whether the    *)
(* thread is marked for sleep.  A call that is skipped over keeps the last *)
(* post-patch; an invalid sleep has none ("nullptr").                      *)
Stale(post) == IF post = "null" THEN "null" ELSE "stale"
Skips(t) == Type(th[t].ptr) = "nop" \/ ps.ff
SyscallEnter(t, call) ==
  /\ In(t, "code") /\ th[t].ptr # "retry"
  /\ \E patched \in {~Skips(t) /\ call \in {"timed", "sleep", "invalid"}} :
     \E marks \in {patched /\ call # "invalid"} :
     \E leaves \in {Type(th[t].ptr) = "core" /\ ~ps.c.blocking} :
       IF patched /\ call = "timed" /\ th[t].fake THEN Fails("canary")
       ELSE IF marks /\ (th[t].marked \/ th[t].st = "none") THEN Fails("marked")
       ELSE /\ Becomes(t,
                 LET r == [th[t] EXCEPT
                             !.pc = "sys", !.marked = @ \/ marks, !.kept = @ \/ (marks /\ ~leaves),
                             !.fake = @ \/ (patched /\ call = "timed"),
                             !.post = IF call = "skipped" THEN Stale(@)
                                      ELSE IF patched THEN call ELSE "null"]
                 IN IF leaves THEN [Left(r) EXCEPT !.cid = Invalid, !.ptr = "join", !.on = 0] ELSE r)
            /\ UNCHANGED ps

(* The repeated call: everything is as it was.                             *)
SyscallAgain(t) == In(t, "again") /\ Moves(t, [th[t] EXCEPT !.pc = "sys"])

(* SyscallExit, when the post-patch is done with r and wants ptr.          *)
FromSyscall(t, r) ==
  IF r.ptr = "join" /\ ps.ff
  THEN IF ~r.active \/ ~CanFini(r) THEN Fails("exit")
       ELSE Moves(t, [SimThreadFini(r) EXCEPT !.pc = "code", !.ptr = FFPtrs(ps.ffi)])
  ELSE Moves(t, [r EXCEPT !.pc = IF r.ptr = "retry" THEN "again" ELSE "code"])

(* PostPatchTimeoutSyscall: retried as long as the thread should sleep,    *)
(* unless fast-forwarding has started.                                     *)
Retries(t, timedOut) == timedOut /\ th[t].st = "sleep" /\ ~ps.ff
SyscallExit(t, timedOut) ==
  /\ In(t, "sys")
  /\ CASE th[t].post = "invalid" -> Fails("nullptr")
       [] th[t].post = "stale" -> Fails("stale")   \* whatever it does
       [] th[t].post = "timed" /\ ~th[t].fake -> Fails("not faking")
       [] th[t].post = "timed" /\ th[t].fake ->
            IF Retries(t, timedOut) THEN FromSyscall(t, [th[t] EXCEPT !.ptr = "retry"])
            ELSE \E r \in {[th[t] EXCEPT !.fake = FALSE, !.st = IF @ = "sleep" THEN "out" ELSE @]} :
                   IF ~ps.c.blocking THEN FromSyscall(t, [r EXCEPT !.ptr = "join"])
                   ELSE IF r.cid \notin Cores THEN Fails("cores[tid]")
                   ELSE FromSyscall(t, [r EXCEPT !.ptr = "core", !.on = r.cid])
       [] th[t].post \in {"null", "sleep"} -> FromSyscall(t, th[t])

-----------------------------------------------------------------------------
(* Magic operations: ROI_BEGIN, ROI_END, REGISTER_THREAD; and what FFThread*)
(* does from outside.  FFI goes with hooks ignored.                        *)
Toggles == Alive /\ ps.c.points = <<>>
ROIBegin(t) == Toggles /\ th[t].pc = "code" /\ ps.ff /\ ps' = [ps EXCEPT !.ff = FALSE] /\ UNCHANGED th
ROIEnd(t) == Toggles /\ th[t].pc = "code" /\ ~ps.ff /\ ps' = [ps EXCEPT !.ff = TRUE] /\ UNCHANGED th

RegisterThread(t) ==
  /\ In(t, "code") /\ ps.c.register /\ Type(th[t].ptr) = "nop"
  /\ IF CanStart(th[t]) THEN Moves(t, [SimThreadStart(th[t]) EXCEPT !.reg = TRUE])
     ELSE Fails("start")

Next ==
  \/ \E t \in Threads :
       \/ ThreadStart(t) \/ ThreadFini(t) \/ AfterForkInChild(t)
       \/ Join(t) \/ Simulate(t) \/ FFBasicBlock(t) \/ FFIBasicBlock(t) \/ FFIEntryBasicBlock(t)
       \/ Sync(t) \/ TakeBarrier(t) \/ SyscallAgain(t) \/ RegisterThread(t)
       \/ \E call \in ps.c.calls : SyscallEnter(t, call)
       \/ \E timedOut \in BOOLEAN : SyscallExit(t, timedOut)
       \/ ROIBegin(t) \/ ROIEnd(t)
  \/ EndOfPhase

Spec == Init /\ [][Next]_vars

-----------------------------------------------------------------------------
(* A thread that simulates does it with the functions of the core it runs  *)
(* on; a thread that joins at its next point is known to the scheduler and *)
(* has no core; one that is fast-forwarded or not registered is unknown to *)
(* it, and none is simulated that did not start outside fast-forward       *)
(* unregistered: whatever the order of calls, signals, phases and toggles  *)
(* (zsim.cpp:119-133, 202-215, 507-530, 992-1065).                         *)
PointersMatch ==
  \A t \in Threads : Alive /\ th[t].pc \in {"code", "barrier"} =>
    /\ th[t].ptr = "core" => th[t].st = "run" /\ th[t].on = th[t].at /\ th[t].cid = th[t].at
    /\ th[t].ptr = "join" => th[t].st \in {"out", "sleep"} /\ th[t].cid = Invalid /\ th[t].reg
    /\ Type(th[t].ptr) = "nop" => th[t].st = "none" /\ th[t].cid = Uninitialized
    /\ th[t].active = (th[t].st # "none")

(* A call is repeated only by a thread that sleeps, or has been woken.     *)
RetriesSleep ==
  \A t \in Threads : Alive /\ th[t].pc = "again" => th[t].fake /\ th[t].st \in {"sleep", "out"}

(* What aborts is known: a thread marked for sleep that has already left,  *)
(* or does not leave, since its system call follows another directly or    *)
(* calls block (scheduler.h:299, 388; zsim.cpp:1021); a call skipped over, *)
(* which keeps the post-patch of the one before (virt.cpp:91, 99); a sleep *)
(* with an invalid time, which has none (time.cpp:197); a sleep a signal   *)
(* ends, of which the scheduler is not told, before the thread finishes or *)
(* fast-forwards (scheduler.h:256); and, in a child, the timeouts the      *)
(* parent's threads were in (timeout.cpp:74).                              *)
AbortsKnown ==
  \/ ps.fail \in {"none", "nullptr", "stale"}
  \/ ps.fail \in {"marked", "finish", "exit", "cores[tid]"} /\ \E t \in Threads : th[t].kept
  \/ ps.fail \in {"finish", "exit"} /\ \E t \in Threads : th[t].st = "sleep" /\ ~th[t].fake
  \/ ps.fail = "canary" /\ ps.heir

(* FFI switches at its points: it fast-forwards through odd or even ones,  *)
(* and what it has counted when it fast-forwards is what was executed, but *)
(* for what a thread simulates after the event, when it was not in the     *)
(* barrier, which is counted with the next interval (zsim.cpp:279-370).    *)
FFISwitches ==
  ps.ffi.on /\ Alive =>
    \A t \in Threads : th[t].pc = "code" /\ th[t].ptr = "ffi" =>
      ps.ffi.done + ps.late = ps.total /\ ps.ffi.done < ps.ffi.limit

ThreadsExact == PointersMatch /\ RetriesSleep /\ AbortsKnown /\ FFISwitches
=============================================================================
