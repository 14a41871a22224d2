----------------------------- MODULE FutexMatching -----------------------------
(***************************************************************************)
(* The matching of futex wakes and waits (scheduler.cpp, virt/timeout.cpp):*)
(* a thread that has woken others delays its join until they have joined,  *)
(* so that they do not slip a phase.  The critical sections of schedLock   *)
(* are atomic; polling is not one.  The kernel is modelled by what the     *)
(* calls return.                                                           *)
(***************************************************************************)
EXTENDS Integers, FiniteSets, FiniteSetsExt

CONSTANTS Threads,
          Asks,        \* arguments of FUTEX_WAKE, read as an int: UINT_MAX is -1
          Cap,         \* what a call's allowance is capped to (1 << 24)
          Half,        \* an int is in -Half..(Half - 1) (1 << 31)
          MaxSteps     \* bound: wakes, and what comes from outside

VARIABLES th,   \* a thread: where it is, FutexInfo.val, the call's result,
                \* futexJoin.maxWakes and .wokenUp
          sh    \* the scheduler's counters, and the assertion that has failed;
                \* foreign, leaked and steps are ours

vars == <<th, sh>>

(* uint32_t, and what an int becomes there.                                *)
Word == 2 * Half
Cast(v) == v % Word

(* What is assumed of the constants.  All the calls that are in flight or  *)
(* have failed are allowed less than a word: there are at most 255 of 16M. *)
ConstantsFit ==
  /\ IsFiniteSet(Threads) /\ Cap \in Nat /\ Half \in Nat /\ MaxSteps \in Nat
  /\ Cardinality(Threads) <= Cap /\ Cap < Half /\ Asks \subseteq (-Half)..(Half - 1)
  /\ (Cardinality(Threads) + MaxSteps) * Cap < Word

Init ==
  /\ th = [t \in Threads |->
             [pc |-> "out", val |-> 0, res |-> 0, maxWakes |-> 0, wokenUp |-> 0]]
  /\ sh = [allowed |-> 0, unmatched |-> 0, foreign |-> FALSE, leaked |-> 0, steps |-> 0,
           fail |-> "none"]

At(t, pc) == sh.fail = "none" /\ th[t].pc = pc
Goto(t, pc) == th' = [th EXCEPT ![t].pc = pc]
Bounded == sh.steps < MaxSteps
Counted(s) == [s EXCEPT !.steps = @ + 1]

-----------------------------------------------------------------------------
(* FUTEX_WAKE and its kin: notifyFutexWakeStart, the call, and, if it has  *)
(* not failed, notifyFutexWakeEnd.  The count is cast and capped where the *)
(* call starts.                                                            *)
WakeStart(t, v) ==
  /\ At(t, "out") /\ Bounded
  /\ th' = [th EXCEPT ![t] = [@ EXCEPT !.pc = "waking", !.val = v, !.maxWakes = Min({Cast(v), Cap})]]
  /\ sh' = Counted([sh EXCEPT !.allowed = @ + Min({Cast(v), Cap})])

Waiting == {t \in Threads : th[t].pc = "waiting"}

(* The kernel returns how many it woke and, if it was to requeue others    *)
(* when it had woken as many as it was asked to, requeued.  It may wake    *)
(* more than that: WAKE of none wakes one, WAKE_OP goes to a second word.  *)
KernelWakes(t, woken, res) ==
  LET n == Cardinality(woken)
  IN /\ At(t, "waking")
     /\ res \in n..Cardinality(Waiting) /\ (res # n => n = th[t].val)
     /\ th' = [u \in Threads |->
                 IF u = t THEN [th[u] EXCEPT !.pc = "woke", !.res = res]
                 ELSE IF u \in woken THEN [th[u] EXCEPT !.pc = "woken"] ELSE th[u]]
     /\ sh' = [sh EXCEPT !.foreign = @ \/ (th[t].val >= 0 /\ n > th[t].val)]

(* A call that fails (CMP_REQUEUE when the word has changed) is not ended; *)
(* its allowance stays.                                                    *)
WakeFails(t) ==
  /\ At(t, "waking") /\ Bounded /\ Goto(t, "out")
  /\ sh' = Counted([sh EXCEPT !.leaked = @ + th[t].maxWakes])

(* The count that ends a call is the lesser of two ints, then cast; it is  *)
(* not capped.                                                             *)
WakeEnd(t) ==
  /\ At(t, "woke")
  /\ th' = [th EXCEPT ![t] = [@ EXCEPT !.pc = "joining",
                                       !.wokenUp = Cast(Min({th[t].res, th[t].val}))]]
  /\ UNCHANGED sh

(* FUTEX_WAIT; notifyFutexWaitWoken if it returns 0.                       *)
Wait(t) == At(t, "out") /\ Goto(t, "waiting") /\ UNCHANGED sh
WaitWoken(t) == At(t, "woken") /\ Goto(t, "waited") /\ UNCHANGED sh

(* Woken by the kernel (the exit of a thread) or by a thread in fast-      *)
(* forward; or by a signal, and then it does not return 0.                 *)
ExternalWake(t) ==
  /\ At(t, "waiting") /\ Bounded /\ Goto(t, "woken")
  /\ sh' = Counted([sh EXCEPT !.foreign = TRUE])
Interrupted(t) == At(t, "waiting") /\ Goto(t, "out") /\ UNCHANGED sh

-----------------------------------------------------------------------------
(* join(): futexWaitJoin, and futexWakeJoin in its parts.                  *)

WaitJoin(t) ==
  /\ At(t, "waited") /\ Goto(t, "out")
  /\ sh' = IF sh.unmatched >= sh.allowed THEN sh ELSE [sh EXCEPT !.unmatched = @ + 1]

(* The assertions are checked in the order of the code.                    *)
WakeJoin(t) ==
  /\ At(t, "joining") /\ Goto(t, "polling")
  /\ LET s == [sh EXCEPT !.allowed = @ - (th[t].maxWakes - th[t].wokenUp)]
     IN sh' = CASE th[t].maxWakes > sh.allowed -> [sh EXCEPT !.fail = "allowance"]
                [] th[t].maxWakes <= sh.allowed /\ th[t].wokenUp > th[t].maxWakes ->
                     [sh EXCEPT !.fail = "woken up"]
                [] OTHER -> [s EXCEPT !.fail = IF s.unmatched > s.allowed THEN "unmatched" ELSE "none"]

(* The loop ends, and the recheck with the lock is passed.                 *)
WakeMatch(t) ==
  /\ At(t, "polling") /\ th[t].wokenUp <= sh.unmatched /\ Goto(t, "out")
  /\ sh' = [sh EXCEPT !.unmatched = @ - th[t].wokenUp, !.allowed = @ - th[t].wokenUp]

(* Time is up, seen without the lock; then the counters are set with it.   *)
WakeTimeout(t) ==
  At(t, "polling") /\ th[t].wokenUp > sh.unmatched /\ Goto(t, "giving up") /\ UNCHANGED sh

(* (Before it, a fault: the allowance is forgotten.)                       *)
WakeGivesUpForgets(t) ==
  At(t, "giving up") /\ Goto(t, "out") /\ sh' = [sh EXCEPT !.unmatched = 0, !.foreign = TRUE]
WakeGivesUp(t) ==
  /\ At(t, "giving up") /\ Goto(t, "out")
  /\ sh' = [sh EXCEPT !.unmatched = 0, !.allowed = @ - th[t].wokenUp, !.foreign = TRUE]

-----------------------------------------------------------------------------
Join(t) == WaitJoin(t) \/ WakeJoin(t) \/ WakeMatch(t) \/ WakeTimeout(t) \/ WakeGivesUp(t)
Next ==
  \E t \in Threads :
    \/ Join(t) \/ WakeFails(t) \/ WakeEnd(t)
    \/ Wait(t) \/ WaitWoken(t) \/ ExternalWake(t) \/ Interrupted(t)
    \/ \E v \in Asks : WakeStart(t, v)
    \/ \E woken \in SUBSET Waiting, res \in 0..Cap : KernelWakes(t, woken, res)

Spec == Init /\ [][Next]_vars

-----------------------------------------------------------------------------
(* The sum of what q says of each thread, at most Cap: pairs of a thread   *)
(* and one of its wakes, counted.                                          *)
Wakes(q) == {w \in Threads \X (1..Cap) : w[2] <= q[w[1]]}
Total(q) == Cardinality(Wakes(q))

(* What a call has woken: all that its result says, if it asked for more   *)
(* than an int holds, else no more than it asked.                          *)
Woken(r) == IF r.val < 0 THEN r.res ELSE Min({r.res, r.val})
Counts(r) == IF r.pc \in {"woke", "joining", "polling", "giving up"} THEN Woken(r) ELSE 0
Tallies == [t \in Threads |-> Counts(th[t])]

(* The allowance is what the wakes in flight may still bring, and what     *)
(* failed calls have left, whatever times out: the unsigned additions and  *)
(* subtractions never wrap (scheduler.cpp:312, 344, 362, 372).             *)
Claim(r) == IF r.pc \in {"waking", "woke", "joining"} THEN r.maxWakes ELSE Counts(r)
Claims == [t \in Threads |-> Claim(th[t])]
AllowanceExact ==
  sh.fail = "none" => sh.allowed = Total(Claims) + sh.leaked /\ sh.allowed < Word

(* Unless a wake came from outside or a waker gave up, the wakes counted   *)
(* by wakers and not yet matched are those of the woken threads, joined or *)
(* about to: nobody has to give up.                                        *)
Returning == {t \in Threads : th[t].pc \in {"woken", "waited"}}
NoWakeLost == ~sh.foreign => Total(Tallies) = sh.unmatched + Cardinality(Returning)

(* The assertions of join (scheduler.cpp:342, 343, 346).  A waker never    *)
(* lacks its allowance.  It has woken no more than that - except one that  *)
(* asked for UINT_MAX, "to wake everyone waiting" (the comment of line     *)
(* 307), as for anything an int does not hold: the result of the call is   *)
(* compared with -1, and its join always fails.  More is unmatched than is *)
(* allowed only when something has come from outside.                      *)
Asserted ==
  /\ sh.fail # "allowance"
  /\ sh.fail = "woken up" <=> \E t \in Threads : th[t].pc = "polling" /\ th[t].val < 0
  /\ sh.fail = "unmatched" => sh.foreign

MatchingExact == AllowanceExact /\ NoWakeLost /\ Asserted
================================================================================
