-------------------------------- MODULE Clocks --------------------------------
(***************************************************************************)
(* The time a simulated program sees: virt/time.cpp, time_conv.h and the   *)
(* RDTSC of zsim.cpp.  A process that is fast-forwarded reads the host's   *)
(* clocks; a simulated one reads its clock domain's offset plus the time   *)
(* of the phases so far, and its TSC also the cycles of its core in the    *)
(* phase.  Processes may share a domain.                                   *)
(***************************************************************************)
EXTENDS Integers, FiniteSets

CONSTANTS Procs, Readers,
          DomainsOf,   \* the clock domains the processes are configured with
          PhaseLength, \* cycles
          FreqMHz,
          HostTicks,   \* cycles of the host's TSC in a nanosecond
          Blocks,      \* cycles of a basic block
          Sleeps,      \* how far ahead a program sleeps, in nanoseconds
          Noon, MaxWall, MaxPhases, MaxToggles

VARIABLES ck, pr

vars == <<ck, pr>>

CyclesToNs(c) == (c * 1000) \div FreqMHz
NsToCycles(n) == (n * FreqMHz) \div 1000

(* A domain that was never captured has offset 0.  What a process last     *)
(* read, and whether it went back, is kept for the properties.             *)
Init ==
  /\ ck \in {[wall |-> Noon, phases |-> 0, toggles |-> 0, domain |-> d,
              off |-> [x \in Procs |-> [ns |-> 0, tsc |-> 0]]] : d \in DomainsOf}
  /\ pr = [p \in Procs |-> [st |-> "new", cur |-> 0, end |-> PhaseLength, wake |-> 0, deadline |-> 0, base |-> 0,
                            ns |-> 0, tsc |-> 0, back |-> {}, ahead |-> {}]]

Glob == ck.phases * PhaseLength
HostTsc == ck.wall * HostTicks
Off(p) == ck.off[ck.domain[p]]
Simulated(p) == pr[p].st = "run"
Mates(p) == {q \in Procs : ck.domain[q] = ck.domain[p]}

-----------------------------------------------------------------------------
(* What the clocks say to a simulated process.                             *)
SimNs(p) == Off(p).ns + CyclesToNs(Glob)
VirtGetPhaseRDTSC(p) == Off(p).tsc + Glob
SimTsc(p) == VirtGetPhaseRDTSC(p) + (pr[p].cur % PhaseLength)

(* The clocks on which the simulation is ahead of the host: leaving it, or *)
(* taking new offsets, sets them back.                                     *)
CycleOf(p) == IF pr[p].cur > Glob THEN pr[p].cur ELSE Glob
Ahead(p) == (IF SimNs(p) > ck.wall THEN {"ns"} ELSE {})
            \cup (IF Off(p).tsc + CycleOf(p) > HostTsc THEN {"tsc"} ELSE {})

Waits(p) == Simulated(p) /\ pr[p].cur > pr[p].end
Reads(p) == pr[p].st \in {"run", "ff"} /\ ~Waits(p)
SkipTimeVirt(p) == pr[p].st = "ff"
VirtClock(p) == IF SkipTimeVirt(p) THEN ck.wall ELSE SimNs(p)
FakeRDTSC(p) == IF SkipTimeVirt(p) THEN HostTsc ELSE SimTsc(p)
AtEdge(p) == ~SkipTimeVirt(p) /\ pr[p].cur = pr[p].end
ReadClocks(p) ==
  /\ Reads(p)
  /\ pr' = [pr EXCEPT ![p].ns = VirtClock(p), ![p].tsc = FakeRDTSC(p),
                      ![p].back = @ \cup (IF VirtClock(p) < pr[p].ns THEN {"ns"} ELSE {})
                                    \cup (IF FakeRDTSC(p) < pr[p].tsc /\ ~AtEdge(p) THEN {"tsc"} ELSE {})]
  /\ UNCHANGED ck

(* VirtCaptureClocks(): leaving fast-forward always, a start only if the   *)
(* domain has no offsets yet.  Offset first, then a fault.                 *)
Offset == [ns |-> ck.wall - CyclesToNs(Glob), tsc |-> HostTsc - Glob]
CapturesOnce(p, isDeffwd) == Off(p).ns = 0
Captures(p, isDeffwd) == isDeffwd \/ Off(p).ns = 0
Capture(p, isDeffwd) ==
  IF Captures(p, isDeffwd)
  THEN [ck EXCEPT !.off[ck.domain[p]] = Offset] ELSE ck
SeenBy(p, isDeffwd) ==
  [q \in Procs |-> IF Captures(p, isDeffwd) /\ q \in Mates(p) /\ pr[q].st \notin {"new", "ff"}
                   THEN [pr[q] EXCEPT !.ahead = @ \cup Ahead(q)] ELSE pr[q]]

(* A core starts with its phase, and its clock never goes back.            *)
Joined(r) == [r EXCEPT !.st = "run", !.cur = IF @ > Glob THEN @ ELSE Glob, !.end = Glob + PhaseLength]

Start(p, ff) ==
  /\ pr[p].st = "new"
  /\ ck' = Capture(p, FALSE)
  /\ \E s \in {SeenBy(p, FALSE)} : pr' = [s EXCEPT ![p] = IF ff THEN [@ EXCEPT !.st = "ff"] ELSE Joined(@)]

Toggles == ck.toggles < MaxToggles
EnterFastForward(p) ==
  /\ Simulated(p) /\ ~Waits(p) /\ Toggles
  /\ pr' = [pr EXCEPT ![p].st = "ff", ![p].ahead = @ \cup Ahead(p)]
  /\ ck' = [ck EXCEPT !.toggles = @ + 1]
ExitFastForward(p) ==
  /\ pr[p].st = "ff" /\ Toggles
  /\ ck' = [Capture(p, TRUE) EXCEPT !.toggles = @ + 1]
  /\ \E s \in {SeenBy(p, TRUE)} : pr' = [s EXCEPT ![p] = Joined(@)]

-----------------------------------------------------------------------------
(* A basic block, and the barrier at its end if the core is past the phase.*)
BblFunc(p) ==
  /\ Simulated(p) /\ ~Waits(p)
  /\ \E n \in Blocks : pr' = [pr EXCEPT ![p].cur = @ + n]
  /\ UNCHANGED ck

(* A sleep until a time of the real-time clock (clock_nanosleep,           *)
(* TIMER_ABSTIME) becomes one of so many phases.  First a fault.           *)
PhasesFloor(ns) == NsToCycles(ns) \div PhaseLength
PhasesOf(ns) == NsToCycles(ns) \div PhaseLength + 1
PatchNanosleep(p) ==
  /\ Reads(p) /\ Simulated(p)
  /\ \E wait \in Sleeps :
       pr' = [pr EXCEPT ![p].st = "sleep", ![p].deadline = SimNs(p) + wait, ![p].base = Off(p).ns,
                        ![p].wake = ck.phases + PhasesOf(wait)]
  /\ UNCHANGED ck

(* The end of a phase: those at the barrier go on, the sleepers whose      *)
(* phase has come wake up and join.                                        *)
EndPhase ==
  /\ ck.phases < MaxPhases
  /\ \A p \in Procs : Simulated(p) => Waits(p)
  /\ \E p \in Procs : Simulated(p) \/ pr[p].st = "sleep"
  /\ ck' = [ck EXCEPT !.phases = @ + 1]
  /\ pr' = [p \in Procs |->
              LET r == pr[p] IN
              IF Simulated(p) THEN [r EXCEPT !.end = @ + PhaseLength]
              ELSE IF r.st # "sleep" \/ r.wake > ck.phases + 1 THEN r
              ELSE [r EXCEPT !.st = "wakes"]]

Wake(p) ==
  /\ pr[p].st = "wakes"
  /\ pr' = [pr EXCEPT ![p] = Joined(@)]
  /\ UNCHANGED ck

HostRuns == /\ ck.wall < MaxWall
            /\ ck' = [ck EXCEPT !.wall = @ + 1]
            /\ UNCHANGED pr

Next ==
  \/ \E p \in Readers : ReadClocks(p) \/ PatchNanosleep(p) \/ Wake(p)
  \/ \E p \in Procs : \E ff \in BOOLEAN : Start(p, ff)
  \/ \E p \in Procs : EnterFastForward(p) \/ ExitFastForward(p) \/ BblFunc(p)
  \/ EndPhase
  \/ HostRuns

-----------------------------------------------------------------------------
(* The time a process reads goes back only where the simulated clock was   *)
(* ahead of the host's when the process, or another one of its clock       *)
(* domain, entered or left fast-forward; never by anything else, but for   *)
(* the TSC of a core that is exactly at the end of its phase.              *)
TimeGoesForward == \A p \in Procs : pr[p].back \subseteq pr[p].ahead

(* A sleep ends in the first phase that begins at its deadline or later,   *)
(* unless the offsets were taken anew meanwhile.                           *)
SleepsEnough ==
  \A p \in Procs :
    Off(p).ns = pr[p].base =>
      /\ pr[p].st = "wakes" => SimNs(p) >= pr[p].deadline
      /\ pr[p].st = "sleep" => CyclesToNs(Glob) + Off(p).ns <= pr[p].deadline + CyclesToNs(PhaseLength)

ClocksExact == TimeGoesForward /\ SleepsEnough

================================================================================
