----------------------------- MODULE AdaptiveEvent -----------------------------
(***************************************************************************)
(* An AdaptiveEvent in the event queue (event_queue.h): it fires at the    *)
(* end of a phase at which a counter has reached its target, and asks for  *)
(* the counter as seldom as the highest rate of the counter allows.  The   *)
(* interval of instruction-driven fast-forward ends so (zsim.cpp:307).     *)
(***************************************************************************)
EXTENDS Integers, TLAPS

CONSTANTS Targets,  \* target, from a start of 0
          Rates,    \* maxRate, per phase
          MaxPhase  \* bound on the phases looked at

VARIABLES ev,     \* the event: target, maxRate, at (its key in the queue),
                  \* asked (callback() has run) and fired
          clock   \* phase (numPhases), and the counter: cur, now, and last,
                  \* at the end of the phase before the one that has ended

vars == <<ev, clock>>

(* The time to wait for what is left, at least a phase.                    *)
(* (Before it, a fault: rounded up.)                                       *)
PeriodRoundedUp(left, maxRate) == left \div maxRate + 1
Period(left, maxRate) ==
  LET p == left \div maxRate IN IF p = 0 THEN 1 ELSE p

(* insert(), in the first phase.                                           *)
Init ==
  /\ clock = [phase |-> 0, cur |-> 0, last |-> 0]
  /\ \E target \in Targets, maxRate \in Rates :
       ev = [target |-> target, maxRate |-> maxRate, at |-> Period(target, maxRate),
             asked |-> FALSE, fired |-> FALSE]

(* callback(), and where tick() puts the event.                            *)
Callback(phase, cur) ==
  IF cur >= ev.target THEN [ev EXCEPT !.fired = TRUE]
  ELSE [ev EXCEPT !.asked = TRUE, !.at = phase + Period(ev.target - cur, ev.maxRate)]

(* A phase in which the counter moves by d, and the tick at its end.       *)
Phase(d) ==
  /\ ~ev.fired /\ clock.phase < MaxPhase
  /\ clock' = [phase |-> clock.phase + 1, cur |-> clock.cur + d, last |-> clock.cur]
  /\ ev' = IF ev.at = clock.phase THEN Callback(clock.phase, clock.cur + d) ELSE ev

Next == \E d \in 0..ev.maxRate : Phase(d)

Spec == Init /\ [][Next]_vars

-----------------------------------------------------------------------------
(* The assertion of callback(): the target is overshot by at most a phase. *)
(* Not so if the target was less than a phase away when the event was      *)
(* inserted: the phase it is inserted in is not looked at                  *)
(* (event_queue.h:60, 68).                                                 *)
OvershootBounded ==
  ev.fired => clock.cur - ev.target <= ev.maxRate \/ ev.target < ev.maxRate

(* "Adjusts period to fire on the first phase following the target": so it *)
(* is once the event has looked at the counter; the first look may be a    *)
(* phase late (event_queue.h:44).  The event is never passed by.           *)
FirstPhase ==
  /\ ev.fired => clock.cur >= ev.target
  /\ ev.fired /\ ev.asked => clock.last < ev.target
  /\ ~ev.fired => ev.at >= clock.phase /\ (ev.asked => clock.cur < ev.target)

FiresInTime == OvershootBounded /\ FirstPhase

-----------------------------------------------------------------------------
(* It fires in time for every target and every rate.                       *)

(* A whole number of rates fits in what is left.                           *)
LEMMA PeriodFits ==
  ASSUME NEW left \in Nat, NEW rate \in Nat \ {0}
  PROVE  /\ Period(left, rate) \in Nat \ {0}
         /\ Period(left, rate) = 1 \/ Period(left, rate) * rate <= left
<1> DEFINE p == left \div rate
<1>1. p \in Int /\ p * rate <= left /\ left < (p + 1) * rate
  OBVIOUS
<1>2. p >= 0
  BY <1>1
<1> QED
  BY <1>1, <1>2 DEF Period

(* What is still to come until the event is looked at does not take the    *)
(* counter past the target, or takes it past by a phase.                   *)
Ahead ==
  LET togo == ev.at - clock.phase IN
    \/ ~ev.asked /\ (clock.cur + togo * ev.maxRate <= ev.target \/ ev.target < ev.maxRate)
    \/ ev.asked /\ clock.cur < ev.target
                /\ (togo = 0 \/ clock.cur + (togo + 1) * ev.maxRate <= ev.target)

Event ==
  [target : Nat, maxRate : Nat \ {0}, at : Nat, asked : BOOLEAN, fired : BOOLEAN]
Clock == [phase : Nat, cur : Nat, last : Nat]

IInv ==
  /\ ev \in Event /\ clock \in Clock
  /\ ~ev.fired => ev.at >= clock.phase /\ Ahead
  /\ ev.fired => clock.cur >= ev.target
  /\ FiresInTime

LEMMA InitIInv ==
  ASSUME Targets \subseteq Nat, Rates \subseteq Nat \ {0}, Init
  PROVE  IInv
<1>1. PICK target \in Targets, maxRate \in Rates :
        ev = [target |-> target, maxRate |-> maxRate, at |-> Period(target, maxRate),
              asked |-> FALSE, fired |-> FALSE]
  BY DEF Init
<1>2. target \in Nat /\ maxRate \in Nat \ {0}
  OBVIOUS
<1>3. /\ Period(target, maxRate) \in Nat \ {0}
      /\ Period(target, maxRate) = 1 \/ Period(target, maxRate) * maxRate <= target
  BY <1>2, PeriodFits
<1> DEFINE at == Period(target, maxRate)
<1> HIDE DEF at
<1>4. clock = [phase |-> 0, cur |-> 0, last |-> 0]
  BY DEF Init
<1>5. at \in Nat \ {0} /\ (at = 1 \/ at * maxRate <= target)
  BY <1>3 DEF at
<1>6. 0 + (at - 0) * maxRate <= target \/ target < maxRate
  <2>1. CASE at = 1
    BY <2>1, <1>2
  <2>2. CASE at * maxRate <= target
    <3>1. at - 0 = at
      BY <1>5
    <3>2. at * maxRate \in Nat
      BY <1>2, <1>5
    <3> QED
      BY <2>2, <3>1, <3>2
  <2> QED
    BY <1>5, <2>1, <2>2
<1>7. ev = [target |-> target, maxRate |-> maxRate, at |-> at, asked |-> FALSE, fired |-> FALSE]
  BY <1>1 DEF at
<1>8. Ahead
  BY <1>4, <1>6, <1>7 DEF Ahead
<1> QED
  BY <1>2, <1>4, <1>5, <1>7, <1>8
     DEF IInv, Event, Clock, FiresInTime, OvershootBounded, FirstPhase

LEMMA PhaseKeepsIInv ==
  ASSUME IInv, NEW d \in 0..ev.maxRate, Phase(d)
  PROVE  IInv'
<1> DEFINE rate == ev.maxRate
           cur == clock.cur + d
           togo == ev.at - clock.phase
<1>1. /\ ev \in Event /\ clock \in Clock /\ ~ev.fired /\ d \in Nat /\ d <= rate
      /\ rate \in Nat \ {0} /\ ev.target \in Nat /\ ev.at \in Nat /\ clock.phase \in Nat
      /\ clock.cur \in Nat /\ togo \in Nat /\ cur \in Nat /\ Ahead
  BY DEF IInv, Phase, Event, Clock
<1>2. clock' = [phase |-> clock.phase + 1, cur |-> cur, last |-> clock.cur] /\ clock' \in Clock
  BY <1>1 DEF Phase, Clock
<1>3. CASE ev.at = clock.phase /\ cur >= ev.target
  <2>1. ev' = [ev EXCEPT !.fired = TRUE] /\ ev' \in Event /\ ev'.fired
        /\ ev'.target = ev.target /\ ev'.maxRate = rate /\ ev'.asked = ev.asked
    BY <1>1, <1>3 DEF Phase, Callback, Event
  <2>2. ev.asked => clock.cur < ev.target
    BY <1>1 DEF Ahead
  <2>3. clock.cur <= ev.target \/ ev.target < rate
    <3>1. togo * rate = 0
      BY <1>1, <1>3
    <3> QED
      BY <1>1, <3>1 DEF Ahead
  <2>4. cur - ev.target <= rate \/ ev.target < rate
    BY <1>1, <2>3
  <2> QED
    BY <1>1, <1>2, <1>3, <2>1, <2>2, <2>4
       DEF IInv, FiresInTime, OvershootBounded, FirstPhase
<1>4. CASE ev.at = clock.phase /\ cur < ev.target
  <2> DEFINE p == Period(ev.target - cur, rate)
  <2>1. p \in Nat \ {0} /\ (p = 1 \/ p * rate <= ev.target - cur)
    BY <1>1, <1>4, PeriodFits
  <2> HIDE DEF p
  <2>2. ev' = [ev EXCEPT !.asked = TRUE, !.at = clock.phase + p]
    BY <1>1, <1>4 DEF Phase, Callback, p
  <2>3. ev' \in Event /\ ~ev'.fired /\ ev'.asked /\ ev'.at = clock.phase + p
        /\ ev'.target = ev.target /\ ev'.maxRate = rate
    <3>1. clock.phase + p \in Nat
      BY <1>1, <2>1
    <3> QED
      BY <1>1, <2>2, <3>1 DEF Event
  <2>4. ev'.at - clock'.phase = p - 1 /\ clock'.cur = cur
    BY <1>1, <1>2, <2>1, <2>3
  <2>5. p - 1 = 0 \/ cur + ((p - 1) + 1) * rate <= ev.target
    <3>1. (p - 1) + 1 = p /\ p * rate \in Nat
      BY <1>1, <2>1
    <3> QED
      BY <1>1, <2>1, <3>1
  <2>6. Ahead'
    BY <1>4, <2>3, <2>4, <2>5 DEF Ahead
  <2> QED
    BY <1>1, <1>2, <1>4, <2>1, <2>3, <2>4, <2>6
       DEF IInv, FiresInTime, OvershootBounded, FirstPhase
<1>5. CASE ev.at # clock.phase
  <2>1. ev' = ev /\ togo \in Nat \ {0} /\ ev'.at - clock'.phase = togo - 1
    BY <1>1, <1>2, <1>5 DEF Phase
  <2>2. /\ (togo - 1) * rate = togo * rate - rate
        /\ ((togo - 1) + 1) * rate = togo * rate
        /\ (togo + 1) * rate = togo * rate + rate
        /\ togo * rate \in Nat /\ togo * rate >= rate
    BY <1>1, <2>1
  <2>3. Ahead'
    <3>1. CASE ~ev.asked
      BY <1>1, <1>2, <2>1, <2>2, <3>1 DEF Ahead
    <3>2. CASE ev.asked
      BY <1>1, <1>2, <2>1, <2>2, <3>2 DEF Ahead
    <3> QED
      BY <3>1, <3>2
  <2>4. ev.asked => cur < ev.target
    BY <1>1, <2>1, <2>2 DEF Ahead
  <2>5. ev.at >= clock.phase + 1 /\ clock'.phase = clock.phase + 1 /\ clock'.cur = cur
    BY <1>1, <1>2, <2>1
  <2>6. FiresInTime'
    BY <1>1, <2>1, <2>4, <2>5 DEF FiresInTime, OvershootBounded, FirstPhase
  <2> QED
    BY <1>1, <1>2, <2>1, <2>3, <2>5, <2>6 DEF IInv
<1> QED
  BY <1>1, <1>3, <1>4, <1>5

(* An interval of instruction-driven fast-forward ends at the first phase  *)
(* that reaches it and overshoots it by at most a phase, whatever the rate *)
(* and the target: event_queue.h:44-76 (FFITrackNFFInterval).              *)
THEOREM EventFiresInTime ==
  ASSUME Targets \subseteq Nat, Rates \subseteq Nat \ {0}
  PROVE  Spec => []FiresInTime
<1>1. Init => IInv
  BY InitIInv
<1>2. IInv /\ [Next]_vars => IInv'
  <2> SUFFICES ASSUME IInv, [Next]_vars
               PROVE  IInv'
    OBVIOUS
  <2>1. CASE Next
    BY <2>1, PhaseKeepsIInv DEF Next
  <2>2. CASE UNCHANGED vars
    BY <2>2 DEF vars, IInv, Ahead, FiresInTime, OvershootBounded, FirstPhase
  <2> QED
    BY <2>1, <2>2
<1>3. IInv => FiresInTime
  BY DEF IInv
<1> QED
  BY <1>1, <1>2, <1>3, PTL DEF Spec
=============================================================================
