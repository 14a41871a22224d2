---------------------------- MODULE ProcessesProofs ----------------------------
(***************************************************************************)
(* What goes wrong with a simulation's processes is known, its counters    *)
(* are exact and its statistics are dumped last, for any number of         *)
(* processes, threads that toggle them and phases; the harness that        *)
(* launches them knows its children; and the port numbers they bind are    *)
(* translated consistently.                                                *)
(***************************************************************************)
EXTENDS Processes, FiniteSetTheorems, TLAPS

Pcs == {"unborn", "boot", "join", "run", "wait", "back", "ending", "out", "asleep", "ff", "ffout",
        "ended"}
Process ==
  [pc : Pcs, ff : {"idle", "exit", "insert", "wait"}, inFF : BOOLEAN, started : BOOLEAN,
   end : {"no", "drain", "exit"}, status : {"running", "restart", "exited"}, left : Nat,
   toggled : BOOLEAN, alive : BOOLEAN, wake : Nat]
Event == [p : Procs \cup {Gone}, at : Nat]
Shared ==
  [mode : [Procs -> Modes], n : Nat, grown : BOOLEAN, phases : Nat, term : BOOLEAN,
   active : Int, ffp : Int, sffp : Int, toggles : Nat,
   eop : {"none", "pause", "tick", "call", "bump"}, by : Procs \cup {NoProc, Watchdog},
   cb : Procs \cup {NoProc, Gone}, evs : SUBSET Event, ffLock : Procs \cup {NoProc, Gone},
   late : BOOLEAN, wd : {"sleep", "act"}, seen : Nat, dumped : BOOLEAN,
   fail : {"none", "race", "exitFastForward", "ended", "CheckForTermination", "tick"}]
Types == proc \in [Procs -> Process] /\ sim \in Shared

-----------------------------------------------------------------------------
(* The inductive invariant, in parts.                                      *)

(* A process that has not started has done nothing, and only one that ends *)
(* has exited.                                                             *)
Life(p) ==
  /\ proc[p].pc \notin {"unborn", "boot"} => proc[p].started
  /\ proc[p].pc = "unborn" => ~proc[p].started
  /\ ~proc[p].started =>
       proc[p].ff = "idle" /\ ~proc[p].toggled /\ proc[p].end = "no" /\ proc[p].status = "running"
  /\ proc[p].end = "no" => proc[p].status # "exited"
Lives == (\A p \in Procs : Life(p)) /\ proc[0].end # "exit"

(* Who is under way in fast-forward holds ffLock, and nobody but who ends  *)
(* the process takes it out of fast-forward meanwhile.                     *)
Lock(p) ==
  /\ proc[p].alive /\ proc[p].ff \in {"exit", "insert"} => sim.ffLock = p
  /\ proc[p].ff = "exit" => proc[p].inFF \/ proc[p].end # "no"
Locks == \A p \in Procs : Lock(p)

(* While a phase ends, nobody runs; once termination is decided, nobody    *)
(* does again, and nobody ends another phase.                              *)
Ends ==
  /\ sim.eop # "none" => \A p \in Procs : proc[p].pc \notin {"run", "back"}
  /\ sim.term /\ sim.eop = "none" => \A p \in Procs : proc[p].pc \notin {"run", "wait"}
  /\ sim.term => sim.eop # "pause"
  /\ sim.seen <= sim.phases
  /\ sim.term /\ sim.eop = "none" /\ sim.wd = "act" => sim.seen < sim.phases
  /\ sim.cb # NoProc => sim.eop = "call"

(* No event is left behind by the phases, but one inserted too late.       *)
Events ==
  \/ sim.late
  \/ \A e \in sim.evs : e.at >= sim.phases /\ (sim.eop = "bump" => e.at > sim.phases)

(* The counters.  What a process not made yet would say does not matter.   *)
Live == {p \in Started : proc[p].status # "exited"}
Skewed == sim.grown /\ \E p \in Procs : proc[p].pc # "unborn" /\ sim.mode[p] = "multi"
Counters ==
  /\ sim.ffp = Cardinality(InFF)
  /\ ~Skewed => sim.sffp = Cardinality({p \in InFF : Synced(sim, p)})
  /\ sim.active = Cardinality(Live)

(* Nobody starts or restarts once the statistics are dumped.               *)
Dumped == sim.dumped => proc[0].started /\ DumpedLast

IInv == Types /\ Lives /\ Locks /\ Ends /\ Events /\ Counters /\ Dumped /\ NoSurprises

-----------------------------------------------------------------------------
(* Counting.                                                               *)

One(b) == IF b THEN 1 ELSE 0

(* Sets that differ by one process at most.                                *)
LEMMA CountOne ==
  ASSUME NEW S, IsFiniteSet(S), NEW T, NEW p, S \ {p} = T \ {p}
  PROVE  /\ IsFiniteSet(T)
         /\ Cardinality(T) = Cardinality(S) + One(p \in T) - One(p \in S)
<1> DEFINE R == S \ {p}
<1>1. /\ IsFiniteSet(R) /\ Cardinality(S) \in Nat
      /\ Cardinality(R) = Cardinality(S) - One(p \in S)
  BY FS_RemoveElement, FS_CardinalityType DEF One
<1>2. CASE p \in T
  <2>1. T = R \cup {p} /\ p \notin R
    BY <1>2
  <2> HIDE DEF R
  <2> QED
    BY <1>1, <1>2, <2>1, FS_AddElement, FS_CardinalityType DEF One
<1>3. CASE p \notin T
  <2>1. T = R
    BY <1>3
  <2> QED
    BY <1>1, <1>3, <2>1 DEF One
<1> QED
  BY <1>2, <1>3

Counted(p) == proc[p].started /\ proc[p].inFF
Alive(p) == proc[p].started /\ proc[p].status # "exited"
Born(p) == proc[p].pc # "unborn"

(* The step of one process, which the counters follow.                     *)
LEMMA CountersFollow ==
  ASSUME ConstantsFit, Types, Types', Counters, NEW p \in Procs,
         sim'.mode = sim.mode, sim'.n = sim.n, sim'.grown = sim.grown,
         \A q \in Procs : (Born(q)' <=> Born(q)),
         \A q \in Procs \ {p} : (Counted(q)' <=> Counted(q)) /\ (Alive(q)' <=> Alive(q)),
         sim'.ffp = sim.ffp + One(Counted(p)') - One(Counted(p)),
         sim'.sffp = sim.sffp + One(Counted(p)' /\ Synced(sim, p)) - One(Counted(p) /\ Synced(sim, p)),
         sim'.active = sim.active + One(Alive(p)') - One(Alive(p))
  PROVE  Counters'
<1> DEFINE S == {q \in InFF : Synced(sim, q)}
<1>1. /\ InFF = {q \in Procs : Counted(q)} /\ InFF' = {q \in Procs : Counted(q)'}
      /\ Live = {q \in Procs : Alive(q)} /\ Live' = {q \in Procs : Alive(q)'}
  BY DEF InFF, Live, Started, Counted, Alive
<1>2. \A q : Synced(sim, q)' <=> Synced(sim, q)
  BY DEF Synced
<1>3. IsFiniteSet(InFF) /\ IsFiniteSet(S) /\ IsFiniteSet(Live)
  BY <1>1, FS_Subset DEF ConstantsFit
<1>4. InFF \ {p} = InFF' \ {p} /\ S \ {p} = S' \ {p} /\ Live \ {p} = Live' \ {p}
  BY <1>1, <1>2
<1>5. /\ p \in InFF <=> Counted(p)
      /\ p \in S <=> Counted(p) /\ Synced(sim, p)
      /\ p \in Live <=> Alive(p)
      /\ p \in InFF' <=> Counted(p)'
      /\ p \in S' <=> Counted(p)' /\ Synced(sim, p)
      /\ p \in Live' <=> Alive(p)'
  BY <1>1, <1>2
<1>6. Skewed' <=> Skewed
  BY DEF Skewed, Born
<1>7. sim'.ffp = Cardinality(InFF')
  BY <1>3, <1>4, <1>5, CountOne DEF Counters, One
<1>8. ~Skewed => sim'.sffp = Cardinality(S')
  <2> HIDE DEF S
  <2>1. ~Skewed => sim.sffp = Cardinality(S)
    BY DEF Counters, S
  <2> QED
    BY <1>3, <1>4, <1>5, <2>1, CountOne DEF One
<1>9. sim'.active = Cardinality(Live')
  BY <1>3, <1>4, <1>5, CountOne DEF Counters, One
<1> QED
  BY <1>6, <1>7, <1>8, <1>9 DEF Counters

LEMMA CountersStay ==
  ASSUME Counters, sim'.mode = sim.mode, sim'.n = sim.n, sim'.grown = sim.grown,
         \A q \in Procs : (Born(q)' <=> Born(q)) /\ (Counted(q)' <=> Counted(q)) /\ (Alive(q)' <=> Alive(q)),
         sim'.ffp = sim.ffp, sim'.sffp = sim.sffp, sim'.active = sim.active
  PROVE  Counters'
<1>1. /\ InFF = {q \in Procs : Counted(q)} /\ InFF' = {q \in Procs : Counted(q)'}
      /\ Live = {q \in Procs : Alive(q)} /\ Live' = {q \in Procs : Alive(q)'}
  BY DEF InFF, Live, Started, Counted, Alive
<1>2. InFF' = InFF /\ Live' = Live
  BY <1>1
<1>3. \A q : Synced(sim, q)' <=> Synced(sim, q)
  BY DEF Synced
<1>4. {q \in InFF : Synced(sim, q)}' = {q \in InFF : Synced(sim, q)}
  BY <1>2, <1>3
<1>5. Skewed' <=> Skewed
  BY DEF Skewed, Born
<1> QED
  BY <1>2, <1>4, <1>5 DEF Counters

-----------------------------------------------------------------------------
(* Steps of one process.                                                   *)

(* p's state becomes r, and the counters follow.                           *)
Becomes(p, r) ==
  /\ proc' = [proc EXCEPT ![p] = r]
  /\ r.pc = "unborn" <=> proc[p].pc = "unborn"
  /\ sim'.ffp = sim.ffp + One(r.started /\ r.inFF) - One(Counted(p))
  /\ sim'.sffp = sim.sffp + One(r.started /\ r.inFF /\ Synced(sim, p))
                          - One(Counted(p) /\ Synced(sim, p))
  /\ sim'.active = sim.active + One(r.started /\ r.status # "exited") - One(Alive(p))
  /\ sim'.mode = sim.mode /\ sim'.n = sim.n /\ sim'.grown = sim.grown

(* The phase, and what ends it, are left alone.                            *)
PhaseStays ==
  /\ sim'.phases = sim.phases /\ sim'.term = sim.term /\ sim'.eop = sim.eop /\ sim'.cb = sim.cb
  /\ sim'.evs = sim.evs /\ sim'.late = sim.late /\ sim'.seen = sim.seen
  /\ sim'.wd \in {sim.wd, "sleep"} /\ sim'.dumped = sim.dumped

LEMMA ProcessSteps ==
  ASSUME ConstantsFit, IInv, NEW p \in Procs, NEW r \in Process, Becomes(p, r), sim' \in Shared,
         Life(p)', Lock(p)', p = 0 => r.end # "exit",
         \A q \in Procs \ {p} : sim.ffLock = q => sim'.ffLock = q,
         Ends', Events', Dumped', NoSurprises'
  PROVE  IInv'
<1>1. proc \in [Procs -> Process] /\ Types'
  BY DEF IInv, Types, Becomes
<1>2. proc'[p] = r /\ \A q \in Procs \ {p} : proc'[q] = proc[q]
  BY <1>1 DEF Becomes
<1>3. Lives'
  <2>1. \A q \in Procs \ {p} : Life(q)'
    BY <1>2 DEF IInv, Lives, Life
  <2>2. proc'[0].end # "exit"
    BY <1>2 DEF IInv, Lives, ConstantsFit
  <2> QED
    BY <2>1, <2>2 DEF Lives
<1>4. Locks'
  <2>1. \A q \in Procs \ {p} : Lock(q)'
    BY <1>2 DEF IInv, Locks, Lock
  <2> QED
    BY <2>1 DEF Locks
<1>5. Counters'
  <2>1. \A q \in Procs : Born(q)' <=> Born(q)
    BY <1>2 DEF Becomes, Born
  <2>2. \A q \in Procs \ {p} : (Counted(q)' <=> Counted(q)) /\ (Alive(q)' <=> Alive(q))
    BY <1>2 DEF Counted, Alive
  <2>3. (Counted(p)' <=> r.started /\ r.inFF) /\ (Alive(p)' <=> r.started /\ r.status # "exited")
    BY <1>2 DEF Counted, Alive
  <2>4. /\ sim'.ffp = sim.ffp + One(Counted(p)') - One(Counted(p))
        /\ sim'.sffp = sim.sffp + One(Counted(p)' /\ Synced(sim, p)) - One(Counted(p) /\ Synced(sim, p))
        /\ sim'.active = sim.active + One(Alive(p)') - One(Alive(p))
        /\ sim'.mode = sim.mode /\ sim'.n = sim.n /\ sim'.grown = sim.grown
    BY <2>3 DEF Becomes, One
  <2> QED
    BY <1>1, <2>1, <2>2, <2>4, CountersFollow DEF IInv
<1> QED
  BY <1>1, <1>3, <1>4, <1>5 DEF IInv

LEMMA ProcessActs ==
  ASSUME ConstantsFit, IInv, NEW p \in Procs, NEW r \in Process, Becomes(p, r), sim' \in Shared,
         Life(p)', Lock(p)', p = 0 => r.end # "exit",
         \A q \in Procs \ {p} : sim.ffLock = q => sim'.ffLock = q,
         PhaseStays, sim'.fail \in {"none", "ended"},
         r.pc \in {"run", "back", "wait"} => r.pc = proc[p].pc \/ (sim.eop = "none" /\ ~sim.term),
         proc[p].started => r.started,
         sim.dumped /\ r.started => r.status = "exited"
  PROVE  IInv'
<1>1. proc'[p] = r /\ \A q \in Procs \ {p} : proc'[q] = proc[q]
  BY DEF IInv, Types, Becomes
<1>2. Ends'
  BY <1>1 DEF IInv, Ends, PhaseStays
<1>3. Events'
  BY DEF IInv, Events, PhaseStays
<1>4. Dumped'
  BY <1>1 DEF IInv, Dumped, DumpedLast, Started, PhaseStays, ConstantsFit
<1>5. NoSurprises'
  BY DEF NoSurprises
<1> QED
  BY <1>2, <1>3, <1>4, <1>5, ProcessSteps

-----------------------------------------------------------------------------
(* SimEnd, by whoever calls it.                                            *)

(* What the counters of fast-forward leave alone.                          *)
SameButFF(s, c) ==
  /\ c.mode = s.mode /\ c.n = s.n /\ c.grown = s.grown /\ c.phases = s.phases /\ c.term = s.term
  /\ c.active = s.active /\ c.toggles = s.toggles /\ c.eop = s.eop /\ c.by = s.by /\ c.cb = s.cb
  /\ c.evs = s.evs /\ c.ffLock = s.ffLock /\ c.late = s.late /\ c.wd = s.wd /\ c.seen = s.seen
  /\ c.dumped = s.dumped /\ c.fail = s.fail

LEMMA CountFFIs ==
  ASSUME NEW s \in Shared, NEW p, NEW k \in Int
  PROVE  /\ CountFF(s, p, k) \in Shared /\ SameButFF(s, CountFF(s, p, k))
         /\ CountFF(s, p, k).ffp = s.ffp + k
         /\ CountFF(s, p, k).sffp = s.sffp + (IF Synced(s, p) THEN k ELSE 0)
<1> DEFINE a == s.ffp + k
           b == s.sffp + (IF Synced(s, p) THEN k ELSE 0)
           c == [s EXCEPT !.ffp = a, !.sffp = b]
<1>1. a \in Int /\ b \in Int
  BY DEF Shared
<1>2. CountFF(s, p, k) = c
  <2>1. CASE Synced(s, p)
    BY <2>1 DEF CountFF
  <2>2. CASE ~Synced(s, p)
    <3>1. b = s.sffp
      BY <2>2 DEF Shared
    <3> QED
      BY <2>2, <3>1 DEF CountFF
  <2> QED
    BY <2>1, <2>2
<1> HIDE DEF a, b
<1>3. c \in Shared /\ c.ffp = a /\ c.sffp = b /\ SameButFF(s, c)
  BY <1>1 DEF Shared, SameButFF
<1> HIDE DEF c
<1> QED
  BY <1>2, <1>3 DEF a, b

LEMMA ExitFFIs ==
  ASSUME NEW s \in Shared, NEW p
  PROVE  /\ ExitFF(s, p) \in Shared /\ SameButFF(s, ExitFF(s, p))
         /\ ExitFF(s, p).ffp = s.ffp - 1
         /\ ExitFF(s, p).sffp = s.sffp - One(Synced(s, p))
<1>1. -1 \in Int /\ s.ffp \in Int /\ s.sffp \in Int
  BY DEF Shared
<1> QED
  BY <1>1, CountFFIs DEF ExitFF, One

LEMMA EnterFFIs ==
  ASSUME NEW s \in Shared, NEW p
  PROVE  /\ EnterFF(s, p) \in Shared /\ SameButFF(s, EnterFF(s, p))
         /\ EnterFF(s, p).ffp = s.ffp + 1
         /\ EnterFF(s, p).sffp = s.sffp + One(Synced(s, p))
<1>1. 1 \in Int /\ s.ffp \in Int /\ s.sffp \in Int
  BY DEF Shared
<1> QED
  BY <1>1, CountFFIs DEF EnterFF, One

LEMMA SimEndKeeps ==
  ASSUME ConstantsFit, IInv, NEW p \in Procs, NEW r \in Process, proc[p].started,
         r \in {proc[p], [proc[p] EXCEPT !.pc = "ended"]}, Running,
         SimEnd(p, [proc EXCEPT ![p] = r], sim)
  PROVE  IInv'
<1>1. /\ proc \in [Procs -> Process] /\ proc[p] \in Process /\ sim \in Shared
      /\ Life(p) /\ Lock(p) /\ (p = 0 => proc[p].end # "exit")
  BY DEF IInv, Types, Lives, Locks
<1>2. /\ r.started /\ r.inFF = proc[p].inFF /\ r.status = proc[p].status /\ r.end = proc[p].end
      /\ r.ff = proc[p].ff /\ r.left = proc[p].left /\ r.pc \in {proc[p].pc, "ended"}
      /\ r.alive = proc[p].alive
  BY <1>1 DEF Process
<1>3. proc[p].pc # "unborn" /\ r.pc # "unborn"
  BY <1>1, <1>2 DEF Life
<1>4. CASE r.end # "no"
  <2>1. proc' = [proc EXCEPT ![p] = r] /\ sim' = sim
    BY <1>1, <1>4 DEF SimEnd
  <2>2. Becomes(p, r) /\ PhaseStays
    BY <1>1, <1>2, <1>3, <2>1 DEF Becomes, PhaseStays, One, Counted, Alive, Shared
  <2>3. proc'[p] = r
    BY <1>1, <2>1
  <2>4. Life(p)' /\ Lock(p)'
    BY <1>1, <1>2, <1>3, <2>1, <2>3 DEF Life, Lock
  <2>5. sim.dumped => r.status = "exited"
    BY <1>2 DEF IInv, Dumped, DumpedLast, Started
  <2> QED
    BY <1>1, <1>2, <2>1, <2>2, <2>4, <2>5, ProcessActs DEF Running
<1>5. CASE r.end = "no"
  <2> DEFINE again == r.left > 0 /\ ~sim.term
             s1 == IF r.inFF THEN ExitFF(sim, p) ELSE sim
             e == [r EXCEPT !.inFF = FALSE, !.end = IF p = 0 THEN "drain" ELSE "exit",
                            !.status = IF again THEN "restart" ELSE "exited",
                            !.left = IF again THEN @ - 1 ELSE @]
  <2>1. proc' = [proc EXCEPT ![p] = e] /\ sim' = IF again THEN s1 ELSE [s1 EXCEPT !.active = @ - 1]
    BY <1>1, <1>5 DEF SimEnd
  <2>2. /\ e \in Process /\ e.started /\ ~e.inFF /\ e.end # "no" /\ (p = 0 => e.end # "exit")
        /\ e.status = (IF again THEN "restart" ELSE "exited") /\ e.pc = r.pc /\ e.ff = r.ff
        /\ e.alive = r.alive
    <3> HIDE DEF again
    <3>1. again => r.left - 1 \in Nat
      BY <1>2 DEF Process, again
    <3> QED
      BY <1>2, <3>1 DEF Process
  <2>3. r.status # "exited"
    BY <1>1, <1>2, <1>5 DEF Life
  <2> HIDE DEF e
  <2>4. sim' \in Shared /\ PhaseStays /\ sim'.fail = sim.fail /\ sim'.ffLock = sim.ffLock
    <3>1. /\ s1 \in Shared /\ s1.fail = sim.fail /\ s1.ffLock = sim.ffLock /\ s1.wd = sim.wd
          /\ s1.phases = sim.phases /\ s1.term = sim.term /\ s1.eop = sim.eop /\ s1.cb = sim.cb
          /\ s1.evs = sim.evs /\ s1.late = sim.late /\ s1.seen = sim.seen /\ s1.dumped = sim.dumped
      BY <1>1, ExitFFIs DEF SameButFF
    <3> HIDE DEF s1
    <3> QED
      BY <2>1, <3>1 DEF PhaseStays, Shared
  <2>5. Becomes(p, e)
    <3>1. /\ sim'.mode = sim.mode /\ sim'.n = sim.n /\ sim'.grown = sim.grown
          /\ sim'.active = sim.active + (IF again THEN 0 ELSE -1)
          /\ sim'.ffp = sim.ffp + (IF r.inFF THEN -1 ELSE 0)
          /\ sim'.sffp = sim.sffp + (IF r.inFF /\ Synced(sim, p) THEN -1 ELSE 0)
      BY <1>1, <2>1, ExitFFIs DEF Shared, SameButFF, One
    <3> QED
      BY <1>1, <1>2, <1>3, <2>1, <2>2, <2>3, <3>1 DEF Becomes, One, Counted, Alive, Shared
  <2>6. proc'[p] = e
    BY <1>1, <2>1
  <2>7. Life(p)' /\ Lock(p)'
    BY <1>1, <1>2, <1>3, <2>2, <2>4, <2>6 DEF Life, Lock
  <2>8. ~sim.dumped
    BY <1>2, <2>3 DEF IInv, Dumped, DumpedLast, Started
  <2> QED
    BY <1>1, <1>2, <2>2, <2>4, <2>5, <2>7, <2>8, ProcessActs DEF Running
<1> QED
  BY <1>4, <1>5

LEMMA AppSimEndKeeps ==
  ASSUME ConstantsFit, IInv, NEW p \in Procs, App(p), proc[p].pc \notin {"unborn", "boot"}, AppSimEnd(p)
  PROVE  IInv'
<1> DEFINE r == [proc[p] EXCEPT !.pc = "ended"]
<1>1. proc \in [Procs -> Process] /\ proc[p] \in Process /\ Life(p)
  BY DEF IInv, Types, Lives
<1>2. proc[p].started /\ r \in Process
  BY <1>1 DEF Life, Process, Pcs
<1>3. [proc EXCEPT ![p].pc = "ended"] = [proc EXCEPT ![p] = r]
  BY <1>1
<1>4. SimEnd(p, [proc EXCEPT ![p] = r], sim) /\ Running
  BY <1>3 DEF AppSimEnd, App
<1> HIDE DEF r
<1>5. r \in {proc[p], [proc[p] EXCEPT !.pc = "ended"]}
  BY DEF r
<1> QED
  BY <1>2, <1>4, <1>5, SimEndKeeps

LEMMA HereSimEndKeeps ==
  ASSUME ConstantsFit, IInv, NEW p \in Procs, Running, proc[p].started, SimEnd(p, proc, sim)
  PROVE  IInv'
<1>1. proc \in [Procs -> Process] /\ proc[p] \in Process
  BY DEF IInv, Types
<1>2. proc = [proc EXCEPT ![p] = proc[p]]
  BY <1>1
<1>3. SimEnd(p, [proc EXCEPT ![p] = proc[p]], sim)
  BY <1>2
<1> QED
  BY <1>1, <1>3, SimEndKeeps

-----------------------------------------------------------------------------
(* The actions of a process.                                               *)

LEMMA Known ==
  ASSUME IInv, NEW p \in Procs
  PROVE  /\ proc \in [Procs -> Process] /\ proc[p] \in Process /\ sim \in Shared
         /\ Life(p) /\ Lock(p)
         /\ p = 0 => proc[p].end # "exit"
         /\ sim.dumped /\ proc[p].started => proc[p].status = "exited"
  BY DEF IInv, Types, Lives, Locks, Dumped, DumpedLast, Started

(* Steps that the counters do not see.                                     *)
LEMMA Moves ==
  ASSUME ConstantsFit, IInv, Running, NEW p \in Procs, NEW r \in Process,
         proc' = [proc EXCEPT ![p] = r], proc[p].started,
         r.started, r.inFF = proc[p].inFF, r.status = proc[p].status, r.end = proc[p].end,
         r.pc # "unborn",
         r.pc \in {"run", "back", "wait"} => r.pc = proc[p].pc \/ (sim.eop = "none" /\ ~sim.term),
         r.alive /\ r.ff \in {"exit", "insert"} => sim'.ffLock = p,
         r.ff = "exit" => r.inFF \/ r.end # "no",
         sim' \in Shared, PhaseStays, sim'.fail = sim.fail,
         sim'.ffp = sim.ffp, sim'.sffp = sim.sffp, sim'.active = sim.active,
         sim'.mode = sim.mode, sim'.n = sim.n, sim'.grown = sim.grown,
         \A q \in Procs \ {p} : sim.ffLock = q => sim'.ffLock = q
  PROVE  IInv'
<1>1. /\ proc \in [Procs -> Process] /\ proc[p] \in Process /\ sim \in Shared
      /\ Life(p) /\ Lock(p)
      /\ p = 0 => proc[p].end # "exit"
      /\ sim.dumped => proc[p].status = "exited"
  BY Known
<1>2. proc'[p] = r /\ proc[p].pc # "unborn"
  BY <1>1 DEF Life
<1>3. Becomes(p, r)
  BY <1>1, <1>2 DEF Becomes, One, Counted, Alive, Shared
<1>4. Life(p)' /\ Lock(p)'
  BY <1>1, <1>2 DEF Life, Lock
<1> QED
  BY <1>1, <1>2, <1>3, <1>4, ProcessActs DEF Running

(* An application thread goes from one place to another.                   *)
LEMMA Walks ==
  ASSUME ConstantsFit, IInv, NEW p \in Procs, App(p), proc[p].pc \notin {"unborn", "boot"},
         NEW pc \in Pcs \ {"unborn", "boot"}, Goto(p, pc), sim' = sim,
         pc \in {"run", "back", "wait"} => sim.eop = "none" /\ ~sim.term
  PROVE  IInv'
<1> DEFINE r == [proc[p] EXCEPT !.pc = pc]
<1>1. proc \in [Procs -> Process] /\ proc[p] \in Process /\ sim \in Shared /\ Life(p) /\ Lock(p)
  BY Known
<1>2. proc' = [proc EXCEPT ![p] = r]
  BY <1>1 DEF Goto
<1>3. /\ r \in Process /\ r.started = proc[p].started /\ r.inFF = proc[p].inFF
      /\ r.status = proc[p].status /\ r.end = proc[p].end /\ r.ff = proc[p].ff /\ r.pc = pc
  BY <1>1 DEF Process
<1> HIDE DEF r
<1>4. proc[p].started
  BY <1>1 DEF Life
<1>5. PhaseStays
  BY <1>1 DEF PhaseStays
<1> QED
  BY <1>1, <1>2, <1>3, <1>4, <1>5, Moves DEF App, Lock

LEMMA JoinKeeps ==
  ASSUME ConstantsFit, IInv, NEW p \in Procs, Join(p)
  PROVE  IInv'
<1>1. App(p) /\ proc[p].pc = "join" /\ sim.eop = "none"
  BY DEF Join, At, SchedLockFree
<1>2. CASE sim.term
  BY <1>1, <1>2, AppSimEndKeeps DEF Join
<1>3. CASE ~sim.term
  BY <1>1, <1>3, Walks DEF Join, Pcs
<1> QED
  BY <1>2, <1>3

LEMMA EndingKeeps ==
  ASSUME ConstantsFit, IInv, NEW p \in Procs, Ending(p)
  PROVE  IInv'
<1>1. App(p) /\ proc[p].pc = "ending" /\ AppSimEnd(p)
  BY DEF Ending, At
<1> QED
  BY <1>1, AppSimEndKeeps

LEMMA SyscallExitKeeps ==
  ASSUME ConstantsFit, IInv, NEW p \in Procs, SyscallExit(p)
  PROVE  IInv'
<1>1. App(p) /\ proc[p].pc \in {"out", "ffout"}
  BY DEF SyscallExit
<1>2. CASE sim.term
  BY <1>1, <1>2, AppSimEndKeeps DEF SyscallExit
<1>3. CASE ~sim.term
  <2>1. PICK pc \in {"ff", "join"} : Goto(p, pc) /\ sim' = sim
    BY <1>3 DEF SyscallExit
  <2> QED
    BY <1>1, <2>1, Walks DEF Pcs
<1> QED
  BY <1>2, <1>3

LEMMA ProgramEndsKeeps ==
  ASSUME ConstantsFit, IInv, NEW p \in Procs, ProgramEnds(p)
  PROVE  IInv'
<1>1. App(p) /\ proc[p].pc \in {"out", "ffout"} /\ AppSimEnd(p)
  BY DEF ProgramEnds
<1> QED
  BY <1>1, AppSimEndKeeps

LEMMA FFBasicBlockKeeps ==
  ASSUME ConstantsFit, IInv, NEW p \in Procs, FFBasicBlock(p)
  PROVE  IInv'
<1>1. App(p) /\ proc[p].pc = "ff" /\ Goto(p, "join") /\ sim' = sim
  BY DEF FFBasicBlock, At
<1> QED
  BY <1>1, Walks DEF Pcs

(* A failure stops everything where it is.                                 *)
LEMMA FailsKeeps ==
  ASSUME IInv, proc' = proc,
         NEW why \in {"race", "ended", "tick"}, sim' = Fails(sim, why), why = "tick" => sim.late
  PROVE  IInv'
<1>1. sim \in Shared
  BY DEF IInv, Types
<1>2. /\ sim' \in Shared /\ sim'.fail = why /\ PhaseStays
      /\ sim'.mode = sim.mode /\ sim'.n = sim.n /\ sim'.grown = sim.grown
      /\ sim'.ffp = sim.ffp /\ sim'.sffp = sim.sffp /\ sim'.active = sim.active
      /\ sim'.ffLock = sim.ffLock
  BY <1>1 DEF Fails, Shared, PhaseStays
<1>3. Types' /\ Lives'
  BY <1>2 DEF IInv, Types, Lives, Life
<1>4. Locks'
  BY <1>2 DEF IInv, Locks, Lock
<1>5. Ends' /\ Events'
  BY <1>2 DEF IInv, Ends, Events, PhaseStays
<1>6. Counters'
  BY <1>2, CountersStay DEF IInv, Born, Counted, Alive
<1>7. Dumped'
  BY <1>2 DEF IInv, Dumped, DumpedLast, Started, PhaseStays
<1>8. NoSurprises'
  BY <1>2 DEF NoSurprises, PhaseStays
<1> QED
  BY <1>3, <1>4, <1>5, <1>6, <1>7, <1>8 DEF IInv

(* Nobody starts when the statistics are dumped: there is nobody left to   *)
(* start before.                                                           *)
LEMMA StartsEarly ==
  ASSUME ConstantsFit, IInv, NEW p \in Procs, ~proc[p].started, (p = 0) <=> (sim.active = 0)
  PROVE  ~sim.dumped
<1> SUFFICES ASSUME sim.dumped PROVE FALSE
  OBVIOUS
<1>1. Live = {}
  BY DEF IInv, Dumped, DumpedLast, Live
<1>2. sim.active = 0
  BY <1>1, FS_EmptySet DEF IInv, Counters
<1> QED
  BY <1>2 DEF IInv, Dumped

LEMMA BootKeeps ==
  ASSUME ConstantsFit, IInv, NEW p \in Procs, Boot(p)
  PROVE  IInv'
<1>1. /\ proc \in [Procs -> Process] /\ proc[p] \in Process /\ sim \in Shared
      /\ Life(p) /\ Lock(p)
      /\ p = 0 => proc[p].end # "exit"
      /\ sim.dumped /\ proc[p].started => proc[p].status = "exited"
  BY Known
<1>2. proc[p].pc = "boot" /\ Running
  BY DEF Boot, At, App
<1> DEFINE first == ~proc[p].started
           race == first /\ ((p = 0) # (sim.active = 0))
<1>3. CASE race
  <2>1. sim' = Fails(sim, "race") /\ proc' = proc
    BY <1>3 DEF Boot
  <2> QED
    BY <2>1, FailsKeeps
<1>4. CASE ~race
  <2> DEFINE ff == proc[p].inFF
             s0 == IF ff THEN CountFF(sim, p, 1) ELSE sim
             r == [proc[p] EXCEPT !.started = TRUE, !.pc = IF ff THEN "ff" ELSE "join"]
  <2>1. /\ proc' = [proc EXCEPT ![p].started = TRUE, ![p].pc = IF ff THEN "ff" ELSE "join"]
        /\ sim' = IF ~first THEN sim ELSE [s0 EXCEPT !.active = @ + 1]
    BY <1>4 DEF Boot
  <2>2. proc' = [proc EXCEPT ![p] = r]
    BY <1>1, <2>1
  <2>3. /\ r \in Process /\ r.started /\ r.inFF = proc[p].inFF /\ r.status = proc[p].status
        /\ r.end = proc[p].end /\ r.ff = proc[p].ff /\ r.pc \in {"ff", "join"}
        /\ r.alive = proc[p].alive
    BY <1>1 DEF Process, Pcs
  <2> HIDE DEF r
  <2>4. /\ s0 \in Shared /\ SameButFF(sim, s0)
        /\ s0.ffp = sim.ffp + One(ff) /\ s0.sffp = sim.sffp + One(ff /\ Synced(sim, p))
    <3>1. CASE ff
      BY <1>1, <3>1, EnterFFIs DEF EnterFF, One
    <3>2. CASE ~ff
      BY <1>1, <3>2 DEF One, SameButFF, Shared
    <3> QED
      BY <3>1, <3>2
  <2> HIDE DEF s0
  <2>5. CASE ~first
    <3>1. sim' = sim
      BY <2>1, <2>5
    <3> QED
      BY <1>1, <1>2, <2>2, <2>3, <2>5, <3>1, Moves DEF PhaseStays, Lock
  <2>6. CASE first
    <3>1. sim' = [s0 EXCEPT !.active = @ + 1]
      BY <2>1, <2>6
    <3>2. /\ sim' \in Shared /\ sim'.active = sim.active + 1 /\ sim'.ffp = s0.ffp
          /\ sim'.sffp = s0.sffp /\ sim'.mode = sim.mode /\ sim'.n = sim.n /\ sim'.grown = sim.grown
          /\ PhaseStays /\ sim'.fail = sim.fail /\ sim'.ffLock = sim.ffLock
      BY <2>4, <3>1 DEF Shared, SameButFF, PhaseStays
    <3>3. proc[p].ff = "idle" /\ proc[p].end = "no" /\ proc[p].status # "exited"
      BY <1>1, <2>6 DEF Life
    <3>4. Becomes(p, r)
      BY <1>1, <1>2, <2>2, <2>3, <2>4, <2>6, <3>2, <3>3 DEF Becomes, One, Counted, Alive, Shared
    <3>5. proc'[p] = r
      BY <1>1, <2>2
    <3>6. Life(p)' /\ Lock(p)'
      BY <2>3, <3>3, <3>5 DEF Life, Lock
    <3>7. ~sim.dumped
      BY <1>4, <2>6, StartsEarly
    <3> QED
      BY <1>1, <1>2, <2>3, <3>2, <3>4, <3>6, <3>7, ProcessActs DEF Running
  <2> QED
    BY <2>5, <2>6
<1> QED
  BY <1>3, <1>4

LEMMA RestartKeeps ==
  ASSUME ConstantsFit, IInv, NEW p \in Procs, Restart(p)
  PROVE  IInv'
<1>1. /\ proc \in [Procs -> Process] /\ proc[p] \in Process /\ sim \in Shared
      /\ Life(p) /\ Lock(p)
      /\ p = 0 => proc[p].end # "exit"
      /\ sim.dumped /\ proc[p].started => proc[p].status = "exited"
  BY Known
<1> DEFINE r == [proc[p] EXCEPT !.alive = TRUE, !.status = "running", !.pc = "boot", !.ff = "idle",
                                !.end = "no", !.toggled = FALSE]
<1>2. proc' = [proc EXCEPT ![p] = r] /\ sim' = sim /\ Running /\ proc[p].status = "restart"
  BY <1>1 DEF Restart
<1>3. /\ r \in Process /\ r.started = proc[p].started /\ r.inFF = proc[p].inFF
      /\ r.status = "running" /\ r.end = "no" /\ r.ff = "idle" /\ r.pc = "boot"
  BY <1>1 DEF Process, Pcs
<1> HIDE DEF r
<1>4. proc[p].started /\ proc[p].pc # "unborn" /\ ~sim.dumped
  BY <1>1, <1>2 DEF Life
<1>5. Becomes(p, r) /\ PhaseStays
  BY <1>1, <1>2, <1>3, <1>4 DEF Becomes, PhaseStays, One, Counted, Alive, Shared
<1>6. proc'[p] = r
  BY <1>1, <1>2
<1>7. Life(p)' /\ Lock(p)'
  BY <1>3, <1>4, <1>6 DEF Life, Lock
<1> QED
  BY <1>1, <1>2, <1>3, <1>4, <1>5, <1>7, ProcessActs DEF Running

LEMMA ToggleKeeps ==
  ASSUME ConstantsFit, IInv, NEW p \in Procs, Toggle(p)
  PROVE  IInv'
<1>1. /\ proc \in [Procs -> Process] /\ proc[p] \in Process /\ sim \in Shared /\ Life(p) /\ Lock(p)
  BY Known
<1> DEFINE r == [proc[p] EXCEPT !.toggled = TRUE]
<1>2. proc' = [proc EXCEPT ![p] = r] /\ sim' = [sim EXCEPT !.toggles = @ + 1]
      /\ Running /\ proc[p].started
  BY <1>1 DEF Toggle, FFAt
<1>3. /\ r \in Process /\ r.started = proc[p].started /\ r.inFF = proc[p].inFF
      /\ r.status = proc[p].status /\ r.end = proc[p].end /\ r.ff = proc[p].ff /\ r.pc = proc[p].pc
      /\ r.alive = proc[p].alive
  BY <1>1 DEF Process
<1> HIDE DEF r
<1>4. /\ sim' \in Shared /\ PhaseStays /\ sim'.fail = sim.fail /\ sim'.ffLock = sim.ffLock
      /\ sim'.ffp = sim.ffp /\ sim'.sffp = sim.sffp /\ sim'.active = sim.active
      /\ sim'.mode = sim.mode /\ sim'.n = sim.n /\ sim'.grown = sim.grown
  BY <1>1, <1>2 DEF Shared, PhaseStays
<1> QED
  BY <1>1, <1>2, <1>3, <1>4, Moves DEF Life, Lock

(* The magic operations.                                                   *)
LEMMA ROIBeginKeeps ==
  ASSUME ConstantsFit, IInv, NEW p \in Procs, ROIBegin(p)
  PROVE  IInv'
<1>1. /\ proc \in [Procs -> Process] /\ proc[p] \in Process /\ sim \in Shared
      /\ Life(p) /\ Lock(p)
      /\ p = 0 => proc[p].end # "exit"
      /\ sim.dumped /\ proc[p].started => proc[p].status = "exited"
  BY Known
<1> DEFINE r == [proc[p] EXCEPT !.inFF = FALSE]
<1>2. /\ proc' = [proc EXCEPT ![p] = r] /\ sim' = ExitFF(sim, p) /\ Running
      /\ proc[p].pc = "ff" /\ proc[p].inFF /\ sim.ffLock = NoProc /\ proc[p].alive
  BY <1>1 DEF ROIBegin, At, App
<1>3. /\ r \in Process /\ r.started = proc[p].started /\ ~r.inFF
      /\ r.status = proc[p].status /\ r.end = proc[p].end /\ r.ff = proc[p].ff /\ r.pc = proc[p].pc
  BY <1>1 DEF Process
<1> HIDE DEF r
<1>4. /\ sim' \in Shared /\ SameButFF(sim, sim') /\ sim'.ffp = sim.ffp - 1
      /\ sim'.sffp = sim.sffp - One(Synced(sim, p))
  BY <1>1, <1>2, ExitFFIs
<1>5. r.ff \notin {"exit", "insert"} /\ proc[p].started
  BY <1>1, <1>2, <1>3 DEF Lock, Life, NoProc, ConstantsFit
<1>6. Becomes(p, r) /\ PhaseStays /\ sim'.fail = sim.fail /\ sim'.ffLock = sim.ffLock
  BY <1>1, <1>2, <1>3, <1>4, <1>5
     DEF Becomes, PhaseStays, SameButFF, One, Counted, Alive, Shared
<1>7. proc'[p] = r
  BY <1>1, <1>2
<1>8. Life(p)' /\ Lock(p)'
  BY <1>1, <1>3, <1>5, <1>7 DEF Life, Lock
<1> QED
  BY <1>1, <1>2, <1>3, <1>4, <1>5, <1>6, <1>8, ProcessActs DEF Running

LEMMA ROIEndKeeps ==
  ASSUME ConstantsFit, IInv, NEW p \in Procs, ROIEnd(p)
  PROVE  IInv'
<1>1. /\ proc \in [Procs -> Process] /\ proc[p] \in Process /\ sim \in Shared
      /\ Life(p) /\ Lock(p)
      /\ p = 0 => proc[p].end # "exit"
      /\ sim.dumped /\ proc[p].started => proc[p].status = "exited"
  BY Known
<1> DEFINE r == [proc[p] EXCEPT !.inFF = TRUE]
<1>2. /\ proc' = [proc EXCEPT ![p] = r] /\ sim' = EnterFF(sim, p) /\ Running
      /\ proc[p].pc = "run" /\ ~proc[p].inFF /\ sim.ffLock = NoProc /\ proc[p].alive
  BY <1>1 DEF ROIEnd, At, App
<1>3. /\ r \in Process /\ r.started = proc[p].started /\ r.inFF
      /\ r.status = proc[p].status /\ r.end = proc[p].end /\ r.ff = proc[p].ff /\ r.pc = proc[p].pc
  BY <1>1 DEF Process
<1> HIDE DEF r
<1>4. /\ sim' \in Shared /\ SameButFF(sim, sim') /\ sim'.ffp = sim.ffp + 1
      /\ sim'.sffp = sim.sffp + One(Synced(sim, p))
  BY <1>1, <1>2, EnterFFIs
<1>5. r.ff \notin {"exit", "insert"} /\ proc[p].started
  BY <1>1, <1>2, <1>3 DEF Lock, Life, NoProc, ConstantsFit
<1>6. Becomes(p, r) /\ PhaseStays /\ sim'.fail = sim.fail /\ sim'.ffLock = sim.ffLock
  BY <1>1, <1>2, <1>3, <1>4, <1>5
     DEF Becomes, PhaseStays, SameButFF, One, Counted, Alive, Shared
<1>7. proc'[p] = r
  BY <1>1, <1>2
<1>8. Life(p)' /\ Lock(p)'
  BY <1>1, <1>3, <1>5, <1>7 DEF Life, Lock
<1> QED
  BY <1>1, <1>2, <1>3, <1>4, <1>5, <1>6, <1>8, ProcessActs DEF Running

(* The control thread.                                                     *)
LEMMA FFTimeoutKeeps ==
  ASSUME ConstantsFit, IInv, NEW p \in Procs, FFTimeout(p)
  PROVE  IInv'
  BY HereSimEndKeeps DEF FFTimeout, FFAt

LEMMA FFLockKeeps ==
  ASSUME ConstantsFit, IInv, NEW p \in Procs, FFLock(p)
  PROVE  IInv'
<1>1. /\ proc \in [Procs -> Process] /\ proc[p] \in Process /\ sim \in Shared /\ Life(p) /\ Lock(p)
  BY Known
<1> DEFINE r == [proc[p] EXCEPT !.toggled = FALSE, !.ff = IF proc[p].inFF THEN "exit" ELSE "insert"]
<1>2. proc' = [proc EXCEPT ![p] = r] /\ sim' = [sim EXCEPT !.ffLock = p]
      /\ Running /\ proc[p].toggled /\ sim.ffLock = NoProc
  BY <1>1 DEF FFLock, FFAt
<1>3. /\ r \in Process /\ r.started = proc[p].started /\ r.inFF = proc[p].inFF
      /\ r.status = proc[p].status /\ r.end = proc[p].end /\ r.pc = proc[p].pc
      /\ r.ff = "exit" => r.inFF
  BY <1>1 DEF Process
<1> HIDE DEF r
<1>4. /\ sim' \in Shared /\ PhaseStays /\ sim'.fail = sim.fail /\ sim'.ffLock = p
      /\ sim'.ffp = sim.ffp /\ sim'.sffp = sim.sffp /\ sim'.active = sim.active
      /\ sim'.mode = sim.mode /\ sim'.n = sim.n /\ sim'.grown = sim.grown
  BY <1>1, <1>2 DEF Shared, PhaseStays
<1>5. \A q \in Procs : sim.ffLock # q
  BY <1>2 DEF NoProc, ConstantsFit
<1>6. proc[p].started
  BY <1>1, <1>2 DEF Life
<1> QED
  BY <1>1, <1>2, <1>3, <1>4, <1>5, <1>6, Moves DEF Life

LEMMA FFExitKeeps ==
  ASSUME ConstantsFit, IInv, NEW p \in Procs, FFExit(p)
  PROVE  IInv'
<1>1. /\ proc \in [Procs -> Process] /\ proc[p] \in Process /\ sim \in Shared
      /\ Life(p) /\ Lock(p)
      /\ p = 0 => proc[p].end # "exit"
      /\ sim.dumped /\ proc[p].started => proc[p].status = "exited"
  BY Known
<1> DEFINE r == [proc[p] EXCEPT !.ff = "idle", !.inFF = FALSE]
<1>2. proc' = [proc EXCEPT ![p] = r] /\ Running /\ proc[p].ff = "exit" /\ proc[p].alive
  BY <1>1 DEF FFExit, FFAt
<1>3. /\ r \in Process /\ r.started = proc[p].started /\ ~r.inFF /\ r.ff = "idle"
      /\ r.status = proc[p].status /\ r.end = proc[p].end /\ r.pc = proc[p].pc
  BY <1>1 DEF Process
<1> HIDE DEF r
<1>4. proc[p].started /\ sim.ffLock = p
  BY <1>1, <1>2 DEF Life, Lock
<1>5. proc'[p] = r
  BY <1>1, <1>2
<1>6. /\ sim' \in Shared /\ PhaseStays /\ sim'.fail \in {"none", "ended"}
      /\ sim'.active = sim.active /\ sim'.mode = sim.mode /\ sim'.n = sim.n /\ sim'.grown = sim.grown
      /\ sim'.ffp = sim.ffp - One(proc[p].inFF)
      /\ sim'.sffp = sim.sffp - One(proc[p].inFF /\ Synced(sim, p))
  <2>1. CASE proc[p].inFF
    <3> DEFINE s == ExitFF(sim, p)
    <3>1. /\ s \in Shared /\ SameButFF(sim, s) /\ s.ffp = sim.ffp - 1
          /\ s.sffp = sim.sffp - One(Synced(sim, p))
      BY <1>1, ExitFFIs
    <3>2. sim' = [s EXCEPT !.ffLock = NoProc]
      BY <2>1 DEF FFExit
    <3> HIDE DEF s
    <3> QED
      BY <1>2, <2>1, <3>1, <3>2 DEF Shared, SameButFF, PhaseStays, One, Running
  <2>2. CASE ~proc[p].inFF
    <3>1. sim' = [sim EXCEPT !.fail = "ended"]
      BY <1>1, <1>2, <2>2 DEF FFExit, Fails, Lock
    <3> QED
      BY <1>1, <2>2, <3>1 DEF Shared, PhaseStays, One
  <2> QED
    BY <2>1, <2>2
<1>7. Becomes(p, r)
  BY <1>1, <1>2, <1>3, <1>4, <1>6 DEF Becomes, One, Counted, Alive, Shared
<1>8. Life(p)' /\ Lock(p)'
  BY <1>1, <1>3, <1>4, <1>5 DEF Life, Lock
<1> QED
  BY <1>1, <1>3, <1>4, <1>6, <1>7, <1>8, ProcessActs

LEMMA FFInsertKeeps ==
  ASSUME ConstantsFit, IInv, NEW p \in Procs, FFInsert(p)
  PROVE  IInv'
<1>1. /\ proc \in [Procs -> Process] /\ proc[p] \in Process /\ sim \in Shared
      /\ Life(p) /\ Lock(p)
      /\ p = 0 => proc[p].end # "exit"
  BY Known
<1> DEFINE r == [proc[p] EXCEPT !.ff = "wait"]
           e == [p |-> p, at |-> sim.phases]
<1>2. /\ proc' = [proc EXCEPT ![p] = r] /\ Running /\ proc[p].ff = "insert" /\ proc[p].alive
      /\ sim' = [sim EXCEPT !.evs = @ \cup {e}, !.ffLock = NoProc, !.late = @ \/ sim.eop = "bump"]
  BY <1>1 DEF FFInsert, FFAt
<1>3. /\ r \in Process /\ r.started = proc[p].started /\ r.inFF = proc[p].inFF /\ r.ff = "wait"
      /\ r.status = proc[p].status /\ r.end = proc[p].end /\ r.pc = proc[p].pc
  BY <1>1 DEF Process
<1> HIDE DEF r
<1>4. proc[p].started /\ sim.ffLock = p
  BY <1>1, <1>2 DEF Life, Lock
<1>5. proc'[p] = r /\ \A q \in Procs \ {p} : proc'[q] = proc[q]
  BY <1>1, <1>2
<1>6. e \in Event /\ e.at = sim.phases
  BY <1>1 DEF Event, Shared
<1> HIDE DEF e
<1>7. /\ sim' \in Shared /\ sim'.evs = sim.evs \cup {e} /\ (sim'.late <=> sim.late \/ sim.eop = "bump")
  BY <1>1, <1>2, <1>6 DEF Shared
<1>8. /\ sim'.phases = sim.phases /\ sim'.term = sim.term /\ sim'.eop = sim.eop /\ sim'.cb = sim.cb
      /\ sim'.seen = sim.seen /\ sim'.wd = sim.wd /\ sim'.dumped = sim.dumped /\ sim'.fail = sim.fail
      /\ sim'.active = sim.active /\ sim'.mode = sim.mode /\ sim'.n = sim.n /\ sim'.grown = sim.grown
      /\ sim'.ffp = sim.ffp /\ sim'.sffp = sim.sffp
  BY <1>1, <1>2 DEF Shared
<1>9. Becomes(p, r)
  BY <1>1, <1>2, <1>3, <1>8 DEF Becomes, One, Counted, Alive, Shared
<1>10. Life(p)' /\ Lock(p)'
  BY <1>1, <1>3, <1>4, <1>5 DEF Life, Lock
<1>11. Ends'
  BY <1>3, <1>5, <1>8 DEF IInv, Ends
<1>12. Events'
  <2>1. sim.phases >= sim.phases
    BY <1>1 DEF Shared
  <2> QED
    BY <1>6, <1>7, <1>8, <2>1 DEF IInv, Events
<1>13. Dumped'
  BY <1>3, <1>5, <1>8 DEF IInv, Dumped, DumpedLast, Started, ConstantsFit
<1>14. NoSurprises'
  BY <1>2, <1>8 DEF NoSurprises, Running
<1> QED
  BY <1>1, <1>3, <1>4, <1>7, <1>9, <1>10, <1>11, <1>12, <1>13, <1>14, ProcessSteps

LEMMA FFEnterKeeps ==
  ASSUME ConstantsFit, IInv, NEW p \in Procs, FFEnter(p)
  PROVE  IInv'
<1>1. /\ proc \in [Procs -> Process] /\ proc[p] \in Process /\ sim \in Shared
      /\ Life(p) /\ Lock(p)
      /\ p = 0 => proc[p].end # "exit"
  BY Known
<1> DEFINE r == [proc[p] EXCEPT !.ff = "idle", !.inFF = TRUE]
           s == IF proc[p].inFF THEN sim ELSE EnterFF(sim, p)
<1>2. /\ proc' = [proc EXCEPT ![p] = r] /\ Running /\ proc[p].ff = "wait" /\ sim.cb = p
      /\ sim' = [s EXCEPT !.cb = NoProc, !.eop = "tick"]
  BY <1>1 DEF FFEnter, FFAt
<1>3. /\ r \in Process /\ r.started = proc[p].started /\ r.inFF /\ r.ff = "idle"
      /\ r.status = proc[p].status /\ r.end = proc[p].end /\ r.pc = proc[p].pc
  BY <1>1 DEF Process
<1> HIDE DEF r
<1>4. proc[p].started /\ sim.eop = "call"
  <2>1. sim.cb # NoProc
    BY <1>2 DEF NoProc, ConstantsFit
  <2> QED
    BY <1>1, <1>2, <2>1 DEF Life, IInv, Ends
<1>5. proc'[p] = r /\ \A q \in Procs \ {p} : proc'[q] = proc[q]
  BY <1>1, <1>2
<1>6. /\ s \in Shared /\ SameButFF(sim, s) /\ s.ffp = sim.ffp + One(~proc[p].inFF)
      /\ s.sffp = sim.sffp + One(~proc[p].inFF /\ Synced(sim, p))
  <2>1. CASE proc[p].inFF
    BY <1>1, <2>1 DEF One, SameButFF, Shared
  <2>2. CASE ~proc[p].inFF
    BY <1>1, <2>2, EnterFFIs DEF One
  <2> QED
    BY <2>1, <2>2
<1> HIDE DEF s
<1>7. /\ sim' \in Shared /\ sim'.eop = "tick" /\ sim'.cb = NoProc /\ sim'.ffLock = sim.ffLock
      /\ sim'.evs = sim.evs /\ sim'.late = sim.late
      /\ sim'.phases = sim.phases /\ sim'.term = sim.term
      /\ sim'.seen = sim.seen /\ sim'.wd = sim.wd /\ sim'.dumped = sim.dumped /\ sim'.fail = sim.fail
      /\ sim'.active = sim.active /\ sim'.mode = sim.mode /\ sim'.n = sim.n /\ sim'.grown = sim.grown
      /\ sim'.ffp = s.ffp /\ sim'.sffp = s.sffp
  BY <1>2, <1>6 DEF Shared, SameButFF
<1>8. Becomes(p, r)
  <2>1. proc[p].inFF \in BOOLEAN
    BY <1>1 DEF Process
  <2> QED
    BY <1>1, <1>2, <1>3, <1>4, <1>6, <1>7, <2>1 DEF Becomes, One, Counted, Alive, Shared
<1>9. Life(p)' /\ Lock(p)'
  BY <1>1, <1>3, <1>4, <1>5 DEF Life, Lock
<1>10. Ends'
  BY <1>3, <1>4, <1>5, <1>7 DEF IInv, Ends
<1>11. Events'
  BY <1>7 DEF IInv, Events
<1>12. Dumped'
  BY <1>3, <1>5, <1>7 DEF IInv, Dumped, DumpedLast, Started, ConstantsFit
<1>13. NoSurprises'
  BY <1>2, <1>7 DEF NoSurprises, Running
<1> QED
  BY <1>1, <1>3, <1>7, <1>8, <1>9, <1>10, <1>11, <1>12, <1>13, ProcessSteps

-----------------------------------------------------------------------------
(* Processes that are made, and that exit.                                 *)

LEMMA ForkKeeps ==
  ASSUME ConstantsFit, IInv, NEW p \in Procs, NEW c \in Procs, Fork(p, c)
  PROVE  IInv'
<1>1. /\ proc \in [Procs -> Process] /\ proc[p] \in Process /\ proc[c] \in Process /\ sim \in Shared
      /\ Life(c) /\ Lock(c)
      /\ c = 0 => proc[c].end # "exit"
  BY Known
<1> DEFINE r == [proc[c] EXCEPT !.pc = "boot", !.inFF = proc[p].inFF, !.left = proc[p].left]
           mode == [sim.mode EXCEPT ![c] = sim.mode[p]]
<1>2. /\ proc' = [proc EXCEPT ![c] = r] /\ Running /\ proc[c].pc = "unborn"
      /\ sim' = [sim EXCEPT !.n = @ + 1, !.grown = TRUE, !.mode = mode]
  BY <1>1 DEF Fork, App
<1>3. /\ r \in Process /\ r.started = proc[c].started /\ r.ff = proc[c].ff /\ r.pc = "boot"
      /\ r.status = proc[c].status /\ r.end = proc[c].end /\ r.toggled = proc[c].toggled
  BY <1>1 DEF Process, Pcs
<1> HIDE DEF r
<1>4. ~proc[c].started
  BY <1>1, <1>2 DEF Life
<1>5. proc'[c] = r /\ \A q \in Procs \ {c} : proc'[q] = proc[q]
  BY <1>1, <1>2
<1>6. mode \in [Procs -> Modes] /\ \A q \in Procs \ {c} : mode[q] = sim.mode[q]
  BY <1>1 DEF Shared
<1> HIDE DEF mode
<1>7. /\ sim' \in Shared /\ sim'.mode = mode /\ sim'.grown
      /\ sim'.eop = sim.eop /\ sim'.cb = sim.cb /\ sim'.ffLock = sim.ffLock
      /\ sim'.evs = sim.evs /\ sim'.late = sim.late
      /\ sim'.phases = sim.phases /\ sim'.term = sim.term
      /\ sim'.seen = sim.seen /\ sim'.wd = sim.wd /\ sim'.dumped = sim.dumped /\ sim'.fail = sim.fail
      /\ sim'.active = sim.active /\ sim'.ffp = sim.ffp /\ sim'.sffp = sim.sffp
  <2>1. sim.n + 1 \in Nat
    BY <1>1 DEF Shared
  <2> DEFINE n == sim.n + 1
  <2>2. sim' = [sim EXCEPT !.n = n, !.grown = TRUE, !.mode = mode]
    BY <1>2
  <2> HIDE DEF n
  <2> QED
    BY <1>1, <1>6, <2>1, <2>2 DEF Shared, n
<1>8. Types'
  BY <1>1, <1>2, <1>3, <1>7 DEF Types
<1>9. Lives' /\ Locks'
  <2>1. \A q \in Procs \ {c} : Life(q)' /\ Lock(q)'
    BY <1>5, <1>7 DEF IInv, Lives, Locks, Life, Lock
  <2>2. Life(c)' /\ Lock(c)'
    BY <1>1, <1>3, <1>4, <1>5, <1>7 DEF Life, Lock
  <2>3. proc'[0].end # "exit"
    BY <1>3, <1>5 DEF IInv, Lives, ConstantsFit
  <2> QED
    BY <2>1, <2>2, <2>3 DEF Lives, Locks
<1>10. Ends' /\ Events'
  BY <1>3, <1>5, <1>7 DEF IInv, Ends, Events
<1>11. Counters'
  <2>1. InFF' = InFF /\ Live' = Live
    BY <1>3, <1>4, <1>5 DEF InFF, Live, Started
  <2>2. ASSUME ~Skewed'
        PROVE  sim.sffp = Cardinality({q \in InFF : Synced(sim, q)'})
    <3>1. \A q \in Procs : proc'[q].pc # "unborn" => mode[q] # "multi"
      BY <1>7, <2>2 DEF Skewed
    <3>2. ~Skewed
      BY <1>2, <1>5, <1>6, <3>1 DEF Skewed
    <3>3. \A q \in InFF : q # c /\ proc[q].pc # "unborn"
      BY <1>4 DEF IInv, Lives, Life, InFF, Started
    <3>4. \A q \in InFF : Synced(sim, q)' <=> Synced(sim, q)
      BY <1>5, <1>6, <1>7, <3>1, <3>3 DEF Synced, InFF, Started
    <3>5. {q \in InFF : Synced(sim, q)'} = {q \in InFF : Synced(sim, q)}
      BY <3>4
    <3> QED
      BY <3>2, <3>5 DEF IInv, Counters
  <2> QED
    BY <1>7, <2>1, <2>2 DEF IInv, Counters
<1>12. Dumped'
  BY <1>3, <1>5, <1>7 DEF IInv, Dumped, DumpedLast, Started, ConstantsFit
<1>13. NoSurprises'
  BY <1>2, <1>7 DEF NoSurprises, Running
<1> QED
  BY <1>8, <1>9, <1>10, <1>11, <1>12, <1>13 DEF IInv

LEMMA ExitKeeps ==
  ASSUME ConstantsFit, IInv, NEW p \in Procs, Exit(p)
  PROVE  IInv'
<1>1. /\ proc \in [Procs -> Process] /\ proc[p] \in Process /\ sim \in Shared
      /\ Life(p) /\ Lock(p)
      /\ p = 0 => proc[p].end # "exit"
      /\ sim.dumped /\ proc[p].started => proc[p].status = "exited"
  BY Known
<1> DEFINE r == [proc[p] EXCEPT !.alive = FALSE]
<1>2. /\ proc' = [proc EXCEPT ![p] = r] /\ Running /\ proc[p].end # "no"
      /\ sim' = [sim EXCEPT !.dumped = @ \/ p = 0,
                            !.ffLock = WithoutProc(@, p), !.cb = WithoutProc(@, p),
                            !.evs = {[e EXCEPT !.p = WithoutProc(@, p)] : e \in @}]
  BY <1>1 DEF Exit
<1>3. /\ r \in Process /\ r.started = proc[p].started /\ r.inFF = proc[p].inFF /\ r.ff = proc[p].ff
      /\ r.status = proc[p].status /\ r.end = proc[p].end /\ r.pc = proc[p].pc /\ ~r.alive
  BY <1>1 DEF Process
<1> HIDE DEF r
<1>4. proc[p].started
  BY <1>1, <1>2 DEF Life
<1>5. proc'[p] = r /\ \A q \in Procs \ {p} : proc'[q] = proc[q]
  BY <1>1, <1>2
<1> DEFINE D == {[e EXCEPT !.p = WithoutProc(@, p)] : e \in sim.evs}
<1>12. D \in SUBSET Event /\ \A d \in D : \E e \in sim.evs : d.at = e.at
  <2>1. \A e \in Event : /\ [e EXCEPT !.p = WithoutProc(@, p)] \in Event
                         /\ [e EXCEPT !.p = WithoutProc(@, p)].at = e.at
    BY DEF Event, WithoutProc
  <2>2. sim.evs \in SUBSET Event
    BY <1>1 DEF Shared
  <2> QED
    BY <2>1, <2>2
<1> HIDE DEF D
<1>13. /\ WithoutProc(sim.ffLock, p) \in Procs \cup {NoProc, Gone}
       /\ WithoutProc(sim.cb, p) \in Procs \cup {NoProc, Gone}
       /\ WithoutProc(sim.cb, p) # NoProc => sim.cb # NoProc
       /\ \A q \in Procs \ {p} : sim.ffLock = q => WithoutProc(sim.ffLock, p) = q
  BY <1>1 DEF Shared, WithoutProc, Gone, NoProc, ConstantsFit
<1>14. PICK dumped \in BOOLEAN : dumped = (sim.dumped \/ p = 0)
  OBVIOUS
<1>6. /\ sim' \in Shared /\ (sim'.dumped <=> p = 0 \/ sim.dumped)
      /\ sim'.eop = sim.eop /\ (sim'.cb # NoProc => sim.cb # NoProc)
      /\ \A q \in Procs \ {p} : sim.ffLock = q => sim'.ffLock = q
      /\ sim'.evs = D /\ sim'.late = sim.late
      /\ sim'.phases = sim.phases /\ sim'.term = sim.term
      /\ sim'.seen = sim.seen /\ sim'.wd = sim.wd /\ sim'.fail = sim.fail
      /\ sim'.active = sim.active /\ sim'.mode = sim.mode /\ sim'.n = sim.n /\ sim'.grown = sim.grown
      /\ sim'.ffp = sim.ffp /\ sim'.sffp = sim.sffp
  <2>1. sim' = [sim EXCEPT !.dumped = dumped, !.ffLock = WithoutProc(sim.ffLock, p),
                          !.cb = WithoutProc(sim.cb, p), !.evs = D]
    BY <1>2, <1>14 DEF D
  <2> QED
    BY <1>1, <1>12, <1>13, <1>14, <2>1 DEF Shared
<1>7. Becomes(p, r)
  <2>1. /\ sim.ffp \in Int /\ sim.sffp \in Int /\ sim.active \in Int
        /\ (r.pc = "unborn") <=> (proc[p].pc = "unborn")
    BY <1>1, <1>3 DEF Shared
  <2>2. /\ One(r.started /\ r.inFF) = One(Counted(p))
        /\ One(r.started /\ r.inFF /\ Synced(sim, p)) = One(Counted(p) /\ Synced(sim, p))
        /\ One(r.started /\ r.status # "exited") = One(Alive(p))
    BY <1>3 DEF Counted, Alive, One
  <2>3. One(Counted(p)) \in Int /\ One(Counted(p) /\ Synced(sim, p)) \in Int /\ One(Alive(p)) \in Int
    BY DEF One
  <2> QED
    BY <1>2, <1>6, <2>1, <2>2, <2>3 DEF Becomes
<1>8. Life(p)' /\ Lock(p)'
  BY <1>1, <1>3, <1>4, <1>5, <1>6 DEF Life, Lock
<1>9. Ends' /\ Events'
  <2>1. Ends'
    BY <1>3, <1>5, <1>6 DEF IInv, Ends
  <2>2. Events'
    BY <1>6, <1>12 DEF IInv, Events
  <2> QED
    BY <2>1, <2>2
<1>10. Dumped'
  <2>1. p = 0 => \A q \in Started : proc[q].status = "exited"
    <3> SUFFICES ASSUME p = 0 PROVE \A q \in Started : proc[q].status = "exited"
      OBVIOUS
    <3>1. sim.active = 0
      BY <1>1 DEF Exit
    <3>2. IsFiniteSet(Live)
      BY FS_Subset DEF Live, Started, ConstantsFit
    <3>3. Live = {}
      BY <3>1, <3>2, FS_EmptySet DEF IInv, Counters
    <3> QED
      BY <3>3 DEF Live
  <2>2. \A q \in Procs : proc'[q].started = proc[q].started /\ proc'[q].status = proc[q].status
    BY <1>3, <1>5
  <2> QED
    BY <1>4, <1>6, <2>1, <2>2 DEF IInv, Dumped, DumpedLast, Started, ConstantsFit
<1>11. NoSurprises'
  BY <1>2, <1>6 DEF NoSurprises, Running
<1> QED
  BY <1>1, <1>3, <1>6, <1>7, <1>8, <1>9, <1>10, <1>11, ProcessSteps

-----------------------------------------------------------------------------
(* The barrier, and the end of a phase.                                    *)

(* A thread passes the barrier or leaves it, and may end the phase.        *)
LEMMA PassesOrLeaves ==
  ASSUME ConstantsFit, IInv, Running, SchedLockFree, NEW p \in Procs, proc[p].pc \in {"run", "back"},
         NEW pc \in {"wait", "ff", "ending", "out", "asleep"}, pc = "wait" => ~sim.term,
         NEW w \in Nat, proc' = [proc EXCEPT ![p].pc = pc, ![p].wake = w],
         sim' = TryWakeNext(proc', sim, p)
  PROVE  IInv'
<1>1. /\ proc \in [Procs -> Process] /\ proc[p] \in Process /\ sim \in Shared
      /\ Life(p) /\ Lock(p)
      /\ p = 0 => proc[p].end # "exit"
  BY Known
<1> DEFINE r == [proc[p] EXCEPT !.pc = pc, !.wake = w]
<1>2. proc' = [proc EXCEPT ![p] = r]
  BY <1>1
<1>3. /\ r \in Process /\ r.started = proc[p].started /\ r.inFF = proc[p].inFF /\ r.ff = proc[p].ff
      /\ r.status = proc[p].status /\ r.end = proc[p].end /\ r.pc = pc /\ r.alive = proc[p].alive
  BY <1>1 DEF Process, Pcs
<1> HIDE DEF r
<1>4. proc[p].started
  BY <1>1 DEF Life
<1>5. proc'[p] = r /\ \A q \in Procs \ {p} : proc'[q] = proc[q]
  BY <1>1, <1>2
<1> DEFINE paused == [sim EXCEPT !.eop = "pause", !.by = p]
<1>6. \/ sim' = sim
      \/ /\ sim' = paused
         /\ InBarrier(proc') # {} /\ \A q \in InBarrier(proc') : proc'[q].pc = "wait"
  BY DEF TryWakeNext
<1>7. /\ sim' \in Shared /\ sim'.eop \in {"none", "pause"}
      /\ sim'.cb = sim.cb /\ sim'.ffLock = sim.ffLock /\ sim'.evs = sim.evs /\ sim'.late = sim.late
      /\ sim'.phases = sim.phases /\ sim'.term = sim.term /\ sim'.dumped = sim.dumped
      /\ sim'.seen = sim.seen /\ sim'.wd = sim.wd /\ sim'.fail = sim.fail
      /\ sim'.active = sim.active /\ sim'.mode = sim.mode /\ sim'.n = sim.n /\ sim'.grown = sim.grown
      /\ sim'.ffp = sim.ffp /\ sim'.sffp = sim.sffp
  <2>1. CASE sim' = sim
    BY <1>1, <2>1 DEF SchedLockFree
  <2>2. CASE sim' = paused
    BY <1>1, <2>2 DEF Shared
  <2> QED
    BY <1>6, <2>1, <2>2
<1>8. Becomes(p, r)
  <2>1. /\ sim.ffp \in Int /\ sim.sffp \in Int /\ sim.active \in Int /\ proc[p].pc # "unborn"
        /\ r.pc # "unborn"
    BY <1>1, <1>3 DEF Shared
  <2>2. /\ One(r.started /\ r.inFF) = One(Counted(p))
        /\ One(r.started /\ r.inFF /\ Synced(sim, p)) = One(Counted(p) /\ Synced(sim, p))
        /\ One(r.started /\ r.status # "exited") = One(Alive(p))
    BY <1>3 DEF Counted, Alive, One
  <2>3. One(Counted(p)) \in Int /\ One(Counted(p) /\ Synced(sim, p)) \in Int /\ One(Alive(p)) \in Int
    BY DEF One
  <2>4. (r.pc = "unborn") <=> (proc[p].pc = "unborn")
    BY <2>1
  <2>5. sim'.ffp = sim.ffp + One(r.started /\ r.inFF) - One(Counted(p))
    BY <1>7, <2>1, <2>2, <2>3
  <2>6. sim'.sffp = sim.sffp + One(r.started /\ r.inFF /\ Synced(sim, p))
                             - One(Counted(p) /\ Synced(sim, p))
    BY <1>7, <2>1, <2>2, <2>3
  <2>7. sim'.active = sim.active + One(r.started /\ r.status # "exited") - One(Alive(p))
    BY <1>7, <2>1, <2>2, <2>3
  <2>8. sim'.mode = sim.mode /\ sim'.n = sim.n /\ sim'.grown = sim.grown
    BY <1>7
  <2> QED
    BY <1>2, <2>4, <2>5, <2>6, <2>7, <2>8, Zenon DEF Becomes
<1>9. Life(p)' /\ Lock(p)'
  BY <1>1, <1>3, <1>4, <1>5, <1>7 DEF Life, Lock
<1>10. Ends'
  <2>1. CASE sim'.eop = "pause"
    <3>1. InBarrier(proc') # {} /\ \A q \in InBarrier(proc') : proc'[q].pc = "wait"
      BY <1>6, <2>1 DEF SchedLockFree
    <3>2. \A q \in Procs : proc'[q].pc \notin {"run", "back"}
      BY <3>1 DEF InBarrier
    <3>3. PICK q \in Procs : proc'[q].pc = "wait"
      BY <3>1 DEF InBarrier
    <3>4. ~sim.term
      BY <1>3, <1>5, <3>3 DEF IInv, Ends, SchedLockFree
    <3> QED
      BY <1>7, <2>1, <3>2, <3>4 DEF IInv, Ends, SchedLockFree
  <2>2. CASE sim'.eop = "none"
    <3>1. sim.term => \A q \in Procs : proc[q].pc \notin {"run", "wait"}
      BY DEF IInv, Ends, SchedLockFree
    <3>2. sim.term => \A q \in Procs : proc'[q].pc \notin {"run", "wait"}
      BY <1>3, <1>5, <3>1
    <3> QED
      BY <1>7, <2>2, <3>2 DEF IInv, Ends, SchedLockFree
  <2> QED
    BY <1>7, <2>1, <2>2
<1>11. Events'
  BY <1>7 DEF IInv, Events
<1>12. Dumped'
  <2>1. \A q \in Procs : proc'[q].started = proc[q].started /\ proc'[q].status = proc[q].status
    BY <1>3, <1>5
  <2> QED
    BY <1>7, <2>1 DEF IInv, Dumped, DumpedLast, Started, ConstantsFit
<1>13. NoSurprises'
  BY <1>7 DEF NoSurprises, Running
<1> QED
  BY <1>1, <1>3, <1>7, <1>8, <1>9, <1>10, <1>11, <1>12, <1>13, ProcessSteps

LEMMA LeaveToKeeps ==
  ASSUME ConstantsFit, IInv, Running, SchedLockFree, NEW p \in Procs, proc[p].pc \in {"run", "back"},
         NEW pc \in {"wait", "ff", "ending", "out"}, pc = "wait" => ~sim.term, LeaveTo(p, pc)
  PROVE  IInv'
<1>1. proc \in [Procs -> Process] /\ proc[p] \in Process
  BY Known
<1> DEFINE w == proc[p].wake
<1>2. w \in Nat
  BY <1>1 DEF Process
<1>3. /\ proc' = [proc EXCEPT ![p].pc = pc] /\ sim' = TryWakeNext(proc', sim, p)
  BY DEF LeaveTo
<1>4. proc' = [proc EXCEPT ![p].pc = pc, ![p].wake = w]
  <2>1. [proc[p] EXCEPT !.pc = pc] = [proc[p] EXCEPT !.pc = pc, !.wake = w]
    BY <1>1 DEF Process
  <2> QED
    BY <1>1, <1>3, <2>1
<1> HIDE DEF w
<1> QED
  BY <1>2, <1>3, <1>4, PassesOrLeaves

LEMMA SyncKeeps ==
  ASSUME ConstantsFit, IInv, NEW p \in Procs, Sync(p)
  PROVE  IInv'
<1>1. Running /\ SchedLockFree /\ proc[p].pc = "run" /\ LeaveTo(p, "wait")
  BY DEF Sync, At, App
<1>2. ~sim.term
  BY <1>1 DEF IInv, Ends, SchedLockFree
<1> QED
  BY <1>1, <1>2, LeaveToKeeps

LEMMA BackKeeps ==
  ASSUME ConstantsFit, IInv, NEW p \in Procs, Back(p)
  PROVE  IInv'
<1>1. App(p) /\ Running /\ proc[p].pc = "back"
  BY DEF Back, At, App
<1>2. sim.eop = "none"
  BY <1>1 DEF IInv, Ends
<1>3. CASE proc[p].inFF
  BY <1>1, <1>3, LeaveToKeeps DEF Back
<1>4. CASE ~proc[p].inFF /\ sim.term
  BY <1>1, <1>4, LeaveToKeeps DEF Back
<1>5. CASE ~proc[p].inFF /\ ~sim.term
  <2>1. Goto(p, "run") /\ sim' = sim
    BY <1>5 DEF Back
  <2> QED
    BY <1>1, <1>2, <1>5, <2>1, Walks DEF Pcs
<1> QED
  BY <1>3, <1>4, <1>5

LEMMA SyscallKeeps ==
  ASSUME ConstantsFit, IInv, NEW p \in Procs, Syscall(p)
  PROVE  IInv'
<1>1. CASE At(p, "run") /\ SchedLockFree /\ LeaveTo(p, "out")
  BY <1>1, LeaveToKeeps DEF At, App
<1>2. CASE At(p, "ff") /\ Goto(p, "ffout") /\ UNCHANGED sim
  BY <1>2, Walks DEF At, Pcs
<1> QED
  BY <1>1, <1>2 DEF Syscall

LEMMA SleepKeeps ==
  ASSUME ConstantsFit, IInv, NEW p \in Procs, NEW k \in 1 .. MaxSleep, Sleep(p, k)
  PROVE  IInv'
<1> DEFINE w == sim.phases + k
<1>1. w \in Nat
  BY DEF IInv, Types, Shared, ConstantsFit
<1>2. /\ Running /\ SchedLockFree /\ proc[p].pc = "run"
      /\ proc' = [proc EXCEPT ![p].pc = "asleep", ![p].wake = w] /\ sim' = TryWakeNext(proc', sim, p)
  BY DEF Sleep, At, App
<1> HIDE DEF w
<1> QED
  BY <1>1, <1>2, PassesOrLeaves

(* Steps of the phase alone.                                               *)
LEMMA PhaseSteps ==
  ASSUME IInv, proc' = proc, sim' \in Shared,
         sim'.mode = sim.mode, sim'.n = sim.n, sim'.grown = sim.grown,
         sim'.ffp = sim.ffp, sim'.sffp = sim.sffp, sim'.active = sim.active,
         sim'.ffLock = sim.ffLock, sim'.dumped = sim.dumped, sim'.fail = "none",
         Ends', Events'
  PROVE  IInv'
<1>1. Types' /\ Lives' /\ Locks'
  BY DEF IInv, Types, Lives, Life, Locks, Lock
<1>2. Counters'
  BY CountersStay DEF IInv, Born, Counted, Alive
<1>3. Dumped' /\ NoSurprises'
  BY DEF IInv, Dumped, DumpedLast, Started, NoSurprises
<1> QED
  BY <1>1, <1>2, <1>3 DEF IInv

(* Termination was not decided when a phase ends.                          *)
LEMMA UnpauseKeeps ==
  ASSUME ConstantsFit, IInv, Unpause
  PROVE  IInv'
<1>1. sim \in Shared /\ sim.eop = "pause" /\ sim.fail = "none" /\ proc' = proc
  BY DEF IInv, Types, Unpause, EopAt, Running
<1>2. ~sim.term
  BY <1>1 DEF IInv, Ends
<1> DEFINE term == sim.phases >= MaxPhases
<1>3. sim' = [sim EXCEPT !.term = term, !.eop = "tick"]
  BY <1>2 DEF Unpause
<1>4. term \in BOOLEAN
  OBVIOUS
<1> HIDE DEF term
<1>5. /\ sim' \in Shared /\ sim'.eop = "tick" /\ sim'.term = term
      /\ sim'.mode = sim.mode /\ sim'.n = sim.n /\ sim'.grown = sim.grown
      /\ sim'.ffp = sim.ffp /\ sim'.sffp = sim.sffp /\ sim'.active = sim.active
      /\ sim'.ffLock = sim.ffLock /\ sim'.dumped = sim.dumped /\ sim'.fail = "none"
      /\ sim'.cb = sim.cb /\ sim'.evs = sim.evs /\ sim'.late = sim.late
      /\ sim'.phases = sim.phases /\ sim'.seen = sim.seen /\ sim'.wd = sim.wd
  BY <1>1, <1>3, <1>4 DEF Shared
<1>6. Ends'
  BY <1>1, <1>5 DEF IInv, Ends
<1>7. Events'
  BY <1>5 DEF IInv, Events
<1> QED
  BY <1>1, <1>5, <1>6, <1>7, PhaseSteps

(* An event whose phase is over was inserted too late.                     *)
LEMMA TickKeeps ==
  ASSUME ConstantsFit, IInv, Tick
  PROVE  IInv'
<1>1. sim \in Shared /\ sim.eop = "tick" /\ sim.fail = "none" /\ proc' = proc /\ sim.cb = NoProc
  BY DEF IInv, Types, Tick, EopAt, Running, Ends
<1>2. ASSUME NEW e \in Due(sim), e.at # sim.phases, sim' = Fails(sim, "tick")
      PROVE  IInv'
  <2>1. e \in sim.evs /\ e.at <= sim.phases /\ e.at \in Nat /\ sim.phases \in Nat
    BY <1>1 DEF Due, Shared, Event
  <2>2. sim.late
    BY <1>2, <2>1 DEF IInv, Events
  <2> QED
    BY <1>1, <1>2, <2>2, FailsKeeps
<1>3. ASSUME NEW e \in Due(sim), sim' = [sim EXCEPT !.evs = @ \ {e}, !.cb = e.p, !.eop = "call"]
      PROVE  IInv'
  <2>1. e \in Event /\ e.p \in Procs \cup {Gone}
    BY <1>1 DEF Due, Shared, Event
  <2>2. /\ sim' \in Shared /\ sim'.eop = "call" /\ sim'.evs = sim.evs \ {e}
        /\ sim'.mode = sim.mode /\ sim'.n = sim.n /\ sim'.grown = sim.grown
        /\ sim'.ffp = sim.ffp /\ sim'.sffp = sim.sffp /\ sim'.active = sim.active
        /\ sim'.ffLock = sim.ffLock /\ sim'.dumped = sim.dumped /\ sim'.fail = "none"
        /\ sim'.late = sim.late /\ sim'.term = sim.term
        /\ sim'.phases = sim.phases /\ sim'.seen = sim.seen /\ sim'.wd = sim.wd
    BY <1>1, <1>3, <2>1 DEF Shared
  <2>3. Ends'
    BY <1>1, <2>2 DEF IInv, Ends
  <2>4. Events'
    BY <1>1, <2>2 DEF IInv, Events
  <2> QED
    BY <1>1, <2>2, <2>3, <2>4, PhaseSteps
<1>4. ASSUME Due(sim) = {}, sim' = [sim EXCEPT !.eop = "bump"]
      PROVE  IInv'
  <2>1. /\ sim' \in Shared /\ sim'.eop = "bump" /\ sim'.evs = sim.evs /\ sim'.cb = sim.cb
        /\ sim'.mode = sim.mode /\ sim'.n = sim.n /\ sim'.grown = sim.grown
        /\ sim'.ffp = sim.ffp /\ sim'.sffp = sim.sffp /\ sim'.active = sim.active
        /\ sim'.ffLock = sim.ffLock /\ sim'.dumped = sim.dumped /\ sim'.fail = "none"
        /\ sim'.late = sim.late /\ sim'.term = sim.term
        /\ sim'.phases = sim.phases /\ sim'.seen = sim.seen /\ sim'.wd = sim.wd
    BY <1>1, <1>4 DEF Shared
  <2>2. Ends'
    BY <1>1, <2>1 DEF IInv, Ends
  <2>3. \A e \in sim.evs : e.at > sim.phases /\ e.at >= sim.phases
    <3> SUFFICES ASSUME NEW e \in sim.evs PROVE e.at > sim.phases /\ e.at >= sim.phases
      OBVIOUS
    <3>1. e.at \in Nat /\ sim.phases \in Nat
      BY <1>1 DEF Shared, Event
    <3>2. ~(e.at <= sim.phases)
      BY <1>4 DEF Due
    <3> QED
      BY <3>1, <3>2
  <2>4. Events'
    BY <2>1, <2>3 DEF Events
  <2> QED
    BY <1>1, <2>1, <2>2, <2>4, PhaseSteps
<1> QED
  BY <1>2, <1>3, <1>4 DEF Tick

(* The phase goes by, and the barrier lets those in it go on.              *)
LEMMA BumpKeeps ==
  ASSUME ConstantsFit, IInv, Bump
  PROVE  IInv'
<1>1. /\ sim \in Shared /\ proc \in [Procs -> Process] /\ sim.eop = "bump" /\ sim.fail = "none"
      /\ sim.cb = NoProc
  BY DEF IInv, Types, Bump, EopAt, Running, Ends
<1> DEFINE phases == sim.phases + 1
<1>2. sim.phases \in Nat /\ phases \in Nat /\ phases > sim.phases
  BY <1>1 DEF Shared
<1>3. sim' = [sim EXCEPT !.phases = phases, !.eop = "none", !.by = NoProc]
  BY DEF Bump
<1> HIDE DEF phases
<1>4. /\ sim' \in Shared /\ sim'.eop = "none" /\ sim'.phases = phases
      /\ sim'.mode = sim.mode /\ sim'.n = sim.n /\ sim'.grown = sim.grown
      /\ sim'.ffp = sim.ffp /\ sim'.sffp = sim.sffp /\ sim'.active = sim.active
      /\ sim'.ffLock = sim.ffLock /\ sim'.dumped = sim.dumped /\ sim'.fail = sim.fail
      /\ sim'.cb = sim.cb /\ sim'.evs = sim.evs /\ sim'.late = sim.late
      /\ sim'.term = sim.term /\ sim'.seen = sim.seen /\ sim'.wd = sim.wd
  BY <1>1, <1>2, <1>3 DEF Shared
<1>5. /\ proc' \in [Procs -> Process]
      /\ \A q \in Procs :
           /\ \/ proc'[q].pc = proc[q].pc /\ proc[q].pc # "wait"
              \/ proc[q].pc = "wait" /\ proc'[q].pc = "back"
              \/ proc[q].pc = "asleep" /\ proc'[q].pc = "out"
           /\ proc'[q].started = proc[q].started /\ proc'[q].inFF = proc[q].inFF
           /\ proc'[q].status = proc[q].status /\ proc'[q].end = proc[q].end
           /\ proc'[q].ff = proc[q].ff /\ proc'[q].toggled = proc[q].toggled /\ proc'[q].alive = proc[q].alive
  <2> DEFINE new(q) ==
        CASE proc[q].pc = "wait" -> [proc[q] EXCEPT !.pc = "back"]
          [] proc[q].pc = "asleep" /\ proc[q].wake <= sim.phases + 1
               -> [proc[q] EXCEPT !.pc = "out", !.wake = 0]
          [] OTHER -> proc[q]
  <2>1. proc' = [q \in Procs |-> new(q)]
    BY DEF Bump
  <2>2. ASSUME NEW q \in Procs
        PROVE  /\ new(q) \in Process
               /\ \/ new(q).pc = proc[q].pc /\ proc[q].pc # "wait"
                  \/ proc[q].pc = "wait" /\ new(q).pc = "back"
                  \/ proc[q].pc = "asleep" /\ new(q).pc = "out"
               /\ new(q).started = proc[q].started /\ new(q).inFF = proc[q].inFF
               /\ new(q).status = proc[q].status /\ new(q).end = proc[q].end
               /\ new(q).ff = proc[q].ff /\ new(q).toggled = proc[q].toggled /\ new(q).alive = proc[q].alive
    <3>1. proc[q] \in Process
      BY <1>1
    <3>2. CASE proc[q].pc = "wait"
      <4>1. new(q) = [proc[q] EXCEPT !.pc = "back"]
        BY <3>2
      <4> QED
        BY <3>1, <3>2, <4>1 DEF Process, Pcs
    <3>3. CASE proc[q].pc = "asleep" /\ proc[q].wake <= sim.phases + 1
      <4>1. new(q) = [proc[q] EXCEPT !.pc = "out", !.wake = 0]
        BY <3>3
      <4> QED
        BY <3>1, <3>3, <4>1 DEF Process, Pcs
    <3>4. CASE proc[q].pc # "wait" /\ ~(proc[q].pc = "asleep" /\ proc[q].wake <= sim.phases + 1)
      <4>1. new(q) = proc[q]
        BY <3>4
      <4> QED
        BY <3>1, <3>4, <4>1
    <3> QED
      BY <3>2, <3>3, <3>4
  <2> HIDE DEF new
  <2> QED
    BY <2>1, <2>2
<1>6. Types'
  BY <1>4, <1>5 DEF Types
<1>7. Lives' /\ Locks'
  BY <1>4, <1>5 DEF IInv, Lives, Life, Locks, Lock, ConstantsFit
<1>8. Ends'
  <2>1. \A q \in Procs : proc'[q].pc \notin {"run", "wait"}
    BY <1>1, <1>5 DEF IInv, Ends
  <2>2. sim.seen \in Nat /\ sim.seen <= sim.phases
    BY <1>1 DEF IInv, Ends, Shared
  <2>3. sim.seen < phases /\ sim.seen <= phases
    BY <1>2, <2>2
  <2> QED
    BY <1>1, <1>4, <2>1, <2>3 DEF Ends
<1>9. Events'
  <2> SUFFICES ASSUME ~sim.late, NEW e \in sim.evs PROVE e.at >= phases
    BY <1>4 DEF Events
  <2>1. e.at \in Nat /\ e.at > sim.phases
    BY <1>1 DEF IInv, Events, Shared, Event
  <2> QED
    BY <1>2, <2>1 DEF phases
<1>10. Counters'
  BY <1>4, <1>5, CountersStay DEF IInv, Born, Counted, Alive
<1>11. Dumped'
  BY <1>4, <1>5 DEF IInv, Dumped, DumpedLast, Started, ConstantsFit
<1>12. NoSurprises'
  BY <1>1, <1>4 DEF NoSurprises
<1> QED
  BY <1>6, <1>7, <1>8, <1>9, <1>10, <1>11, <1>12 DEF IInv

-----------------------------------------------------------------------------
(* The watchdog.                                                           *)

LEMMA WdLookKeeps ==
  ASSUME ConstantsFit, IInv, WdLook
  PROVE  IInv'
<1>1. sim \in Shared /\ sim.fail = "none" /\ Running /\ proc[0].started /\ 0 \in Procs
  BY DEF IInv, Types, WdLook, Running, ConstantsFit
<1>2. CASE sim.term
  BY <1>1, <1>2, HereSimEndKeeps DEF WdLook
<1>3. CASE ~sim.term
  <2>1. sim' = [sim EXCEPT !.wd = "act"] /\ proc' = proc
    BY <1>3 DEF WdLook
  <2>2. /\ sim' \in Shared /\ sim'.eop = sim.eop /\ sim'.cb = sim.cb
        /\ sim'.mode = sim.mode /\ sim'.n = sim.n /\ sim'.grown = sim.grown
        /\ sim'.ffp = sim.ffp /\ sim'.sffp = sim.sffp /\ sim'.active = sim.active
        /\ sim'.ffLock = sim.ffLock /\ sim'.dumped = sim.dumped /\ sim'.fail = "none"
        /\ sim'.evs = sim.evs /\ sim'.late = sim.late /\ sim'.term = sim.term
        /\ sim'.phases = sim.phases /\ sim'.seen = sim.seen
    BY <1>1, <2>1 DEF Shared
  <2>3. Ends' /\ Events'
    BY <1>3, <2>1, <2>2 DEF IInv, Ends, Events
  <2> QED
    BY <2>1, <2>2, <2>3, PhaseSteps
<1> QED
  BY <1>2, <1>3

(* It ends no phase once termination is decided: a phase has gone by since *)
(* it last looked.                                                         *)
LEMMA WdActKeeps ==
  ASSUME ConstantsFit, IInv, WdAct
  PROVE  IInv'
<1>1. /\ sim \in Shared /\ sim.fail = "none" /\ sim.wd = "act" /\ sim.eop = "none" /\ proc' = proc
      /\ sim.phases \in Nat /\ sim.cb = NoProc
  BY DEF IInv, Types, WdAct, Running, SchedLockFree, Shared, Ends
<1> DEFINE moves == sim.seen = sim.phases /\ InBarrier(proc) = {}
                     /\ \E p \in Procs : proc[p].pc = "asleep"
           paused == [sim EXCEPT !.eop = "pause", !.by = Watchdog]
           s == IF moves THEN paused ELSE sim
<1>2. sim' = [s EXCEPT !.wd = "sleep", !.seen = sim.phases]
  BY DEF WdAct
<1>3. /\ s \in Shared /\ s.cb = sim.cb
      /\ s.mode = sim.mode /\ s.n = sim.n /\ s.grown = sim.grown
      /\ s.ffp = sim.ffp /\ s.sffp = sim.sffp /\ s.active = sim.active
      /\ s.ffLock = sim.ffLock /\ s.dumped = sim.dumped /\ s.fail = "none"
      /\ s.evs = sim.evs /\ s.late = sim.late /\ s.term = sim.term /\ s.phases = sim.phases
      /\ s.eop = "none" \/ (s.eop = "pause" /\ sim.seen = sim.phases /\ InBarrier(proc) = {})
  <2>1. CASE moves
    <3>1. s = paused
      BY <2>1
    <3> HIDE DEF s
    <3> QED
      BY <1>1, <2>1, <3>1 DEF Shared
  <2>2. CASE ~moves
    BY <1>1, <2>2
  <2> QED
    BY <2>1, <2>2
<1> HIDE DEF s
<1>4. /\ sim' \in Shared /\ sim'.eop = s.eop /\ sim'.cb = sim.cb
      /\ sim'.mode = sim.mode /\ sim'.n = sim.n /\ sim'.grown = sim.grown
      /\ sim'.ffp = sim.ffp /\ sim'.sffp = sim.sffp /\ sim'.active = sim.active
      /\ sim'.ffLock = sim.ffLock /\ sim'.dumped = sim.dumped /\ sim'.fail = "none"
      /\ sim'.evs = sim.evs /\ sim'.late = sim.late /\ sim'.term = sim.term
      /\ sim'.phases = sim.phases /\ sim'.seen = sim.phases /\ sim'.wd = "sleep"
  BY <1>1, <1>2, <1>3 DEF Shared
<1>5. Ends'
  <2>1. CASE s.eop = "none"
    BY <1>1, <1>4, <2>1 DEF IInv, Ends
  <2>2. CASE s.eop = "pause" /\ sim.seen = sim.phases /\ InBarrier(proc) = {}
    <3>1. \A p \in Procs : proc[p].pc \notin {"run", "back"}
      BY <2>2 DEF InBarrier
    <3>2. ~sim.term
      BY <1>1, <2>2 DEF IInv, Ends
    <3> QED
      BY <1>1, <1>4, <2>2, <3>1, <3>2 DEF Ends
  <2> QED
    BY <1>3, <2>1, <2>2
<1>6. Events'
  BY <1>3, <1>4 DEF IInv, Events
<1> QED
  BY <1>1, <1>4, <1>5, <1>6, PhaseSteps

-----------------------------------------------------------------------------
LEMMA InitOK ==
  ASSUME ConstantsFit, Init
  PROVE  IInv
<1>1. PICK c \in Configs :
        /\ proc = [p \in Procs |-> Booting(c, p)]
        /\ sim = [mode |-> c.mode, n |-> c.n, grown |-> FALSE, phases |-> 0, term |-> FALSE,
                  active |-> 0, ffp |-> 0, sffp |-> 0, toggles |-> 0,
                  eop |-> "none", by |-> NoProc, cb |-> NoProc, evs |-> {},
                  ffLock |-> NoProc, late |-> FALSE, wd |-> "sleep", seen |-> 0,
                  dumped |-> FALSE, fail |-> "none"]
  BY DEF Init
<1>2. /\ c.mode \in [Procs -> Modes] /\ c.ff \in [Procs -> BOOLEAN] /\ c.left \in [Procs -> Nat]
      /\ c.n \in Nat
  BY DEF ConstantsFit
<1>3. sim \in Shared
  BY <1>1, <1>2 DEF Shared
<1>4. ASSUME NEW p \in Procs
      PROVE  /\ proc[p] \in Process /\ ~proc[p].started /\ proc[p].pc \in {"boot", "unborn"}
             /\ proc[p].ff = "idle" /\ proc[p].end = "no" /\ proc[p].status = "running"
             /\ ~proc[p].toggled
  <2>1. c.ff[p] \in BOOLEAN /\ c.left[p] \in Nat
    BY <1>2
  <2>2. proc[p] = Booting(c, p)
    BY <1>1
  <2> QED
    BY <2>1, <2>2 DEF Booting, Process, Pcs
<1>5. proc \in [Procs -> Process]
  BY <1>1, <1>4
<1>6. Lives /\ Locks
  BY <1>4 DEF Lives, Life, Locks, Lock, ConstantsFit
<1>7. Ends /\ Events
  BY <1>1, <1>4 DEF Ends, Events
<1>8. Counters
  <2>1. InFF = {} /\ Live = {} /\ {p \in InFF : Synced(sim, p)} = {}
    BY <1>4 DEF InFF, Live, Started
  <2> QED
    BY <1>1, <2>1, FS_EmptySet DEF Counters
<1>9. Dumped /\ NoSurprises
  BY <1>1 DEF Dumped, NoSurprises
<1> QED
  BY <1>3, <1>5, <1>6, <1>7, <1>8, <1>9 DEF IInv, Types

LEMMA StutterKeeps ==
  ASSUME IInv, UNCHANGED vars
  PROVE  IInv'
<1>1. proc' = proc /\ sim' = sim
  BY DEF vars
<1>2. Types' /\ Lives' /\ Locks' /\ Ends' /\ Events' /\ Dumped' /\ NoSurprises'
  BY <1>1 DEF IInv, Types, Lives, Life, Locks, Lock, Ends, Events, Dumped, DumpedLast, Started,
              NoSurprises
<1>3. Counters'
  BY <1>1, CountersStay DEF IInv, Born, Counted, Alive
<1> QED
  BY <1>2, <1>3 DEF IInv

LEMMA NextKeeps ==
  ASSUME ConstantsFit, IInv, [Next]_vars
  PROVE  IInv'
<1>1. ASSUME NEW p \in Procs, AppStep(p) PROVE IInv'
  BY <1>1, BootKeeps, JoinKeeps, SyncKeeps, BackKeeps, EndingKeeps, FFBasicBlockKeeps, ExitKeeps
     DEF AppStep
<1>2. ASSUME NEW p \in Procs, FFStep(p) PROVE IInv'
  BY <1>2, FFTimeoutKeeps, FFLockKeeps, FFExitKeeps, FFInsertKeeps, FFEnterKeeps DEF FFStep
<1>3. ASSUME NEW p \in Procs,
             \/ SyscallExit(p) \/ Toggle(p) \/ Restart(p) \/ Syscall(p) \/ ProgramEnds(p)
             \/ ROIBegin(p) \/ ROIEnd(p)
      PROVE  IInv'
  BY <1>3, SyscallExitKeeps, ToggleKeeps, RestartKeeps, SyscallKeeps, ProgramEndsKeeps,
     ROIBeginKeeps, ROIEndKeeps
<1>4. ASSUME NEW p \in Procs, \E k \in 1 .. MaxSleep : Sleep(p, k) PROVE IInv'
  BY <1>4, SleepKeeps
<1>5. ASSUME NEW p \in Procs, \E c \in Procs : Fork(p, c) PROVE IInv'
  BY <1>5, ForkKeeps
<1>6. ASSUME EndOfPhase PROVE IInv'
  BY <1>6, UnpauseKeeps, TickKeeps, BumpKeeps DEF EndOfPhase
<1>7. ASSUME WdLook \/ WdAct PROVE IInv'
  BY <1>7, WdLookKeeps, WdActKeeps
<1>8. ASSUME UNCHANGED vars PROVE IInv'
  BY <1>8, StutterKeeps
<1> QED
  BY <1>1, <1>2, <1>3, <1>4, <1>5, <1>6, <1>7, <1>8 DEF Next

(* Termination is decided once, whatever runs, sleeps or fast-forwards     *)
(* when it is; nobody ends a phase afterwards, the watchdog included.      *)
(* Events fire in their phase, unless inserted between tick() and the      *)
(* increment.  The counters of fast-forward and of active processes are    *)
(* exact through starts, forks, restarts, toggles and ends, and the        *)
(* statistics are dumped after the last process has ended.                 *)
THEOREM ProcessesAreExact ==
  ASSUME ConstantsFit
  PROVE  Spec => []ProcessesExact
<1>1. Init => IInv
  BY InitOK
<1>2. IInv /\ [Next]_vars => IInv'
  BY NextKeeps
<1>3. IInv => ProcessesExact
  <2> SUFFICES ASSUME IInv PROVE ProcessesExact
    OBVIOUS
  <2>1. sim.dumped => DumpedLast
    BY DEF IInv, Dumped
  <2>2. DumpedLast
    BY <2>1 DEF DumpedLast
  <2>3. Skewed => sim.grown /\ \E p \in Procs : sim.mode[p] = "multi"
    BY DEF Skewed
  <2>4. CountsExact
    BY <2>3 DEF IInv, Counters, CountsExact, Live
  <2> QED
    BY <2>2, <2>4 DEF IInv, ProcessesExact
<1> QED
  BY <1>1, <1>2, <1>3, PTL DEF Spec

-----------------------------------------------------------------------------
(* The harness, which has processes of its own to look after.              *)
CONSTANTS Last, Restarts, StallLimit, MaxTrouble
VARIABLES kid, h

HN == INSTANCE Harness

HarnessFit == Last \in Nat /\ Restarts \subseteq Nat /\ StallLimit \in Nat

Kid == [life : {"none", "boot", "run", "ending", "zombie", "gone"},
        code : {"none", "ok", "panic", "killed"}, info : {"invalid", "running", "done"},
        exited : {"running", "restart", "exited"}, left : Nat, started : BOOLEAN, hung : BOOLEAN]
Keeper ==
  [pc : {"fork", "record", "test", "sleep", "slept", "stirred", "reap"}, next : Nat,
   inHandler : BOOLEAN, pending : BOOLEAN, attached : BOOLEAN, interrupted : BOOLEAN,
   term : {"ok", "graceful"}, saw : {"nobody", "idlers", "runners"}, lastNumPhases : Nat,
   stalled : Nat, ready : BOOLEAN, active : Int, phases : Nat, ff : BOOLEAN,
   over : {"no", "done", "graceful", "deadlock", "unknown child", "panic", "anomalous", "killed"},
   calm : Nat, lulled : Nat, excused : BOOLEAN, missed : BOOLEAN, trouble : Nat]
HarnessTypes == kid \in [HN!Procs -> Kid] /\ h \in Keeper

(* Processes are launched in order, and before anything else.              *)
Launches ==
  HN!Going =>
    /\ h.pc \in {"fork", "record"} <=> h.next <= Last
    /\ \A p \in HN!Procs : kid[p].life = "none" <=> p > h.next \/ (p = h.next /\ h.pc = "fork")
    /\ h.pc = "record" => kid[h.next].life # "gone"

(* A process says how it ends before it does, and who is gone has ended    *)
(* for good, as far as the harness has looked.                             *)
Fate(k, missed) ==
  /\ k.exited # "running" => k.life \in {"ending", "zombie", "gone"}
  /\ k.exited = "exited" => k.left = 0
  /\ k.life = "gone" /\ ~missed => k.exited = "exited"
Fates == \A p \in HN!Procs : Fate(kid[p], h.missed)

(* The stall that is counted is no longer than the time without a phase,   *)
(* of which the sleep that has just ended is not counted yet.              *)
Stalls ==
  ~h.excused =>
    /\ h.lastNumPhases <= h.phases
    /\ h.lastNumPhases = h.phases =>
         h.calm > StallLimit \/ h.stalled + (IF h.pc = "slept" THEN 1 ELSE 0) <= h.calm
    /\ h.pc = "reap" => h.lulled > StallLimit \/ h.stalled <= h.lulled

HInv == HarnessTypes /\ Launches /\ Fates /\ Stalls /\ HN!HarnessExact

LEMMA NobodyLeft ==
  ASSUME HarnessFit
  PROVE  /\ HN!NumChildren = 0 => \A p \in HN!Procs : kid[p].info # "running"
         /\ \A p \in HN!Procs : kid[p].info = "running" => HN!NumChildren > 0
<1>1. IsFiniteSet(HN!Procs)
  BY FS_Interval DEF HarnessFit, HN!Procs
<1> DEFINE S == {p \in HN!Procs : kid[p].info = "running"}
<1>2. IsFiniteSet(S)
  BY <1>1, FS_Subset
<1>3. Cardinality(S) \in Nat /\ (Cardinality(S) = 0 <=> S = {})
  BY <1>2, FS_CardinalityType, FS_EmptySet
<1>4. HN!Cardinality(S) = Cardinality(S)
  BY DEF HN!Cardinality, Cardinality
<1> QED
  BY <1>3, <1>4 DEF HN!NumChildren


LEMMA HarnessInit ==
  ASSUME HarnessFit, HN!Init
  PROVE  HInv
<1>1. HarnessTypes
  BY DEF HarnessFit, HN!Init, HarnessTypes, Keeper, Kid
<1>2. Launches
  BY DEF HarnessFit, HN!Init, Launches, HN!Going, HN!Procs
<1>3. Fates /\ Stalls
  BY DEF HarnessFit, HN!Init, Fates, Fate, Stalls
<1>4. HN!HarnessExact
  BY DEF HarnessFit, HN!Init, HN!HarnessExact, HN!ChildrenKnown, HN!DoneIsDone, HN!DeadlockReal, HN!NoStrays, HN!Going
<1> QED
  BY <1>1, <1>2, <1>3, <1>4 DEF HInv

LEMMA KeeperFields ==
  ASSUME h \in Keeper
  PROVE  /\ h.next \in Nat /\ h.active \in Int /\ h.trouble \in Nat /\ h.phases \in Nat /\ h.calm \in Nat
         /\ h.stalled \in Nat /\ h.lulled \in Nat /\ h.lastNumPhases \in Nat
  BY DEF Keeper

(* What the counts of phases and of time are told by.                      *)
SameClock ==
  /\ h'.excused = h.excused /\ h'.lastNumPhases = h.lastNumPhases /\ h'.phases = h.phases
  /\ h'.calm = h.calm /\ h'.stalled = h.stalled /\ h'.lulled = h.lulled

LEMMA StallsStay ==
  ASSUME Stalls, SameClock, h'.pc = h.pc
  PROVE  Stalls'
  BY DEF Stalls, SameClock

(* One process moves.                                                      *)
LEMMA KidSteps ==
  ASSUME HInv, HN!Going, h' \in Keeper, SameClock, h'.pc = h.pc, h'.next = h.next, h'.over = h.over,
         NEW p \in HN!Procs, NEW r \in Kid, kid' = [kid EXCEPT ![p] = r],
         h.missed => h'.missed, Fate(r, h'.missed), r.life = "none" <=> kid[p].life = "none",
         r.info = "running" <=> r.life \notin {"none", "gone"} /\ ~(h.pc = "record" /\ h.next = p),
         h.pc = "record" /\ h.next = p => r.life # "gone"
  PROVE  HInv'
<1>1. HarnessTypes'
  BY DEF HInv, HarnessTypes
<1>2. kid'[p] = r /\ \A q \in HN!Procs \ {p} : kid'[q] = kid[q]
  BY DEF HInv, HarnessTypes
<1>3. h.over = "no" /\ h'.over = "no"
  BY DEF HN!Going
<1>4. Launches'
  BY <1>2, <1>3 DEF HInv, Launches, HN!Going
<1>5. Fates'
  BY <1>2 DEF HInv, Fates, Fate
<1>6. Stalls'
  BY StallsStay DEF HInv
<1>7. HN!HarnessExact'
  BY <1>2, <1>3 DEF HInv, HN!HarnessExact, HN!Going, HN!ChildrenKnown, HN!DoneIsDone, HN!DeadlockReal,
                    HN!NoStrays
<1> QED
  BY <1>1, <1>4, <1>5, <1>6, <1>7 DEF HInv

(* The harness moves.                                                      *)
LEMMA KeeperSteps ==
  ASSUME HInv, HN!Going, h' \in Keeper, kid' = kid, h'.over = "no", h'.missed = h.missed,
         h'.pc = h.pc \/ (h.pc \notin {"fork", "record"} /\ h'.pc \notin {"fork", "record"}),
         h'.next = h.next, Stalls'
  PROVE  HInv'
<1>1. HarnessTypes'
  BY DEF HInv, HarnessTypes
<1>2. Launches'
  BY DEF HInv, Launches, HN!Going
<1>3. Fates'
  BY DEF HInv, Fates
<1>4. HN!HarnessExact'
  BY DEF HInv, HN!HarnessExact, HN!Going, HN!ChildrenKnown, HN!DoneIsDone, HN!DeadlockReal, HN!NoStrays
<1> QED
  BY <1>1, <1>2, <1>3, <1>4 DEF HInv

(* A process that lives, or waits to be reaped, does so afterwards.        *)
LEMMA LivingSteps ==
  ASSUME HInv, HN!Going, h' \in Keeper, SameClock, h'.pc = h.pc, h'.next = h.next, h'.over = h.over,
         h'.missed = h.missed, NEW p \in HN!Procs, NEW r \in Kid, kid' = [kid EXCEPT ![p] = r],
         kid[p].life \notin {"none", "gone"}, r.life \notin {"none", "gone"}, r.info = kid[p].info,
         r.exited # "running" => r.life \in {"ending", "zombie"},
         r.exited = "exited" => r.left = 0
  PROVE  HInv'
<1>1. kid[p].info = "running" <=> ~(h.pc = "record" /\ h.next = p)
  BY DEF HInv, HN!HarnessExact, HN!ChildrenKnown
<1>2. Fate(r, h.missed)
  BY DEF Fate
<1> QED
  BY <1>1, <1>2, KidSteps

LEMMA HarnessBoot ==
  ASSUME HarnessFit, HInv, NEW p \in HN!Procs, HN!Boot(p)
  PROVE  HInv'
<1> DEFINE r == [kid[p] EXCEPT !.life = "run", !.started = TRUE]
           n == IF kid[p].started THEN h.active ELSE h.active + 1
<1>1. kid[p] \in Kid /\ h \in Keeper /\ Fate(kid[p], h.missed) /\ kid[p].life = "boot" /\ HN!Going
  BY DEF HInv, HarnessTypes, Fates, HN!Boot
<1>2. r \in Kid /\ r.life = "run" /\ r.info = kid[p].info /\ r.exited = "running"
  BY <1>1 DEF Kid, Fate
<1>3. kid' = [kid EXCEPT ![p] = r]
  BY DEF HInv, HarnessTypes, HN!Boot
<1>4. h' = [h EXCEPT !.ready = TRUE, !.active = n]
  BY DEF HN!Boot
<1>5. n \in Int
  BY <1>1, KeeperFields
<1> HIDE DEF r, n
<1>6. h' \in Keeper /\ SameClock /\ h'.pc = h.pc /\ h'.next = h.next /\ h'.over = h.over /\ h'.missed = h.missed
  BY <1>1, <1>4, <1>5 DEF Keeper, SameClock
<1> QED
  BY <1>1, <1>2, <1>3, <1>6, LivingSteps

LEMMA HarnessEnd ==
  ASSUME HarnessFit, HInv, NEW p \in HN!Procs, HN!End(p)
  PROVE  HInv'
<1>1. kid[p] \in Kid /\ h \in Keeper /\ Fate(kid[p], h.missed) /\ kid[p].life = "run" /\ HN!Going
  BY DEF HInv, HarnessTypes, Fates, HN!End
<1>2. CASE kid[p].left > 0
  <2> DEFINE r == [kid[p] EXCEPT !.life = "ending", !.exited = "restart", !.left = kid[p].left - 1]
  <2>1. kid[p].left - 1 \in Nat
    BY <1>1, <1>2 DEF Kid
  <2>2. r \in Kid /\ r.life = "ending" /\ r.info = kid[p].info /\ r.exited = "restart"
    BY <1>1, <2>1 DEF Kid
  <2>3. kid' = [kid EXCEPT ![p] = r] /\ h' = h
    BY <1>2 DEF HInv, HarnessTypes, HN!End
  <2> HIDE DEF r
  <2>4. SameClock
    BY <2>3 DEF SameClock
  <2> QED
    BY <1>1, <2>2, <2>3, <2>4, LivingSteps
<1>3. CASE ~(kid[p].left > 0)
  <2> DEFINE r == [kid[p] EXCEPT !.life = "ending", !.exited = "exited"]
  <2>0. kid[p].left = 0
    BY <1>1, <1>3 DEF Kid
  <2>1. r \in Kid /\ r.life = "ending" /\ r.info = kid[p].info /\ r.left = 0
    BY <1>1, <2>0 DEF Kid
  <2>2. kid' = [kid EXCEPT ![p] = r] /\ h' = [h EXCEPT !.active = h.active - 1]
    BY <1>3 DEF HInv, HarnessTypes, HN!End
  <2> HIDE DEF r
  <2>3. h.active - 1 \in Int
    BY <1>1, KeeperFields
  <2>4. h' \in Keeper /\ SameClock /\ h'.pc = h.pc /\ h'.next = h.next /\ h'.over = h.over /\ h'.missed = h.missed
    BY <1>1, <2>2, <2>3 DEF Keeper, SameClock
  <2> QED
    BY <1>1, <2>1, <2>2, <2>4, LivingSteps
<1> QED
  BY <1>2, <1>3

LEMMA HarnessExit ==
  ASSUME HarnessFit, HInv, NEW p \in HN!Procs, HN!Exit(p)
  PROVE  HInv'
<1> DEFINE r == [kid[p] EXCEPT !.life = "zombie", !.code = "ok"]
<1>1. kid[p] \in Kid /\ h \in Keeper /\ Fate(kid[p], h.missed) /\ kid[p].life = "ending" /\ HN!Going
  BY DEF HInv, HarnessTypes, Fates, HN!Exit
<1>2. /\ r \in Kid /\ r.life = "zombie" /\ r.info = kid[p].info
      /\ r.exited = kid[p].exited /\ r.left = kid[p].left
  BY <1>1 DEF Kid
<1>3. kid' = [kid EXCEPT ![p] = r] /\ h' = [h EXCEPT !.pending = TRUE]
  BY DEF HInv, HarnessTypes, HN!Exit, HN!Dies
<1> HIDE DEF r
<1>4. h' \in Keeper /\ SameClock /\ h'.pc = h.pc /\ h'.next = h.next /\ h'.over = h.over /\ h'.missed = h.missed
  BY <1>1, <1>3 DEF Keeper, SameClock
<1>5. r.exited = "exited" => r.left = 0
  BY <1>1, <1>2 DEF Fate
<1> QED
  BY <1>1, <1>2, <1>3, <1>4, <1>5, LivingSteps

LEMMA HarnessCrash ==
  ASSUME HarnessFit, HInv, NEW p \in HN!Procs, NEW code \in {"panic", "killed"}, HN!Crash(p, code)
  PROVE  HInv'
<1> DEFINE r == [kid[p] EXCEPT !.life = "zombie", !.code = code]
<1>1. /\ kid[p] \in Kid /\ h \in Keeper /\ Fate(kid[p], h.missed) /\ kid[p].life \in {"boot", "run"}
      /\ HN!Going
  BY DEF HInv, HarnessTypes, Fates, HN!Crash, HN!Troubled
<1>2. r \in Kid /\ r.life = "zombie" /\ r.info = kid[p].info /\ r.exited = "running"
  BY <1>1 DEF Kid, Fate
<1>3. kid' = [kid EXCEPT ![p] = r] /\ h' = [h EXCEPT !.pending = TRUE, !.trouble = h.trouble + 1]
  BY DEF HInv, HarnessTypes, HN!Crash
<1> HIDE DEF r
<1>4. h.trouble + 1 \in Nat
  BY <1>1, KeeperFields
<1>5. h' \in Keeper /\ SameClock /\ h'.pc = h.pc /\ h'.next = h.next /\ h'.over = h.over /\ h'.missed = h.missed
  BY <1>1, <1>3, <1>4 DEF Keeper, SameClock
<1> QED
  BY <1>1, <1>2, <1>3, <1>5, LivingSteps

LEMMA HarnessHang ==
  ASSUME HarnessFit, HInv, NEW p \in HN!Procs, HN!Hang(p)
  PROVE  HInv'
<1> DEFINE r == [kid[p] EXCEPT !.hung = TRUE]
<1>1. kid[p] \in Kid /\ h \in Keeper /\ Fate(kid[p], h.missed) /\ kid[p].life = "run" /\ HN!Going
  BY DEF HInv, HarnessTypes, Fates, HN!Hang, HN!Troubled
<1>2. r \in Kid /\ r.life = "run" /\ r.info = kid[p].info /\ r.exited = "running"
  BY <1>1 DEF Kid, Fate
<1>3. kid' = [kid EXCEPT ![p] = r] /\ h' = [h EXCEPT !.trouble = h.trouble + 1]
  BY DEF HInv, HarnessTypes, HN!Hang
<1> HIDE DEF r
<1>4. h.trouble + 1 \in Nat
  BY <1>1, KeeperFields
<1>5. h' \in Keeper /\ SameClock /\ h'.pc = h.pc /\ h'.next = h.next /\ h'.over = h.over /\ h'.missed = h.missed
  BY <1>1, <1>3, <1>4 DEF Keeper, SameClock
<1> QED
  BY <1>1, <1>2, <1>3, <1>5, LivingSteps

LEMMA HarnessForks ==
  ASSUME HarnessFit, HInv, HN!Fork
  PROVE  HInv'
<1> DEFINE p == h.next
           r == [kid[p] EXCEPT !.life = "boot"]
<1>1. h \in Keeper /\ h.pc = "fork" /\ HN!Going /\ h.over = "no"
  BY DEF HInv, HarnessTypes, HN!Fork, HN!Main, HN!Going
<1>2. p \in HN!Procs /\ p \in Nat /\ p <= Last
  BY <1>1, KeeperFields DEF HInv, Launches, HN!Procs, HarnessFit
<1>3. kid[p] \in Kid /\ Fate(kid[p], h.missed) /\ kid[p].life = "none"
  BY <1>1, <1>2 DEF HInv, HarnessTypes, Fates, Launches
<1>4. kid[p].info # "running"
  BY <1>1, <1>2, <1>3 DEF HInv, HN!HarnessExact, HN!ChildrenKnown
<1>5. r \in Kid /\ r.life = "boot" /\ r.info = kid[p].info /\ r.exited = "running"
  BY <1>3 DEF Kid, Fate
<1>6. kid' = [kid EXCEPT ![p] = r] /\ h' = [h EXCEPT !.pc = "record"]
  BY DEF HInv, HarnessTypes, HN!Fork
<1> HIDE DEF r
<1>7. h' \in Keeper /\ SameClock /\ h'.pc = "record" /\ h'.next = h.next /\ h'.over = "no" /\ h'.missed = h.missed
  BY <1>1, <1>6 DEF Keeper, SameClock
<1>8. kid'[p] = r /\ \A q \in HN!Procs \ {p} : kid'[q] = kid[q]
  BY <1>2, <1>6 DEF HInv, HarnessTypes
<1>9. HarnessTypes'
  BY <1>5, <1>6, <1>7 DEF HInv, HarnessTypes
<1>10. Launches'
  <2>1. \A q \in HN!Procs : kid[q].life = "none" <=> q > p \/ q = p
    BY <1>1 DEF HInv, Launches
  <2> HIDE DEF p
  <2>2. \A q \in HN!Procs : kid'[q].life = "none" <=> q > p
    <3>1. ~(p > p)
      BY <1>2
    <3> QED
      BY <1>5, <1>8, <2>1, <3>1
  <2> QED
    BY <1>2, <1>5, <1>7, <1>8, <2>2 DEF Launches, p
<1>11. Fates'
  BY <1>5, <1>7, <1>8 DEF HInv, Fates, Fate
<1>12. Stalls'
  BY <1>1, <1>7 DEF HInv, Stalls, SameClock
<1>13. HN!HarnessExact'
  BY <1>1, <1>4, <1>5, <1>7, <1>8 DEF HInv, HN!HarnessExact, HN!Going, HN!ChildrenKnown, HN!DoneIsDone,
     HN!DeadlockReal, HN!NoStrays
<1> QED
  BY <1>9, <1>10, <1>11, <1>12, <1>13 DEF HInv

LEMMA HarnessRecords ==
  ASSUME HarnessFit, HInv, HN!Record
  PROVE  HInv'
<1> DEFINE p == h.next
           r == [kid[p] EXCEPT !.info = "running"]
           pc == IF h.next = Last THEN "test" ELSE "fork"
<1>1. h \in Keeper /\ h.pc = "record" /\ HN!Going /\ h.over = "no"
  BY DEF HInv, HarnessTypes, HN!Record, HN!Main, HN!Going
<1>2. p \in HN!Procs /\ p \in Nat /\ p <= Last /\ Last \in Nat
  BY <1>1, KeeperFields DEF HInv, Launches, HN!Procs, HarnessFit
<1>3. kid[p] \in Kid /\ Fate(kid[p], h.missed)
  BY <1>1, <1>2 DEF HInv, HarnessTypes, Fates
<1>4. \A q \in HN!Procs : kid[q].life = "none" <=> q > p
  BY <1>1 DEF HInv, Launches
<1>5. kid[p].life \notin {"none", "gone"}
  <2>1. kid[p].life # "none"
    BY <1>2, <1>4
  <2>2. kid[p].life # "gone"
    BY <1>1 DEF HInv, Launches
  <2> QED
    BY <2>1, <2>2
<1>6. kid[p].info # "running"
  BY <1>1, <1>2 DEF HInv, HN!HarnessExact, HN!ChildrenKnown
<1>7. r \in Kid /\ r.life = kid[p].life /\ r.info = "running" /\ r.exited = kid[p].exited /\ r.left = kid[p].left
  BY <1>3 DEF Kid
<1>8. kid' = [kid EXCEPT ![p] = r]
  BY DEF HInv, HarnessTypes, HN!Record
<1>9. h' = [h EXCEPT !.pc = pc, !.next = h.next + 1]
  BY DEF HN!Record
<1>10. pc \in {"test", "fork"} /\ h.next + 1 \in Nat
  BY <1>2
<1> HIDE DEF r, pc
<1>11. /\ h' \in Keeper /\ SameClock /\ h'.pc = pc /\ h'.next = h.next + 1 /\ h'.over = "no"
       /\ h'.missed = h.missed
  BY <1>1, <1>9, <1>10 DEF Keeper, SameClock
<1>12. kid'[p] = r /\ \A q \in HN!Procs \ {p} : kid'[q] = kid[q]
  BY <1>2, <1>8 DEF HInv, HarnessTypes
<1>13. HarnessTypes'
  BY <1>7, <1>8, <1>11 DEF HInv, HarnessTypes
<1>14. Launches'
  <2>1. \A q \in HN!Procs : kid'[q].life = "none" <=> q > p
    BY <1>4, <1>7, <1>12
  <2>2. \A q \in HN!Procs : q \in Nat /\ q <= Last
    BY DEF HN!Procs
  <2>3. h'.pc \in {"fork", "record"} <=> h'.next <= Last
    BY <1>2, <1>11 DEF pc
  <2>4. \A q \in HN!Procs : q > p <=> q > p + 1 \/ (q = p + 1 /\ pc = "fork")
    BY <1>2, <2>2 DEF pc
  <2>5. h'.pc # "record"
    BY <1>10, <1>11
  <2> QED
    BY <1>11, <2>1, <2>3, <2>4, <2>5 DEF Launches
<1>15. Fates'
  BY <1>7, <1>11, <1>12 DEF HInv, Fates, Fate
<1>16. Stalls'
  BY <1>1, <1>10, <1>11 DEF HInv, Stalls, SameClock
<1>17. HN!HarnessExact'
  <2>1. HN!ChildrenKnown'
    BY <1>1, <1>5, <1>7, <1>10, <1>11, <1>12 DEF HInv, HN!HarnessExact, HN!Going, HN!ChildrenKnown
  <2> QED
    BY <1>11, <2>1 DEF HN!HarnessExact, HN!Going, HN!DoneIsDone, HN!DeadlockReal, HN!NoStrays
<1> QED
  BY <1>13, <1>14, <1>15, <1>16, <1>17 DEF HInv

LEMMA HarnessPhase ==
  ASSUME HarnessFit, HInv, HN!Phase
  PROVE  HInv'
<1>1. h \in Keeper /\ HN!Going /\ h.over = "no"
  BY DEF HInv, HarnessTypes, HN!Phase, HN!Going
<1>2. h' = [h EXCEPT !.phases = h.phases + 1, !.calm = 0] /\ kid' = kid
  BY DEF HN!Phase
<1>3. h.phases + 1 \in Nat /\ 0 \in Nat /\ h.phases \in Nat /\ h.lastNumPhases \in Nat
  BY <1>1, KeeperFields
<1>4. /\ h' \in Keeper /\ h'.pc = h.pc /\ h'.next = h.next /\ h'.over = "no" /\ h'.missed = h.missed
      /\ h'.excused = h.excused /\ h'.lastNumPhases = h.lastNumPhases /\ h'.phases = h.phases + 1
      /\ h'.stalled = h.stalled /\ h'.lulled = h.lulled
  BY <1>1, <1>2, <1>3 DEF Keeper
<1>5. Stalls'
  BY <1>3, <1>4 DEF HInv, Stalls
<1> QED
  BY <1>1, <1>2, <1>4, <1>5, KeeperSteps

LEMMA HarnessToggle ==
  ASSUME HarnessFit, HInv, HN!Toggle
  PROVE  HInv'
<1> DEFINE ff == ~h.ff
<1>1. h \in Keeper /\ HN!Going /\ h.over = "no"
  BY DEF HInv, HarnessTypes, HN!Toggle, HN!Troubled, HN!Going
<1>2. h' = [h EXCEPT !.ff = ff, !.trouble = h.trouble + 1] /\ kid' = kid
  BY DEF HN!Toggle
<1>3. h.trouble + 1 \in Nat /\ ff \in BOOLEAN
  BY <1>1, KeeperFields
<1> HIDE DEF ff
<1>4. /\ h' \in Keeper /\ h'.pc = h.pc /\ h'.next = h.next /\ h'.over = "no" /\ h'.missed = h.missed
      /\ SameClock
  BY <1>1, <1>2, <1>3 DEF Keeper, SameClock
<1>5. Stalls'
  BY <1>4, StallsStay DEF HInv
<1> QED
  BY <1>1, <1>2, <1>4, <1>5, KeeperSteps

LEMMA HarnessSleep ==
  ASSUME HarnessFit, HInv, NEW k \in {0, 1}, HN!Sleep(k)
  PROVE  HInv'
<1> DEFINE pc == IF k = 1 THEN "slept" ELSE "stirred"
           calm == IF h.calm > StallLimit THEN h.calm ELSE h.calm + k
           saw == IF h.active = 0 THEN "nobody" ELSE IF h.ff THEN "idlers" ELSE "runners"
<1>1. h \in Keeper /\ HN!Going /\ h.over = "no" /\ h.pc = "sleep"
  BY DEF HInv, HarnessTypes, HN!Sleep, HN!Main, HN!Going
<1>2. h' = [h EXCEPT !.pc = pc, !.calm = calm, !.saw = saw] /\ kid' = kid
  BY DEF HN!Sleep
<1>3. h.calm \in Nat /\ h.stalled \in Nat /\ StallLimit \in Nat
  BY <1>1, KeeperFields DEF HarnessFit
<1>4. pc \in {"slept", "stirred"} /\ calm \in Nat /\ saw \in {"nobody", "idlers", "runners"}
  BY <1>3
<1>5. /\ h.calm > StallLimit => calm > StallLimit
      /\ h.stalled <= h.calm => calm > StallLimit \/ h.stalled + (IF pc = "slept" THEN 1 ELSE 0) <= calm
  BY <1>3
<1> HIDE DEF pc, calm, saw
<1>6. h' \in Keeper /\ h'.pc = pc /\ h'.calm = calm
  BY <1>1, <1>2, <1>4 DEF Keeper
<1>7. /\ h'.next = h.next /\ h'.over = "no" /\ h'.missed = h.missed
      /\ h'.excused = h.excused /\ h'.lastNumPhases = h.lastNumPhases /\ h'.phases = h.phases
      /\ h'.stalled = h.stalled
  BY <1>1, <1>2 DEF Keeper
<1>8. Stalls'
  BY <1>1, <1>3, <1>4, <1>5, <1>6, <1>7 DEF HInv, Stalls
<1> QED
  BY <1>1, <1>2, <1>4, <1>6, <1>7, <1>8, KeeperSteps

LEMMA HarnessLook ==
  ASSUME HarnessFit, HInv, HN!Look
  PROVE  HInv'
<1> DEFINE k == IF h.pc = "slept" THEN 1 ELSE 0
           stalled == IF h.saw = "runners" THEN (IF h.phases <= h.lastNumPhases THEN h.stalled + k ELSE 0)
                      ELSE h.stalled
           last == IF h.saw # "nobody" THEN h.phases ELSE h.lastNumPhases
           excused == h.excused \/ h.saw # "runners"
<1>1. h \in Keeper /\ HN!Going /\ h.over = "no" /\ h.pc \in {"slept", "stirred"}
  BY DEF HInv, HarnessTypes, HN!Look, HN!Main, HN!Going
<1>2. /\ h' = [h EXCEPT !.pc = "reap", !.stalled = stalled, !.lastNumPhases = last, !.lulled = h.calm,
                 !.excused = excused]
      /\ kid' = kid
  BY DEF HN!Look, HN!Stalled
<1>3. /\ h.calm \in Nat /\ h.stalled \in Nat /\ h.phases \in Nat /\ h.lastNumPhases \in Nat /\ StallLimit \in Nat
      /\ k \in Nat
  BY <1>1, KeeperFields DEF HarnessFit
<1>4. stalled \in Nat /\ last \in Nat /\ excused \in BOOLEAN
  BY <1>3
<1>5. ~excused =>
        /\ ~h.excused /\ last = h.phases
        /\ h.calm > StallLimit \/ stalled <= h.calm
  BY <1>3 DEF HInv, Stalls
<1> HIDE DEF stalled, last, excused
<1>6. h' \in Keeper /\ h'.pc = "reap" /\ h'.stalled = stalled /\ h'.lastNumPhases = last
  BY <1>1, <1>2, <1>3, <1>4 DEF Keeper
<1>7. /\ h'.next = h.next /\ h'.over = "no" /\ h'.missed = h.missed /\ h'.excused = excused
      /\ h'.phases = h.phases /\ h'.lulled = h.calm /\ h'.calm = h.calm
  BY <1>1, <1>2 DEF Keeper
<1>8. Stalls'
  BY <1>3, <1>4, <1>5, <1>6, <1>7 DEF Stalls
<1> QED
  BY <1>1, <1>2, <1>6, <1>7, <1>8, KeeperSteps

LEMMA HarnessHandler ==
  ASSUME HarnessFit, HInv, HN!Handler \/ HN!Return
  PROVE  HInv'
<1>1. h \in Keeper /\ HN!Going /\ h.over = "no"
  BY DEF HInv, HarnessTypes, HN!Handler, HN!Return, HN!Main, HN!Going
<1>2. /\ kid' = kid
      /\ \/ h' = [h EXCEPT !.inHandler = TRUE, !.pending = FALSE, !.interrupted = TRUE]
         \/ h' = [h EXCEPT !.inHandler = FALSE]
  BY DEF HN!Handler, HN!Return
<1>3. /\ h' \in Keeper /\ h'.pc = h.pc /\ h'.next = h.next /\ h'.over = "no" /\ h'.missed = h.missed
      /\ SameClock
  BY <1>1, <1>2 DEF Keeper, SameClock
<1>4. Stalls'
  BY <1>3, StallsStay DEF HInv
<1> QED
  BY <1>1, <1>2, <1>3, <1>4, KeeperSteps

-----------------------------------------------------------------------------
(* The harness ends, and with it whoever still lives; unless there is      *)
(* nobody it knows.                                                        *)
Whys == {"done", "graceful", "deadlock", "unknown child", "panic", "anomalous", "killed"}

LEMMA DeadAre ==
  ASSUME HInv
  PROVE  LET d == HN!Dead("killed")
         IN /\ d \in [HN!Procs -> Kid]
            /\ \A p \in HN!Procs :
                 /\ d[p].life \notin {"boot", "run", "ending"} /\ d[p].exited = kid[p].exited /\ d[p].left = kid[p].left
                 /\ d[p].life \in {"zombie", kid[p].life}
<1> DEFINE d == HN!Dead("killed")
           z(p) == [kid[p] EXCEPT !.life = "zombie", !.code = "killed"]
<1>1. d = [p \in HN!Procs |-> IF HN!Alive(p) THEN z(p) ELSE kid[p]]
  BY DEF HN!Dead
<1> HIDE DEF d
<1>2. ASSUME NEW p \in HN!Procs
      PROVE  /\ d[p] \in Kid /\ d[p].life \notin {"boot", "run", "ending"}
             /\ d[p].exited = kid[p].exited /\ d[p].left = kid[p].left /\ d[p].life \in {"zombie", kid[p].life}
  <2>1. kid[p] \in Kid
    BY DEF HInv, HarnessTypes
  <2>2. z(p) \in Kid /\ z(p).life = "zombie" /\ z(p).exited = kid[p].exited /\ z(p).left = kid[p].left
    BY <2>1 DEF Kid
  <2>3. d[p] = IF HN!Alive(p) THEN z(p) ELSE kid[p]
    BY <1>1
  <2> HIDE DEF z
  <2>4. CASE HN!Alive(p)
    BY <2>2, <2>3, <2>4
  <2>5. CASE ~HN!Alive(p)
    BY <2>1, <2>3, <2>5 DEF HN!Alive
  <2> QED
    BY <2>4, <2>5
<1>3. d \in [HN!Procs -> Kid]
  BY <1>1, <1>2
<1> QED
  BY <1>2, <1>3 DEF d

LEMMA OverSteps ==
  ASSUME HarnessFit, HInv, HN!Going, NEW why \in Whys, h' = [h EXCEPT !.over = why],
         kid' \in {kid, HN!Dead("killed")},
         why = "unknown child" => h.pc = "record",
         why # "unknown child" /\ kid' = kid => \A p \in HN!Procs : ~HN!Alive(p),
         why = "done" => h.missed \/ \A p \in HN!Procs : kid[p].exited = "exited" /\ kid[p].left = 0,
         why = "deadlock" => h.excused \/ h.lulled > StallLimit
  PROVE  HInv'
<1>1. h \in Keeper /\ kid \in [HN!Procs -> Kid]
  BY DEF HInv, HarnessTypes
<1>2. /\ h' \in Keeper /\ h'.over = why /\ h'.pc = h.pc /\ h'.missed = h.missed /\ SameClock /\ why # "no"
  BY <1>1 DEF Keeper, SameClock, Whys
<1>3. /\ kid' \in [HN!Procs -> Kid]
      /\ \A p \in HN!Procs : /\ kid'[p].exited = kid[p].exited /\ kid'[p].left = kid[p].left
                             /\ kid'[p].life \in {"zombie", kid[p].life}
  BY <1>1, DeadAre
<1>4. why # "unknown child" => \A p \in HN!Procs : kid'[p].life \notin {"boot", "run", "ending"}
  <2>1. CASE kid' = kid
    BY <2>1 DEF HN!Alive
  <2>2. CASE kid' = HN!Dead("killed")
    BY <2>2, DeadAre
  <2> QED
    BY <2>1, <2>2
<1>5. Fates'
  BY <1>2, <1>3 DEF HInv, Fates, Fate
<1>6. Launches'
  BY <1>2 DEF Launches, HN!Going
<1>7. Stalls'
  BY <1>2, StallsStay DEF HInv
<1>8. HN!HarnessExact'
  <2>1. HN!ChildrenKnown' /\ HN!NoStrays'
    BY <1>2, <1>4 DEF HN!ChildrenKnown, HN!NoStrays, HN!Going, HN!Alive
  <2>2. HN!DoneIsDone'
    BY <1>2, <1>3 DEF HN!DoneIsDone
  <2>3. HN!DeadlockReal'
    BY <1>2 DEF HN!DeadlockReal, SameClock
  <2> QED
    BY <2>1, <2>2, <2>3 DEF HN!HarnessExact
<1> QED
  BY <1>2, <1>3, <1>5, <1>6, <1>7, <1>8 DEF HInv, HarnessTypes

LEMMA HarnessReapInLoop ==
  ASSUME HarnessFit, HInv, NEW p \in HN!Procs, HN!ReapInLoop(p)
  PROVE  HInv'
<1> DEFINE r == [kid[p] EXCEPT !.life = "gone", !.info = "done"]
<1>1. /\ kid[p] \in Kid /\ h \in Keeper /\ Fate(kid[p], h.missed) /\ kid[p].life = "zombie"
      /\ HN!Going /\ h.pc = "reap"
  BY DEF HInv, HarnessTypes, Fates, HN!ReapInLoop, HN!Main, HN!Zombies
<1>2. /\ r \in Kid /\ r.life = "gone" /\ r.info = "done" /\ r.exited = kid[p].exited /\ r.left = kid[p].left
  BY <1>1 DEF Kid
<1>3. kid' = [kid EXCEPT ![p] = r] /\ h' = [h EXCEPT !.missed = TRUE]
  BY DEF HInv, HarnessTypes, HN!ReapInLoop
<1> HIDE DEF r
<1>4. h' \in Keeper /\ SameClock /\ h'.pc = h.pc /\ h'.next = h.next /\ h'.over = h.over /\ h'.missed
  BY <1>1, <1>3 DEF Keeper, SameClock
<1>5. Fate(r, h'.missed)
  BY <1>1, <1>2, <1>4 DEF Fate
<1> QED
  BY <1>1, <1>2, <1>3, <1>4, <1>5, KidSteps

LEMMA HarnessJudge ==
  ASSUME HarnessFit, HInv, HN!Judge
  PROVE  HInv'
<1>1. h \in Keeper /\ HN!Going /\ h.over = "no" /\ h.pc = "reap"
  BY DEF HInv, HarnessTypes, HN!Judge, HN!Main, HN!Going
<1>2. CASE h.stalled > StallLimit
  <2>1. h' = [h EXCEPT !.over = "deadlock"] /\ kid' = HN!Dead("killed")
    BY <1>2 DEF HN!Judge, HN!ExitWith
  <2>2. h.excused \/ h.lulled > StallLimit
    BY <1>1, <1>2, KeeperFields DEF HInv, Stalls, HarnessFit
  <2>3. kid' = kid => \A p \in HN!Procs : ~HN!Alive(p)
    BY <2>1, DeadAre DEF HN!Alive
  <2>4. "deadlock" \in Whys
    BY DEF Whys
  <2> QED
    BY <1>1, <2>1, <2>2, <2>3, <2>4, OverSteps
<1>3. CASE ~(h.stalled > StallLimit)
  <2>1. h' = [h EXCEPT !.pc = "test", !.lulled = 0] /\ kid' = kid
    BY <1>3 DEF HN!Judge
  <2>2. /\ h' \in Keeper /\ h'.pc = "test" /\ h'.next = h.next /\ h'.over = "no" /\ h'.missed = h.missed
        /\ h'.excused = h.excused /\ h'.lastNumPhases = h.lastNumPhases /\ h'.phases = h.phases
        /\ h'.stalled = h.stalled /\ h'.calm = h.calm
    BY <1>1, <2>1 DEF Keeper
  <2>3. Stalls'
    BY <1>1, <2>2 DEF HInv, Stalls
  <2> QED
    BY <1>1, <2>1, <2>2, <2>3, KeeperSteps
<1> QED
  BY <1>2, <1>3

LEMMA HarnessTest ==
  ASSUME HarnessFit, HInv, HN!Test
  PROVE  HInv'
<1>1. h \in Keeper /\ HN!Going /\ h.over = "no" /\ h.pc = "test"
  BY DEF HInv, HarnessTypes, HN!Test, HN!Main, HN!Going
<1>2. CASE HN!NumChildren = 0
  <2> DEFINE why == IF h.term = "ok" THEN "done" ELSE "graceful"
  <2>1. h' = [h EXCEPT !.over = why] /\ kid' \in {kid, HN!Dead("killed")}
    BY <1>2 DEF HN!Test, HN!ExitWith
  <2>2. \A p \in HN!Procs : kid[p].life \in {"none", "gone"}
    BY <1>1, <1>2, NobodyLeft DEF HInv, HN!HarnessExact, HN!ChildrenKnown
  <2>3. \A p \in HN!Procs : kid[p].life # "none"
    <3>1. ~(h.next <= Last) /\ h.next \in Nat
      BY <1>1, KeeperFields DEF HInv, Launches
    <3>2. \A p \in HN!Procs : p <= Last /\ p \in Nat
      BY DEF HN!Procs
    <3>3. \A p \in HN!Procs : ~(p > h.next) /\ p # h.next
      BY <3>1, <3>2 DEF HarnessFit
    <3> QED
      BY <1>1, <3>3 DEF HInv, Launches
  <2>4. h.missed \/ \A p \in HN!Procs : kid[p].exited = "exited" /\ kid[p].left = 0
    BY <2>2, <2>3 DEF HInv, Fates, Fate
  <2>5. \A p \in HN!Procs : ~HN!Alive(p)
    BY <2>2 DEF HN!Alive
  <2>6. why \in Whys /\ why \notin {"deadlock", "unknown child"}
    BY DEF Whys
  <2> HIDE DEF why
  <2> QED
    BY <1>1, <2>1, <2>4, <2>5, <2>6, OverSteps
<1>3. CASE HN!NumChildren # 0
  <2>1. h' = [h EXCEPT !.attached = TRUE, !.pc = "sleep", !.interrupted = FALSE] /\ kid' = kid
    BY <1>3 DEF HN!Test
  <2>2. /\ h' \in Keeper /\ h'.pc = "sleep" /\ h'.next = h.next /\ h'.over = "no" /\ h'.missed = h.missed
        /\ SameClock
    BY <1>1, <2>1 DEF Keeper, SameClock
  <2>3. Stalls'
    BY <1>1, <2>2 DEF HInv, Stalls, SameClock
  <2> QED
    BY <1>1, <2>1, <2>2, <2>3, KeeperSteps
<1> QED
  BY <1>2, <1>3

LEMMA HarnessReap ==
  ASSUME HarnessFit, HInv, NEW p \in HN!Procs, HN!Reap(p)
  PROVE  HInv'
<1>1. /\ kid[p] \in Kid /\ h \in Keeper /\ Fate(kid[p], h.missed) /\ kid[p].life = "zombie" /\ HN!Going
  BY DEF HInv, HarnessTypes, Fates, HN!Reap, HN!Zombies
<1>2. kid[p].info # "running" => h.pc = "record" /\ h.next = p
  BY <1>1 DEF HInv, HN!HarnessExact, HN!ChildrenKnown
<1>3. kid[p].info = "running" => ~(h.pc = "record" /\ h.next = p)
  BY <1>1 DEF HInv, HN!HarnessExact, HN!ChildrenKnown
<1>4. ASSUME NEW why \in {"unknown child", "panic", "anomalous"}, HN!ExitWith(why, kid),
             kid[p].info # "running" <=> why = "unknown child"
      PROVE  HInv'
  <2>1. h' = [h EXCEPT !.over = why] /\ kid' \in {kid, HN!Dead("killed")}
    BY <1>4 DEF HN!ExitWith
  <2>2. why # "unknown child" /\ kid' = kid => \A q \in HN!Procs : ~HN!Alive(q)
    <3>1. SUFFICES ASSUME why # "unknown child" PROVE kid' = HN!Dead("killed")
      BY DeadAre DEF HN!Alive
    <3> QED
      BY <1>4, <3>1, NobodyLeft DEF HN!ExitWith
  <2>3. why \in Whys /\ why \notin {"done", "deadlock"}
    BY <1>4 DEF Whys
  <2> QED
    BY <1>1, <1>2, <1>4, <2>1, <2>2, <2>3, OverSteps
<1>5. CASE kid[p].info # "running"
  BY <1>4, <1>5 DEF HN!Reap
<1>6. CASE kid[p].info = "running" /\ kid[p].code = "panic"
  BY <1>4, <1>6 DEF HN!Reap
<1>7. CASE kid[p].info = "running" /\ kid[p].code # "panic" /\ h.attached /\ kid[p].exited = "running"
  BY <1>4, <1>7 DEF HN!Reap
<1>8. CASE /\ kid[p].info = "running" /\ kid[p].code # "panic"
           /\ ~(h.attached /\ kid[p].exited = "running")
  <2> DEFINE m == h.missed \/ ~h.attached
  <2>1. /\ kid' = IF HN!Restarting(p)
                  THEN [kid EXCEPT ![p].life = "boot", ![p].exited = "running", ![p].code = "none"]
                  ELSE [kid EXCEPT ![p].life = "gone", ![p].info = "done"]
        /\ h' = [h EXCEPT !.missed = m]
    BY <1>8 DEF HN!Reap
  <2>2. m \in BOOLEAN /\ (h.missed => m)
    OBVIOUS
  <2> HIDE DEF m
  <2>3. h' \in Keeper /\ SameClock /\ h'.pc = h.pc /\ h'.next = h.next /\ h'.over = h.over /\ h'.missed = m
    BY <1>1, <2>1, <2>2 DEF Keeper, SameClock
  <2>4. CASE HN!Restarting(p)
    <3> DEFINE r == [kid[p] EXCEPT !.life = "boot", !.exited = "running", !.code = "none"]
    <3>1. kid' = [kid EXCEPT ![p] = r]
      BY <2>1, <2>4 DEF HInv, HarnessTypes
    <3>2. r \in Kid /\ r.life = "boot" /\ r.info = "running" /\ r.exited = "running"
      BY <1>1, <1>8 DEF Kid
    <3> HIDE DEF r
    <3>3. Fate(r, h'.missed)
      BY <3>2 DEF Fate
    <3> QED
      BY <1>1, <1>3, <1>8, <2>2, <2>3, <3>1, <3>2, <3>3, KidSteps
  <2>5. CASE ~HN!Restarting(p)
    <3> DEFINE r == [kid[p] EXCEPT !.life = "gone", !.info = "done"]
    <3>1. kid' = [kid EXCEPT ![p] = r]
      BY <2>1, <2>5 DEF HInv, HarnessTypes
    <3>2. /\ r \in Kid /\ r.life = "gone" /\ r.info = "done" /\ r.exited = kid[p].exited
          /\ r.left = kid[p].left
      BY <1>1 DEF Kid
    <3> HIDE DEF r
    <3>3. ~m => kid[p].exited = "exited"
      BY <1>1, <1>8, <2>5 DEF HN!Restarting, Kid, m
    <3>4. Fate(r, h'.missed)
      BY <1>1, <2>3, <3>2, <3>3 DEF Fate
    <3> QED
      BY <1>1, <1>3, <1>8, <2>2, <2>3, <3>1, <3>2, <3>4, KidSteps
  <2> QED
    BY <2>4, <2>5
<1> QED
  BY <1>5, <1>6, <1>7, <1>8

LEMMA HarnessInterrupt ==
  ASSUME HarnessFit, HInv, HN!Interrupt
  PROVE  HInv'
<1>1. h \in Keeper /\ kid \in [HN!Procs -> Kid] /\ HN!Going /\ h.over = "no"
  BY DEF HInv, HarnessTypes, HN!Interrupt, HN!Main, HN!Going
<1>2. CASE h.term # "ok"
  <2>1. h' = [h EXCEPT !.over = "killed"] /\ kid' = HN!Dead("killed")
    BY <1>2 DEF HN!Interrupt
  <2>2. kid' = kid => \A p \in HN!Procs : ~HN!Alive(p)
    BY <2>1, DeadAre DEF HN!Alive
  <2>3. "killed" \in Whys
    BY DEF Whys
  <2> QED
    BY <1>1, <2>1, <2>2, <2>3, OverSteps
<1>3. CASE h.term = "ok"
  <2> DEFINE hit(p) == HN!Alive(p) /\ kid[p].info = "running"
             z(p) == [kid[p] EXCEPT !.life = "zombie", !.code = "killed"]
             pending == h.pending \/ \E p \in HN!Procs : hit(p)
  <2>1. /\ kid' = [p \in HN!Procs |-> IF hit(p) THEN z(p) ELSE kid[p]]
        /\ h' = [h EXCEPT !.term = "graceful", !.trouble = h.trouble + 1, !.interrupted = TRUE, !.pending = pending]
    BY <1>3 DEF HN!Interrupt
  <2>2. h.trouble + 1 \in Nat /\ pending \in BOOLEAN
    BY <1>1, KeeperFields
  <2> HIDE DEF pending
  <2>3. /\ h' \in Keeper /\ SameClock /\ h'.pc = h.pc /\ h'.next = h.next /\ h'.over = "no"
        /\ h'.missed = h.missed
    BY <1>1, <2>1, <2>2 DEF Keeper, SameClock
  <2>4. ASSUME NEW p \in HN!Procs
        PROVE  /\ kid'[p] \in Kid /\ kid'[p].info = kid[p].info /\ kid'[p].exited = kid[p].exited
               /\ kid'[p].left = kid[p].left
               /\ \/ kid'[p].life = kid[p].life
                  \/ kid'[p].life = "zombie" /\ kid[p].life \in {"boot", "run", "ending"}
    <3>1. kid[p] \in Kid
      BY <1>1
    <3>2. /\ z(p) \in Kid /\ z(p).life = "zombie" /\ z(p).info = kid[p].info
          /\ z(p).exited = kid[p].exited /\ z(p).left = kid[p].left
      BY <3>1 DEF Kid
    <3>3. kid'[p] = IF hit(p) THEN z(p) ELSE kid[p]
      BY <2>1
    <3> HIDE DEF z
    <3>4. CASE hit(p)
      BY <3>2, <3>3, <3>4 DEF HN!Alive
    <3>5. CASE ~hit(p)
      <4> HIDE DEF hit
      <4> QED
        BY <3>1, <3>3, <3>5
    <3> QED
      BY <3>4, <3>5
  <2>5. kid' \in [HN!Procs -> Kid]
    BY <2>1, <2>4
  <2>6. Fates'
    BY <2>3, <2>4 DEF HInv, Fates, Fate
  <2>7. Launches'
    <3>1. \A p \in HN!Procs : kid'[p].life = "none" <=> kid[p].life = "none"
      BY <2>4
    <3>2. h.pc = "record" => h.next \in HN!Procs
      BY <1>1, KeeperFields DEF HInv, Launches, HN!Procs, HarnessFit
    <3>3. h.pc = "record" => kid'[h.next].life # "gone"
      BY <1>1, <2>4, <3>2 DEF HInv, Launches
    <3> QED
      BY <1>1, <2>3, <3>1, <3>3 DEF HInv, Launches, HN!Going
  <2>8. Stalls'
    BY <2>3, StallsStay DEF HInv
  <2>9. HN!HarnessExact'
    <3>1. HN!ChildrenKnown'
      BY <1>1, <2>3, <2>4 DEF HInv, HN!HarnessExact, HN!ChildrenKnown, HN!Going
    <3> QED
      BY <2>3, <3>1 DEF HN!HarnessExact, HN!DoneIsDone, HN!DeadlockReal, HN!NoStrays, HN!Going
  <2> QED
    BY <2>3, <2>5, <2>6, <2>7, <2>8, <2>9 DEF HInv, HarnessTypes
<1> QED
  BY <1>2, <1>3

LEMMA HarnessNext ==
  ASSUME HarnessFit, HInv, [HN!Next]_HN!vars
  PROVE  HInv'
<1>1. CASE HN!Next
  <2>1. ASSUME NEW p \in HN!Procs, HN!ProcStep(p) \/ HN!Hang(p) \/ HN!ReapInLoop(p) \/ HN!Reap(p)
        PROVE  HInv'
    BY <2>1, HarnessBoot, HarnessEnd, HarnessExit, HarnessHang, HarnessReapInLoop, HarnessReap DEF HN!ProcStep
  <2>2. ASSUME NEW p \in HN!Procs, NEW code \in {"panic", "killed"}, HN!Crash(p, code) PROVE HInv'
    BY <2>2, HarnessCrash
  <2>3. ASSUME NEW k \in {0, 1}, HN!Sleep(k) PROVE HInv'
    BY <2>3, HarnessSleep
  <2>4. CASE HN!Phase \/ HN!Toggle \/ HN!Fork \/ HN!Record \/ HN!Test \/ HN!Look \/ HN!Judge
    BY <2>4, HarnessPhase, HarnessToggle, HarnessForks, HarnessRecords, HarnessTest, HarnessLook, HarnessJudge
  <2>5. CASE HN!Handler \/ HN!Return \/ HN!Interrupt
    BY <2>5, HarnessHandler, HarnessInterrupt
  <2> QED
    BY <1>1, <2>1, <2>2, <2>3, <2>4, <2>5 DEF HN!Next, HN!MainStep, HN!HandlerStep
<1>2. CASE UNCHANGED HN!vars
  <2>1. h' = h /\ kid' = kid
    BY <1>2 DEF HN!vars
  <2> QED
    BY <2>1 DEF HInv, HarnessTypes, Launches, Fates, Stalls, HN!HarnessExact, HN!ChildrenKnown,
                HN!DoneIsDone, HN!DeadlockReal, HN!NoStrays, HN!Going, HN!Alive
<1> QED
  BY <1>1, <1>2

(* The harness knows its children but while it launches one, whatever      *)
(* signals and reaping cross; it says that all are done only when they are *)
(* (unless it reaped one without looking), kills them as deadlocked only   *)
(* when no phase has passed for the limit, and leaves nobody behind, for   *)
(* any number of processes, restarts and any limit.                        *)
THEOREM HarnessIsExact ==
  ASSUME HarnessFit
  PROVE  HN!Init /\ [][HN!Next]_HN!vars => []HN!HarnessExact
<1>1. HN!Init => HInv
  BY HarnessInit
<1>2. HInv /\ [HN!Next]_HN!vars => HInv'
  BY HarnessNext
<1>3. HInv => HN!HarnessExact
  BY DEF HInv
<1> QED
  BY <1>1, <1>2, <1>3, PTL

-----------------------------------------------------------------------------
(* The virtual ports of the processes' domains.                            *)
CONSTANTS Sockets, Ports, DomainOf
VARIABLES pv, sk

PO == INSTANCE Ports

PortsFit == Ports \subseteq Nat \ {0} /\ -1 \notin Sockets

Socket == [st : {"open", "bind", "bound"}, virt : Ports \cup {PO!None, PO!Any},
           real : Ports \cup {PO!None}, asks : Ports \cup {PO!None, PO!Any}]
Table == [realToVirt : [Ports -> Ports \cup {PO!None}], virtToReal : [Ports -> Ports \cup {PO!None}],
          lock : Sockets \cup {PO!None}]
PortTypes ==
  pv \in [PO!Domains -> Table] /\ sk \in [s : [Sockets -> Socket], seen : SUBSET {"name", "connect"}]

(* Who binds holds the lock of its domain, and asks for the translation    *)
(* there is; who is bound under a number of its own is found both ways.    *)
Binding(s) ==
  sk.s[s].st = "bind" =>
    /\ pv[DomainOf[s]].lock = s /\ sk.s[s].virt \in Ports
    /\ sk.s[s].asks = LET r == pv[DomainOf[s]].virtToReal[sk.s[s].virt] IN IF r = PO!None THEN PO!Any ELSE r
Found(s) ==
  sk.s[s].st = "bound" =>
    /\ sk.s[s].real \in Ports /\ sk.s[s].virt # PO!None
    /\ sk.s[s].virt # PO!Any =>
         /\ pv[DomainOf[s]].virtToReal[sk.s[s].virt] = sk.s[s].real
         /\ pv[DomainOf[s]].realToVirt[sk.s[s].real] = sk.s[s].virt
(* And no real port is bound twice.                                        *)
RealApart(s, t) ==
  sk.s[s].st = "bound" /\ sk.s[t].st = "bound" /\ s # t => sk.s[s].real # sk.s[t].real
PortInv ==
  /\ PortTypes /\ PO!NamesRight
  /\ \A s \in Sockets : Binding(s) /\ Found(s) /\ \A t \in Sockets : RealApart(s, t)

LEMMA PortsInit ==
  ASSUME PortsFit, PO!Init
  PROVE  PortInv
<1>1. PO!Fresh \in Socket /\ PO!Fresh.st = "open"
  BY DEF PO!Fresh, Socket
<1>2. PortTypes
  BY <1>1 DEF PO!Init, PortTypes, Table
<1>3. \A s \in Sockets : sk.s[s].st = "open"
  BY <1>1 DEF PO!Init
<1>4. PO!NamesRight
  BY DEF PO!Init, PO!NamesRight
<1> QED
  BY <1>2, <1>3, <1>4 DEF PortInv, Binding, Found, RealApart

(* One socket changes, and its domain's table d, if it holds the lock.     *)
LEMMA SocketSteps ==
  ASSUME PortsFit, PortInv, NEW s \in Sockets, NEW x \in Socket, NEW d \in Table,
         pv' = [pv EXCEPT ![DomainOf[s]] = d],
         sk' = [sk EXCEPT !.s = [sk.s EXCEPT ![s] = x]],
         Binding(s)', Found(s)', \A t \in Sockets : t # s => RealApart(s, t)' /\ RealApart(t, s)',
         d # pv[DomainOf[s]] =>
           /\ \A t \in Sockets : t # s /\ sk.s[t].st = "bind" => DomainOf[t] # DomainOf[s]
           /\ \A t \in Sockets : t # s /\ DomainOf[t] = DomainOf[s] => Found(t)'
  PROVE  PortInv'
<1>1. pv \in [PO!Domains -> Table] /\ sk.s \in [Sockets -> Socket] /\ DomainOf[s] \in PO!Domains
  BY DEF PortInv, PortTypes, PO!Domains
<1> DEFINE f == [sk.s EXCEPT ![s] = x]
<1>2. f \in [Sockets -> Socket] /\ f[s] = x /\ \A t \in Sockets \ {s} : f[t] = sk.s[t]
  BY <1>1
<1>3. sk' = [sk EXCEPT !.s = f]
  OBVIOUS
<1> HIDE DEF f
<1>4. sk' \in [s : [Sockets -> Socket], seen : SUBSET {"name", "connect"}] /\ sk'.s = f /\ sk'.seen = sk.seen
  BY <1>2, <1>3 DEF PortInv, PortTypes
<1>5. PortTypes'
  BY <1>1, <1>4 DEF PortTypes
<1>6. /\ \A t \in Sockets : DomainOf[t] \in PO!Domains
      /\ pv'[DomainOf[s]] = d
      /\ \A e \in PO!Domains \ {DomainOf[s]} : pv'[e] = pv[e]
  BY <1>1 DEF PO!Domains
<1>7. ASSUME NEW t \in Sockets, t # s PROVE Binding(t)' /\ Found(t)'
  <2>1. sk'.s[t] = sk.s[t]
    BY <1>2, <1>4, <1>7
  <2>2. Binding(t) /\ Found(t)
    BY DEF PortInv
  <2>3. CASE pv'[DomainOf[t]] = pv[DomainOf[t]]
    BY <2>1, <2>2, <2>3 DEF Binding, Found
  <2>4. CASE pv'[DomainOf[t]] # pv[DomainOf[t]]
    <3>1. DomainOf[t] = DomainOf[s] /\ d # pv[DomainOf[s]]
      BY <1>6, <2>4
    <3> QED
      BY <1>7, <2>1, <3>1 DEF Binding
  <2> QED
    BY <2>3, <2>4
<1>8. \A t, u \in Sockets : RealApart(t, u)'
  <2>1. \A t, u \in Sockets : t # s /\ u # s => RealApart(t, u)'
    BY <1>2, <1>4 DEF PortInv, RealApart
  <2> QED
    BY <2>1 DEF RealApart
<1>9. PO!NamesRight'
  BY <1>4 DEF PortInv, PO!NamesRight
<1> QED
  BY <1>5, <1>7, <1>8, <1>9 DEF PortInv

LEMMA PreBindKeeps ==
  ASSUME PortsFit, PortInv, NEW s \in Sockets, NEW v \in Ports, PO!PreBind(s, v)
  PROVE  PortInv'
<1> DEFINE e == DomainOf[s]
           d == [pv[e] EXCEPT !.lock = s]
           r == pv[e].virtToReal[v]
           asks == IF r = PO!None THEN PO!Any ELSE r
           x == [sk.s[s] EXCEPT !.st = "bind", !.virt = v, !.asks = asks]
<1>1. /\ pv \in [PO!Domains -> Table] /\ sk.s \in [Sockets -> Socket] /\ e \in PO!Domains
      /\ pv[e] \in Table /\ sk.s[s] \in Socket /\ pv[e].lock = PO!None
  BY DEF PortInv, PortTypes, PO!Domains, PO!PreBind, PO!Unlocked
<1>2. /\ d \in Table /\ d.lock = s /\ d.virtToReal = pv[e].virtToReal /\ d.realToVirt = pv[e].realToVirt
      /\ r \in Ports \cup {PO!None}
  BY <1>1 DEF Table
<1>3. asks \in Ports \cup {PO!Any}
  BY <1>2
<1>4. x \in Socket /\ x.st = "bind" /\ x.virt = v /\ x.asks = asks
  <2> HIDE DEF asks
  <2> QED
    BY <1>1, <1>3 DEF Socket
<1>5. pv' = [pv EXCEPT ![e] = d] /\ sk' = [sk EXCEPT !.s = [sk.s EXCEPT ![s] = x]]
  BY <1>1 DEF PO!PreBind, PO!LookupReal, PortInv, PortTypes
<1> HIDE DEF d, x
<1>6. /\ pv'[e] = d /\ sk'.s[s] = x /\ \A t \in Sockets \ {s} : sk'.s[t] = sk.s[t]
  BY <1>1, <1>5 DEF PortInv, PortTypes
<1>7. Binding(s)' /\ Found(s)'
  BY <1>2, <1>4, <1>6 DEF Binding, Found
<1>8. \A t \in Sockets : RealApart(s, t)' /\ RealApart(t, s)'
  BY <1>4, <1>6 DEF RealApart
<1>9. \A t \in Sockets : sk.s[t].st = "bind" => DomainOf[t] # e
  BY <1>1 DEF PortInv, Binding, PO!None, PortsFit
<1>10. \A t \in Sockets : t # s /\ DomainOf[t] = e => Found(t)'
  BY <1>2, <1>6 DEF PortInv, Found
<1> QED
  BY <1>2, <1>4, <1>5, <1>7, <1>8, <1>9, <1>10, SocketSteps

LEMMA PostBindKeeps ==
  ASSUME PortsFit, PortInv, NEW s \in Sockets, PO!PostBind(s)
  PROVE  PortInv'
<1> DEFINE e == DomainOf[s]
           v == sk.s[s].virt
           asks == sk.s[s].asks
<1>1. /\ pv \in [PO!Domains -> Table] /\ sk.s \in [Sockets -> Socket] /\ e \in PO!Domains
      /\ pv[e] \in Table /\ sk.s[s] \in Socket /\ sk.s[s].st = "bind"
  BY DEF PortInv, PortTypes, PO!Domains, PO!PostBind
<1>2. /\ pv[e].lock = s /\ v \in Ports
      /\ asks = LET r == pv[e].virtToReal[v] IN IF r = PO!None THEN PO!Any ELSE r
  BY <1>1 DEF PortInv, Binding
<1>3. \A t \in Sockets : t # s /\ sk.s[t].st = "bind" => DomainOf[t] # e
  BY <1>2 DEF PortInv, Binding
<1>4. CASE /\ pv' = [pv EXCEPT ![e].lock = PO!None]
           /\ sk' = [sk EXCEPT !.s[s] = PO!Fresh]
  <2> DEFINE d == [pv[e] EXCEPT !.lock = PO!None]
  <2>1. /\ d \in Table /\ d.virtToReal = pv[e].virtToReal /\ d.realToVirt = pv[e].realToVirt
    BY <1>1 DEF Table
  <2>2. PO!Fresh \in Socket /\ PO!Fresh.st = "open"
    BY DEF PO!Fresh, Socket
  <2>3. pv' = [pv EXCEPT ![e] = d] /\ sk' = [sk EXCEPT !.s = [sk.s EXCEPT ![s] = PO!Fresh]]
    BY <1>1, <1>4 DEF PortInv, PortTypes
  <2> HIDE DEF d
  <2>4. pv'[e] = d /\ sk'.s[s] = PO!Fresh /\ \A t \in Sockets \ {s} : sk'.s[t] = sk.s[t]
    BY <1>1, <2>3 DEF PortInv, PortTypes
  <2>5. Binding(s)' /\ Found(s)' /\ \A t \in Sockets : RealApart(s, t)' /\ RealApart(t, s)'
    BY <2>2, <2>4 DEF Binding, Found, RealApart
  <2>6. \A t \in Sockets : t # s /\ DomainOf[t] = e => Found(t)'
    BY <2>1, <2>4 DEF PortInv, Found
  <2> QED
    BY <1>3, <2>1, <2>2, <2>3, <2>5, <2>6, SocketSteps
<1>5. ASSUME NEW r \in Ports \ PO!Taken, asks = PO!Any \/ asks = r,
             pv' = [pv EXCEPT ![e] = [PO!RegisterBind(e, v, r) EXCEPT !.lock = PO!None]],
             sk' = [sk EXCEPT !.s[s] = [sk.s[s] EXCEPT !.st = "bound", !.real = r, !.asks = PO!None]]
      PROVE  PortInv'
  <2> DEFINE d == [PO!RegisterBind(e, v, r) EXCEPT !.lock = PO!None]
             x == [sk.s[s] EXCEPT !.st = "bound", !.real = r, !.asks = PO!None]
  <2>1. /\ d \in Table /\ d.virtToReal = [pv[e].virtToReal EXCEPT ![v] = r]
        /\ d.realToVirt = [pv[e].realToVirt EXCEPT ![r] = v]
    <3> DEFINE a == [pv[e].virtToReal EXCEPT ![v] = r]
               b == [pv[e].realToVirt EXCEPT ![r] = v]
    <3>1. a \in [Ports -> Ports \cup {PO!None}] /\ b \in [Ports -> Ports \cup {PO!None}]
      BY <1>1, <1>2 DEF Table
    <3>2. d = [pv[e] EXCEPT !.realToVirt = b, !.virtToReal = a, !.lock = PO!None]
      BY <1>1 DEF PO!RegisterBind, Table
    <3> HIDE DEF a, b, d
    <3>3. d \in Table /\ d.virtToReal = a /\ d.realToVirt = b
      BY <1>1, <3>1, <3>2 DEF Table
    <3> QED
      BY <3>3 DEF a, b
  <2>2. x \in Socket /\ x.st = "bound" /\ x.real = r /\ x.virt = v
    BY <1>1 DEF Socket
  <2>3. pv' = [pv EXCEPT ![e] = d] /\ sk' = [sk EXCEPT !.s = [sk.s EXCEPT ![s] = x]]
    BY <1>1, <1>5 DEF PortInv, PortTypes
  <2> HIDE DEF d, x
  <2>4. pv'[e] = d /\ sk'.s[s] = x /\ \A t \in Sockets \ {s} : sk'.s[t] = sk.s[t]
    BY <1>1, <2>3 DEF PortInv, PortTypes
  <2>5. \A t \in Sockets : sk.s[t].st = "bound" => sk.s[t].real # r
    BY DEF PO!Taken, PO!Bound
  <2>6. pv[e].virtToReal \in [Ports -> Ports \cup {PO!None}] /\ pv[e].realToVirt \in [Ports -> Ports \cup {PO!None}]
    BY <1>1 DEF Table
  <2>7. Binding(s)' /\ Found(s)'
    <3>1. v # PO!None
      BY <1>2 DEF PortsFit, PO!None
    <3> QED
      BY <1>2, <2>1, <2>2, <2>4, <2>6, <3>1 DEF Binding, Found
  <2>8. \A t \in Sockets : t # s => RealApart(s, t)' /\ RealApart(t, s)'
    BY <2>2, <2>4, <2>5 DEF RealApart
  <2>9. ASSUME NEW t \in Sockets, t # s, DomainOf[t] = e PROVE Found(t)'
    <3>1. sk'.s[t] = sk.s[t] /\ Found(t)
      BY <2>4, <2>9 DEF PortInv
    <3>2. CASE sk.s[t].st = "bound" /\ sk.s[t].virt # PO!Any
      <4> DEFINE w == sk.s[t].virt
                 q == sk.s[t].real
      <4>1. pv[e].virtToReal[w] = q /\ pv[e].realToVirt[q] = w /\ q \in Ports /\ w # PO!None /\ w # PO!Any
        BY <2>9, <3>1, <3>2 DEF Found
      <4>2. w \in Ports
        BY <4>1 DEF PortInv, PortTypes, Socket
      <4>3. q # r
        BY <2>5, <3>2
      <4>4. w # v
        <5>1. SUFFICES ASSUME w = v PROVE FALSE
          OBVIOUS
        <5>2. q # PO!None /\ q # PO!Any
          BY <4>1 DEF PortsFit, PO!None, PO!Any
        <5>3. asks = q
          BY <1>2, <4>1, <5>1, <5>2
        <5> QED
          BY <1>5, <4>3, <5>2, <5>3
      <4>5. d.virtToReal[w] = q /\ d.realToVirt[q] = w
        BY <2>1, <2>6, <4>1, <4>2, <4>3, <4>4
      <4> QED
        BY <2>4, <2>9, <3>1, <4>1, <4>5 DEF Found
    <3>3. CASE ~(sk.s[t].st = "bound" /\ sk.s[t].virt # PO!Any)
      BY <3>1, <3>3 DEF Found
    <3> QED
      BY <3>2, <3>3
  <2> QED
    BY <1>3, <2>1, <2>2, <2>3, <2>7, <2>8, <2>9, SocketSteps
<1>6. ASSUME NEW r \in (IF asks = PO!Any THEN Ports \ PO!Taken ELSE {asks} \ PO!Taken),
             pv' = [pv EXCEPT ![e] = [PO!RegisterBind(e, v, r) EXCEPT !.lock = PO!None]],
             sk' = [sk EXCEPT !.s[s] = [sk.s[s] EXCEPT !.st = "bound", !.real = r, !.asks = PO!None]]
      PROVE  PortInv'
  <2>1. asks \in Ports \cup {PO!Any}
    BY <1>1, <1>2 DEF Table
  <2>2. r \in Ports \ PO!Taken /\ (asks = PO!Any \/ asks = r)
    BY <1>6, <2>1
  <2> QED
    BY <1>5, <1>6, <2>2
<1> QED
  BY <1>4, <1>6 DEF PO!PostBind

LEMMA BindAnyKeeps ==
  ASSUME PortsFit, PortInv, NEW s \in Sockets, PO!BindAny(s)
  PROVE  PortInv'
<1>1. /\ pv \in [PO!Domains -> Table] /\ DomainOf[s] \in PO!Domains /\ pv[DomainOf[s]] \in Table
      /\ sk.s \in [Sockets -> Socket]
  BY DEF PortInv, PortTypes, PO!Domains
<1>2. PICK r \in Ports \ PO!Taken :
        sk' = [sk EXCEPT !.s[s] = [PO!Fresh EXCEPT !.st = "bound", !.virt = PO!Any, !.real = r]]
  BY DEF PO!BindAny
<1> DEFINE x == [PO!Fresh EXCEPT !.st = "bound", !.virt = PO!Any, !.real = r]
<1>3. x \in Socket /\ x.st = "bound" /\ x.virt = PO!Any /\ x.real = r
  BY DEF PO!Fresh, Socket
<1>4. pv' = [pv EXCEPT ![DomainOf[s]] = pv[DomainOf[s]]] /\ sk' = [sk EXCEPT !.s = [sk.s EXCEPT ![s] = x]]
  BY <1>1, <1>2 DEF PO!BindAny, PortInv, PortTypes
<1> HIDE DEF x
<1>5. sk'.s[s] = x /\ \A t \in Sockets \ {s} : sk'.s[t] = sk.s[t]
  BY <1>1, <1>4 DEF PortInv, PortTypes
<1>6. \A t \in Sockets : sk.s[t].st = "bound" => sk.s[t].real # r
  BY DEF PO!Taken, PO!Bound
<1>7. Binding(s)' /\ Found(s)'
  BY <1>3, <1>5 DEF Binding, Found, PO!Any, PO!None
<1>8. \A t \in Sockets : t # s => RealApart(s, t)' /\ RealApart(t, s)'
  BY <1>3, <1>5, <1>6 DEF RealApart
<1> QED
  BY <1>1, <1>3, <1>4, <1>7, <1>8, SocketSteps

LEMMA CloseKeeps ==
  ASSUME PortsFit, PortInv, NEW s \in Sockets, PO!Close(s)
  PROVE  PortInv'
<1>1. /\ pv \in [PO!Domains -> Table] /\ DomainOf[s] \in PO!Domains /\ pv[DomainOf[s]] \in Table
      /\ sk.s \in [Sockets -> Socket]
  BY DEF PortInv, PortTypes, PO!Domains
<1>2. PO!Fresh \in Socket /\ PO!Fresh.st = "open"
  BY DEF PO!Fresh, Socket
<1>3. /\ pv' = [pv EXCEPT ![DomainOf[s]] = pv[DomainOf[s]]]
      /\ sk' = [sk EXCEPT !.s = [sk.s EXCEPT ![s] = PO!Fresh]]
  BY <1>1 DEF PO!Close, PortInv, PortTypes
<1>4. sk'.s[s] = PO!Fresh /\ \A t \in Sockets \ {s} : sk'.s[t] = sk.s[t]
  BY <1>1, <1>3 DEF PortInv, PortTypes
<1>5. Binding(s)' /\ Found(s)' /\ \A t \in Sockets : RealApart(s, t)' /\ RealApart(t, s)'
  BY <1>2, <1>4 DEF Binding, Found, RealApart
<1> QED
  BY <1>1, <1>2, <1>3, <1>5, SocketSteps

LEMMA AskKeeps ==
  ASSUME PortsFit, PortInv,
         \/ \E s \in Sockets : PO!PatchGetsockname(s)
         \/ \E d \in PO!Domains, v \in Ports : PO!PatchConnect(d, v)
  PROVE  PortInv'
<1>1. sk \in [s : [Sockets -> Socket], seen : SUBSET {"name", "connect"}] /\ sk.seen = {}
  BY DEF PortInv, PortTypes, PO!NamesRight
<1>2. ASSUME NEW s \in Sockets, PO!PatchGetsockname(s) PROVE sk'.seen = sk.seen /\ sk'.s = sk.s /\ sk' = sk
  <2>1. sk.s[s].virt \in {PO!Any, PO!NameOf(s)}
    <3>1. CASE sk.s[s].virt = PO!Any
      BY <3>1
    <3>2. CASE sk.s[s].virt # PO!Any
      <4>1. Found(s) /\ sk.s[s].st = "bound"
        BY <1>2 DEF PortInv, PO!PatchGetsockname, PO!Bound
      <4>2. /\ pv[DomainOf[s]].realToVirt[sk.s[s].real] = sk.s[s].virt /\ sk.s[s].virt # PO!None
        BY <3>2, <4>1 DEF Found
      <4> QED
        BY <4>2 DEF PO!NameOf, PO!LookupVirt
    <3> QED
      BY <3>1, <3>2
  <2> QED
    BY <1>1, <1>2, <2>1 DEF PO!PatchGetsockname
<1>3. ASSUME NEW d \in PO!Domains, NEW v \in Ports, PO!PatchConnect(d, v) PROVE sk' = sk
  <2>1. PICK s \in Sockets : PO!Bound(s) /\ DomainOf[s] = d /\ sk.s[s].virt = v
    BY <1>3 DEF PO!PatchConnect
  <2>2. pv[d].virtToReal[v] = sk.s[s].real /\ sk.s[s].real \in Ports
    BY <2>1 DEF PortInv, Found, PO!Bound, PortsFit, PO!Any
  <2>3. sk.s[s].real = PO!Target(d, v)
    BY <2>2 DEF PO!Target, PO!LookupReal, PortsFit, PO!None
  <2> QED
    BY <1>1, <1>3, <2>1, <2>3 DEF PO!PatchConnect
<1>4. sk' = sk /\ pv' = pv
  BY <1>2, <1>3 DEF PO!PatchGetsockname, PO!PatchConnect
<1> QED
  BY <1>4 DEF PortInv, PortTypes, PO!NamesRight, Binding, Found, RealApart

(* However ports are bound and closed, and by whom, a domain binds each of *)
(* its own port numbers once, and a bound socket keeps its number and is   *)
(* found under it, for any sockets, ports and domains.                     *)
THEOREM PortsAreExact ==
  ASSUME PortsFit
  PROVE  PO!Spec => []PO!PortsExact
<1>1. PO!Init => PortInv
  BY PortsInit
<1>2. PortInv /\ [PO!Next]_PO!vars => PortInv'
  <2>1. ASSUME PortInv, UNCHANGED PO!vars PROVE PortInv'
    <3>1. sk' = sk /\ pv' = pv
      BY <2>1 DEF PO!vars
    <3> QED
      BY <2>1, <3>1 DEF PortInv, PortTypes, PO!NamesRight, Binding, Found, RealApart
  <2> QED
    BY <2>1, PreBindKeeps, PostBindKeeps, BindAnyKeeps, CloseKeeps, AskKeeps DEF PO!Next
<1>3. PortInv => PO!PortsExact
  <2>1. ASSUME PortInv, NEW s \in Sockets, NEW t \in Sockets, s # t, PO!Bound(s), PO!Bound(t),
               DomainOf[s] = DomainOf[t], sk.s[s].virt # PO!Any
        PROVE  sk.s[s].virt # sk.s[t].virt
    BY <2>1 DEF PortInv, Found, RealApart, PO!Bound
  <2> QED
    BY <2>1 DEF PortInv, PO!PortsExact, PO!OnePerPort
<1> QED
  BY <1>1, <1>2, <1>3, PTL DEF PO!Spec

=============================================================================
