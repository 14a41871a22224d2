------------------------------- MODULE Statistics ------------------------------
(***************************************************************************)
(* Who did the work, and what of it is written down: process_stats.cpp,    *)
(* proc_stats.cpp and the dumps of hdf5_stats.cpp.  Work is counted by the *)
(* cores and charged to the process groups scheduled on them: lazily, by   *)
(* the first reader in a phase, and whenever a process leaves a core.      *)
(***************************************************************************)
EXTENDS Integers, SequencesExt

CONSTANTS Cores,                \* 1..n
          NumGroups, GroupOf,   \* the group of each process
          Kinds,                \* of backends: with vectors or without, compact or not
          RecordsPerWrite, MaxWork, MaxMoves, MaxPhases, MaxDumps

VARIABLES sim, st

vars == <<sim, st>>

Procs == DOMAIN GroupOf
Groups == 1 .. NumGroups
Idle == 0
NoGroup == NumGroups + 1     \* the last of maxProcs rows, for cores without a process
Backends == {"eventual", "periodic"}

(* charged and its neighbours are those of ProcessStats, rows and its      *)
(* neighbours those of ProcStats.  did, missed and taken are observations. *)
Init ==
  /\ sim = [on |-> [c \in Cores |-> Idle], instrs |-> [c \in Cores |-> 0], phase |-> 0,
            did |-> [g \in Groups |-> 0], moves |-> 0, missed |-> FALSE, over |-> FALSE]
  /\ st \in [kind : Kinds, charged : {[g \in Groups |-> 0]}, last : {[c \in Cores |-> 0]}, upd : {0},
             rows : {[g \in Groups \cup {NoGroup} |-> 0]}, lastBuf : {[c \in Cores |-> 0]}, rowsUpd : {0},
             data : {[b \in Backends |-> <<>>]}, ptr : {[b \in Backends |-> 0]},
             records : {[b \in Backends |-> 0]}, file : {[b \in Backends |-> <<>>]},
             taken : {[b \in Backends |-> <<>>]}, dumps : {0}]

-----------------------------------------------------------------------------
(* ProcessStats::updateCore()                                              *)
UpdateCore(s, c, p) ==
  [s EXCEPT !.charged[GroupOf[p]] = @ + sim.instrs[c] - s.last[c], !.last[c] = sim.instrs[c]]

(* ProcessStats::update(), by the first to read in a phase.                *)
Update(s) ==
  IF s.upd = sim.phase THEN s
  ELSE [FoldSet(LAMBDA c, t : IF sim.on[c] = Idle THEN t ELSE UpdateCore(t, c, sim.on[c]), s, Cores)
          EXCEPT !.upd = sim.phase]

(* ProcStats::update(): what the cores counted since the last time goes to *)
(* whoever is on them now.  First a fault: the buffers are not swapped.    *)
Row(c) == IF sim.on[c] = Idle THEN NoGroup ELSE GroupOf[sim.on[c]]
AddRows(s) ==
  [s EXCEPT !.rows = [g \in DOMAIN @ |->
      @[g] + SumFunctionOnSet([c \in Cores |-> sim.instrs[c] - s.lastBuf[c]], {c \in Cores : Row(c) = g})]]
UpdateRowsOnly(s) == IF s.rowsUpd = sim.phase THEN s ELSE [AddRows(s) EXCEPT !.rowsUpd = sim.phase]
UpdateRows(s) ==
  IF s.rowsUpd = sim.phase THEN s
  ELSE [AddRows(s) EXCEPT !.lastBuf = sim.instrs, !.rowsUpd = sim.phase]

-----------------------------------------------------------------------------
(* The tree of statistics: the cores' counters, the vector of the process  *)
(* groups, and the rows of ProcStats.                                      *)
Scalar(v) == [kind |-> "scalar", vals |-> <<v>>, of |-> <<>>]
Vector(v) == [kind |-> "vector", vals |-> v, of |-> <<>>]
Regular(of) == [kind |-> "regular", vals |-> <<>>, of |-> of]
Irregular(of) == [kind |-> "irregular", vals |-> <<>>, of |-> of]
Tree(s) ==
  Irregular(<<Regular([c \in Cores |-> Irregular(<<Scalar(sim.instrs[c])>>)]),
              Vector([g \in Groups |-> s.charged[g]]),
              Regular([g \in 1 .. NoGroup |-> Irregular(<<Scalar(s.rows[g])>>)])>>)

(* dumpWalk() writes at ptr.  Regular aggregates are added up in place of  *)
(* their first element; the others are written behind it and taken back.   *)
(* First a fault: they are not taken back.                                 *)
Put(w, v) ==
  [data |-> IF w.ptr < Len(w.data) THEN [w.data EXCEPT ![w.ptr + 1] = v] ELSE Append(w.data, v), ptr |-> w.ptr + 1]
Summed(w, from, to) ==
  [i \in DOMAIN w.data |-> IF i \in from + 1 .. to THEN w.data[i] + w.data[i + to - from] ELSE w.data[i]]
AddUpOnly(w, from, to) == [w EXCEPT !.data = Summed(w, from, to)]
AddUp(w, from, to) == [data |-> Summed(w, from, to), ptr |-> to]

RECURSIVE DumpWalk(_, _, _, _)
DumpWalk(s, w, skip, sum) ==
  LET walk(v, c) == DumpWalk(c, v, skip, sum)
  IN CASE s.kind = "scalar" -> FoldLeft(Put, w, s.vals)
       [] s.kind = "vector" -> IF skip THEN w ELSE FoldLeft(Put, w, s.vals)
       [] s.kind = "regular" /\ sum ->
            LET first == walk(w, s.of[1])
            IN FoldLeft(LAMBDA v, c : AddUp(walk(v, c), w.ptr, first.ptr), first, Tail(s.of))
       [] OTHER -> FoldLeft(walk, w, s.of)

(* A record has the size of the type of the tree: getH5Type().             *)
Sums(b) == b = "periodic" /\ st.kind.compact
RECURSIVE TypeSize(_, _, _)
TypeSize(s, skip, sum) ==
  LET size(n, c) == n + TypeSize(c, skip, sum)
  IN CASE s.kind = "vector" /\ skip -> 0
       [] s.kind = "regular" /\ sum -> TypeSize(s.of[1], skip, sum)
       [] OTHER -> FoldLeft(size, Len(s.vals), s.of)
RecordSize(b) == TypeSize(Tree(st), st.kind.skipVectors, Sums(b))

(* dump(): one more record in the buffer, which goes to the file when it   *)
(* is full or at once.  Reading the statistics brings them up to date.     *)
(* First a fault: the buffer is written and not rewound.                   *)
ToFile(s, b) == [s EXCEPT !.file[b] = @ \o SubSeq(s.data[b], 1, s.records[b] * RecordSize(b)), !.records[b] = 0]
WrittenOnly(s, b) == ToFile(s, b)
Written(s, b) == [ToFile(s, b) EXCEPT !.ptr[b] = 0]
Fresh(s) == UpdateRows(IF st.kind.skipVectors THEN s ELSE Update(s))
Dump(s, b, buffered) ==
  LET w == DumpWalk(Tree(s), [data |-> s.data[b], ptr |-> s.ptr[b]], s.kind.skipVectors, Sums(b))
      t == [s EXCEPT !.data[b] = w.data, !.ptr[b] = w.ptr, !.records[b] = @ + 1, !.dumps = @ + 1,
                     !.taken[b] = @ \o SubSeq(w.data, s.ptr[b] + 1, w.ptr)]
  IN IF t.records[b] = RecordsPerWrite \/ ~buffered THEN Written(t, b) ELSE t

-----------------------------------------------------------------------------
Work(c) ==
  /\ sim.on[c] # Idle /\ SumFunction(sim.instrs) < MaxWork
  /\ sim' = [sim EXCEPT !.instrs[c] = @ + 1, !.did[GroupOf[sim.on[c]]] = @ + 1]
  /\ UNCHANGED st

Schedule(c, p) ==
  /\ sim.on[c] = Idle /\ sim.moves < MaxMoves
  /\ sim' = [sim EXCEPT !.on[c] = p, !.moves = @ + 1]
  /\ UNCHANGED st

(* deschedule(): ProcStats hears of it first, if it listens.  The second   *)
(* to leave in a phase is missed.  First a fault: ProcessStats does not.   *)
LeavesOnly(s, c) == UpdateRows(s)
Leaves(s, c) == UpdateCore(UpdateRows(s), c, sim.on[c])
Deschedule(c) ==
  /\ sim.on[c] # Idle
  /\ sim' = [sim EXCEPT !.on[c] = Idle, !.missed = @ \/ (st.rowsUpd = sim.phase /\ st.lastBuf # sim.instrs)]
  /\ st' = Leaves(st, c)

(* The end of a phase, with or without the dump of an event.               *)
EndPhase ==
  /\ sim.phase < MaxPhases
  /\ sim' = [sim EXCEPT !.phase = @ + 1]
  /\ \/ st' = st
     \/ st.dumps < MaxDumps /\ st' = Dump(Fresh(st), "eventual", TRUE)

(* A slice ends in the midst of a phase; the simulation ends.              *)
Slice ==
  /\ st.dumps < MaxDumps /\ \E c \in Cores : sim.on[c] # Idle
  /\ st' = Dump(Fresh(st), "periodic", FALSE)
  /\ UNCHANGED sim

SimEnd ==
  /\ \A c \in Cores : sim.on[c] = Idle
  /\ sim' = [sim EXCEPT !.over = TRUE]
  /\ st' = Dump(Fresh(st), "eventual", FALSE)

Next ==
  /\ ~sim.over
  /\ \/ \E c \in Cores : Work(c) \/ Deschedule(c)
     \/ \E c \in Cores, p \in Procs : Schedule(c, p)
     \/ EndPhase
     \/ Slice
     \/ SimEnd

Spec == Init /\ [][Next]_vars

-----------------------------------------------------------------------------
(* No work is lost or charged twice, whoever leaves a core when and        *)
(* whatever is read in between: what a group was charged and what its      *)
(* cores still owe it are what it did.                                     *)
Charged ==
  \A g \in Groups :
    LET owing == {c \in Cores : sim.on[c] # Idle /\ Row(c) = g}
    IN st.charged[g] + SumFunctionOnSet([c \in Cores |-> sim.instrs[c] - st.last[c]], owing) = sim.did[g]

(* ProcStats' rows add up to what it took from the cores; and they are     *)
(* right about every group as long as no departure was missed.             *)
RowsAddUp ==
  /\ SumFunction(st.rows) = SumFunction(st.lastBuf)
  /\ ~sim.missed =>
       \A g \in Groups :
         LET owing == {c \in Cores : Row(c) = g}
         IN st.rows[g] + SumFunctionOnSet([c \in Cores |-> sim.instrs[c] - st.lastBuf[c]], owing) = sim.did[g]

(* Every record is written once, in order, whole, and in the room there is.*)
RecordsKept ==
  \A b \in Backends :
    /\ st.file[b] \o SubSeq(st.data[b], 1, st.ptr[b]) = st.taken[b]
    /\ \E n \in {RecordSize(b)} :
         /\ st.ptr[b] = st.records[b] * n
         /\ Len(st.data[b]) <= n * (RecordsPerWrite + IF Sums(b) THEN 1 ELSE 0)
    /\ sim.over => st.ptr["eventual"] = 0

StatisticsExact == Charged /\ RowsAddUp /\ RecordsKept

================================================================================
