------------------------------- MODULE DDRMemory -------------------------------
(***************************************************************************)
(* The DDR memory controller in the weave phase (ddr_mem.cpp): requests    *)
(* wait in queues by arrival and by bank (FR-FCFS); a scheduling event     *)
(* runs at the first cycle at which one may be issued, and the cycles of   *)
(* the commands to the banks are worked out then, some in the past.        *)
(*                                                                         *)
(* Events run on system cycles and the controller on memory cycles.  One   *)
(* rank.  Requests arrive in the order of time, as the contention          *)
(* simulation runs events.  An event that is not the next one has been     *)
(* annulled and does nothing.                                              *)
(***************************************************************************)
EXTENDS Integers, FiniteSets, SequencesExt, MemClock

CONSTANTS Banks,
          Reqs,         \* [bank, row, write]
          Kinds,        \* [deferredWrites, closedPage : BOOLEAN]
          QueueDepth, RowHitLimit,
          Window,       \* activations in tFAW (four; tTAW has two)
          T,            \* the parameters tBL, tCL, ... in memory cycles
          Gaps,         \* bound: cycles from an event to the next arrival
          MaxReqs       \* bound: requests and refreshes

VARIABLES mc,   \* the controller, see Init
          log   \* what it has done, for the properties: the commands and
                \* refreshes in the order of issue, and a failed assertion

vars == <<mc, log>>

Never == 1000000  \* -1ul

Bank == [open |-> FALSE, openRow |-> 0, minPre |-> 0, lastAct |-> 0, lastCmd |-> 0, hits |-> 0,
         rd |-> <<>>, wr |-> <<>>]

(* The circular buffer of the rank's last activations.                     *)
ActWindow == [buf |-> [i \in 0..(Window - 1) |-> 0], idx |-> 0]
minActCycle(w) == w.buf[w.idx]

(* From cur back, the later ones move over the oldest.  One earlier than   *)
(* all of them goes round to idx, and the latest is then the first.        *)
RECURSIVE Shifted(_, _, _, _)
Shifted(buf, idx, cur, act) ==
  LET dec == (cur - 1) % Window
      moved == [buf EXCEPT ![cur] = buf[dec]]
  IN IF buf[dec] <= act THEN [buf EXCEPT ![cur] = act]
     ELSE IF dec = idx THEN [moved EXCEPT ![idx] = act]
     ELSE Shifted(moved, idx, dec, act)
addActivation(w, act) ==
  [buf |-> Shifted(w.buf, w.idx, w.idx, act), idx |-> (w.idx + 1) % Window]

Init ==
  /\ \E k \in Kinds :
       mc = [kind |-> k, now |-> 0, minResp |-> T.tCL + T.tBL + 1, lastWrite |-> FALSE,
             bank |-> [b \in Banks |-> Bank], acts |-> ActWindow,
             rdQ |-> <<>>, wrQ |-> <<>>, ovf |-> <<>>, next |-> Never, at |-> Never, n |-> 0]
  /\ log = [cmds |-> <<>>, resp |-> {}, fail |-> FALSE]

(* A request: id, bank, row, write, arrival; seq is its rowHitSeq.         *)
-----------------------------------------------------------------------------
(* Per-bank queues.                                                        *)

Deferred(r) == mc.kind.deferredWrites /\ r.write
ListOf(s, r) == IF Deferred(r) THEN s.bank[r.bank].wr ELSE s.bank[r.bank].rd
WithList(s, r, q) ==
  IF Deferred(r) THEN [s EXCEPT !.bank[r.bank].wr = q] ELSE [s EXCEPT !.bank[r.bank].rd = q]

(* Put a request in its bank's list: after the last one of its row, unless *)
(* the row has had its share; to the front if the row is open and nobody   *)
(* waits; last otherwise.  A write is answered now.                        *)
queue(s, r) ==
  LET q == ListOf(s, r)
      bank == s.bank[r.bank]
      same == {i \in DOMAIN q : q[i].row = r.row}
      m == Max(same)
      hit == bank.open /\ r.row = bank.openRow /\ bank.hits < RowHitLimit /\ q = <<>>
  IN WithList(s, r,
       IF same # {} /\ q[m].seq < RowHitLimit
       THEN InsertAt(q, m + 1, [r EXCEPT !.seq = q[m].seq + 1])
       ELSE Append(q, [r EXCEPT !.seq = IF same = {} /\ hit THEN bank.hits + 1 ELSE 0]))

First(s, r) == ListOf(s, r) # <<>> /\ Head(ListOf(s, r)).id = r.id

(* The cycles of the row's precharge and activation for r.                 *)
preCycle(bank, r) == IF bank.open THEN Max({r.arrival, bank.minPre}) ELSE bank.minPre
actCycle(s, bank, r) ==
  Max({r.arrival, preCycle(bank, r) + T.tRP, bank.lastAct + T.tRRD, minActCycle(s.acts) + T.tFAW})
rowHit(bank, r) == bank.open /\ r.row = bank.openRow

findMinCmdCycle(s, r) ==
  LET bank == s.bank[r.bank]
      min == Max({r.arrival, bank.lastCmd + 1})
  IN IF rowHit(bank, r) THEN min ELSE Max({min, actCycle(s, bank, r) + T.tRCD})

-----------------------------------------------------------------------------
(* trySchedule: at most one command.  Returns the controller, the cycle to *)
(* look again, and the command, if any.                                    *)

prioWrites(s) ==
  \/ Len(s.wrQ) > (3 * QueueDepth) \div 4
  \/ s.lastWrite /\ Len(s.wrQ) > QueueDepth \div 4

Issue(s, r, cur) ==
  LET bank == s.bank[r.bank]
      hit == rowHit(bank, r)
      act == IF hit THEN bank.lastAct ELSE actCycle(s, bank, r)
      pre1 == IF ~hit /\ bank.open THEN preCycle(bank, r) + T.tRAS ELSE bank.minPre
      cmd == Max({cur, s.minResp - T.tCL, IF hit THEN 0 ELSE act + T.tRCD,
                    IF s.lastWrite /\ ~r.write THEN s.minResp + T.tWTR ELSE 0})
      resp == cmd + T.tCL + T.tBL
      q == ListOf(s, r)
      more == Len(q) > 1 /\ q[2].seq # 0
      bank1 == [bank EXCEPT !.open = ~s.kind.closedPage \/ more, !.openRow = r.row,
                  !.lastAct = act, !.lastCmd = cmd, !.hits = q[1].seq,
                  !.minPre = Max({pre1, act + T.tRAS,
                               IF r.write THEN resp + T.tWR ELSE cmd + T.tRTP})]
      same(x) == x.id # r.id
  IN [s |-> WithList([s EXCEPT !.bank[r.bank] = bank1, !.minResp = resp, !.lastWrite = r.write,
                       !.acts = IF hit THEN @ ELSE addActivation(@, act),
                       !.rdQ = SelectSeq(@, same), !.wrQ = SelectSeq(@, same)],
                     r, Tail(q)),
      cmd |-> [type |-> IF r.write THEN "WR" ELSE "RD", id |-> r.id, bank |-> r.bank, row |-> r.row,
               hit |-> hit, act |-> act, cas |-> cmd, end |-> resp],
      fail |-> bank.lastCmd >= cmd \/ (~hit /\ minActCycle(s.acts) > act)]

trySchedule(s, cur) ==
  LET q == IF s.rdQ = <<>> \/ prioWrites(s) THEN s.wrQ ELSE s.rdQ
      fronts == {i \in DOMAIN q : First(s, q[i])}
      ready == {i \in fronts : findMinCmdCycle(s, q[i]) <= cur}
  IN IF s.rdQ = <<>> /\ s.wrQ = <<>> THEN [s |-> s, next |-> Never]
     ELSE IF cur + T.tCL < s.minResp THEN [s |-> s, next |-> s.minResp - T.tCL]
     ELSE IF ready = {} THEN [s |-> s, next |-> Min({findMinCmdCycle(s, q[i]) : i \in fronts})]
     ELSE LET i == Issue(s, q[Min(ready)], cur)
          IN [s |-> i.s, cmd |-> i.cmd, fail |-> i.fail,
              next |-> IF i.s.rdQ = <<>> /\ i.s.wrQ = <<>> THEN Never ELSE i.s.minResp - T.tCL]

-----------------------------------------------------------------------------
(* When a request that has come to the front of its bank's list lets the   *)
(* controller look again; in tick() the second maximum is not used.        *)
MinSched(s, cur) == Max({cur, s.minResp - T.tCL - T.tBL})

EnqAt(next, sys) == Max({matchingMemToSysCycle(next), sys})

full(s) == Len(s.rdQ) >= QueueDepth \/ Len(s.wrQ) >= QueueDepth
Queued(s, r) ==
  queue(IF Deferred(r) THEN [s EXCEPT !.wrQ = Append(@, r)] ELSE [s EXCEPT !.rdQ = Append(@, r)], r)

Written(r, sys) == IF r.write THEN {[id |-> r.id, at |-> sys, done |-> memToSysCycle(r.arrival)]} ELSE {}

(* A request arrives at sys.                                               *)
enqueue(r0, sys) ==
  LET cur == sysToMemCycle(sys)
      r == [r0 EXCEPT !.arrival = cur]
      s == [mc EXCEPT !.now = sys, !.n = @ + 1]
      s1 == Queued(s, r)
      m0 == MinSched(s1, cur)
      m == IF s1.next > m0 THEN Max({m0, findMinCmdCycle(s1, r)}) ELSE m0
  IN IF full(s) THEN mc' = [s EXCEPT !.ovf = Append(@, r)] /\ UNCHANGED log
     ELSE /\ mc' = IF First(s1, r) /\ s1.next > m THEN [s1 EXCEPT !.next = m, !.at = EnqAt(m, sys)]
                   ELSE s1
          /\ log' = [log EXCEPT !.resp = @ \cup Written(r, sys)]

(* The scheduling event.                                                   *)
tick ==
  /\ mc.at # Never
  /\ LET sys == mc.at
         cur == sysToMemCycle(sys)
         try == trySchedule([mc EXCEPT !.now = sys], cur)
         move == ~full(try.s) /\ try.s.ovf # <<>>
         r == [Head(try.s.ovf) EXCEPT !.arrival = cur]
         s1 == IF move THEN [Queued(try.s, r) EXCEPT !.ovf = Tail(@)] ELSE try.s
         next == IF move /\ First(s1, r) THEN Min({try.next, MinSched(s1, cur)}) ELSE try.next
         cmd == "cmd" \in DOMAIN try
     IN /\ mc' = [s1 EXCEPT !.next = next, !.at = IF next = Never THEN Never ELSE EnqAt(next, sys)]
        /\ log' = [cmds |-> IF cmd THEN Append(log.cmds, try.cmd) ELSE log.cmds,
                   resp |-> log.resp
                     \cup (IF cmd /\ try.cmd.type = "RD"
                           THEN {[id |-> try.cmd.id, at |-> sys,
                                  done |-> memToSysCycle(try.cmd.end) - memToSysCycle(T.tCL + T.tBL - 1)]}
                           ELSE {})
                     \cup (IF move THEN Written(r, sys) ELSE {}),
                   fail |-> log.fail \/ cur # mc.next \/ try.next < cur \/ (cmd /\ try.fail)]

(* Every tREFI, as seen from here at any time; closes the rows.            *)
refresh(sys) ==
  LET start == Max({sysToMemCycle(sys)} \cup {mc.bank[b].minPre : b \in Banks}
                     \cup {mc.bank[b].lastCmd : b \in Banks})
  IN /\ mc' = [mc EXCEPT !.now = sys, !.n = @ + 1,
                 !.bank = [b \in Banks |-> [mc.bank[b] EXCEPT !.open = FALSE,
                                              !.minPre = start + T.tRFC - T.tRP]]]
     /\ log' = [log EXCEPT !.cmds = Append(@, [type |-> "REF", act |-> start])]

Arrivals == {s \in {mc.now + g : g \in Gaps} : s <= mc.at}

Next ==
  \/ \E sys \in Arrivals :
       /\ mc.n < MaxReqs
       /\ \/ \E r \in Reqs : enqueue(r @@ [id |-> mc.n, arrival |-> 0, seq |-> 0], sys)
          \/ refresh(sys)
  \/ tick

Spec == Init /\ [][Next]_vars

-----------------------------------------------------------------------------
(* The commands, whatever the order in which requests come, bypass others, *)
(* overflow and meet refreshes, obey the device: a reference of its rules  *)
(* over the whole log (ddr_mem.h:195-207), where trySchedule keeps a few   *)
(* last cycles.  The data of two commands never share the bus.  Not among  *)
(* the rules is tRRD, which ddr_mem.h:230 declares from an activation to   *)
(* any other: the code keeps it between those of one bank only             *)
(* (ddr_mem.cpp:484, 568), and two banks of a rank are activated together. *)
Cas(i) == log.cmds[i].type # "REF"
Act(i) == Cas(i) /\ ~log.cmds[i].hit
PreOk(i, act) ==  \* the row of i has been closed long enough before act
  LET c == log.cmds[i]
  IN act >= T.tRP + Max({c.act + T.tRAS,
                           IF c.type = "WR" THEN c.end + T.tWR ELSE c.cas + T.tRTP})
CommandsLegal ==
  \A j \in DOMAIN log.cmds :
    LET c == log.cmds[j] IN
    /\ Cas(j) => c.cas >= c.act + T.tRCD
    /\ \A i \in 1..(j - 1) :
         LET d == log.cmds[i] IN
         /\ Cas(i) /\ Cas(j) =>
              /\ c.end - T.tBL >= d.end
              /\ d.type = "WR" /\ c.type = "RD" /\ i = j - 1 => c.cas >= d.end + T.tWTR
              /\ Act(j) /\ c.bank = d.bank => PreOk(i, c.act)
              /\ Act(i) /\ Act(j) /\ c.bank = d.bank => c.act >= d.act + T.tRRD
         /\ d.type = "REF" /\ Act(j) => c.act >= d.act + T.tRFC
         /\ Cas(i) /\ c.type = "REF" => c.act >= d.cas /\ PreOk(i, c.act + T.tRP)
    /\ Cas(j) /\ c.hit =>   \* the row is open
         \E i \in 1..(j - 1) :
           /\ Act(i) /\ log.cmds[i].bank = c.bank /\ log.cmds[i].row = c.row
           /\ \A k \in (i + 1)..(j - 1) : Cas(k) /\ (log.cmds[k].bank = c.bank => log.cmds[k].hit)
    /\ Act(j) =>   \* no more than Window activations in tFAW
         Cardinality({i \in DOMAIN log.cmds :
                        Act(i) /\ log.cmds[i].act \in c.act..(c.act + T.tFAW - 1)}) <= Window

(* A request that waits is looked at again, by the one event there is for  *)
(* it, on the memory cycle it was scheduled for; reads are answered once,  *)
(* and not in the past of the event that answers                           *)
(* (ddr_mem.cpp:325, 428, 453, 597, 607).                                  *)
NothingForgotten ==
  /\ ~log.fail
  /\ mc.rdQ # <<>> \/ mc.wrQ # <<>> \/ mc.ovf # <<>> => mc.at # Never
  /\ mc.at = Never <=> mc.next = Never
  /\ \A a \in log.resp : a.done >= a.at /\ \A b \in log.resp : a.id = b.id => a = b

(* A request counted as a row hit follows one of its row, and no row has   *)
(* more than its share of them in a row (ddr_mem.cpp:384-419).             *)
RowHitChains ==
  \A b \in Banks : \A q \in {mc.bank[b].rd, mc.bank[b].wr} :
    \A i \in DOMAIN q :
      /\ q[i].seq <= RowHitLimit
      /\ i > 1 /\ q[i].seq # 0 => q[i].row = q[i - 1].row /\ q[i].seq = q[i - 1].seq + 1

MemoryExact == CommandsLegal /\ NothingForgotten /\ RowHitChains
=============================================================================
