------------------------------- MODULE Coherence -------------------------------
(***************************************************************************)
(* The MESI cache hierarchy: FilterCache, Cache, MESITerminalCC, MESICC,   *)
(* MESITopCC, MESIBottomCC and SimpleMemory, for a tree of inclusive       *)
(* caches whose leaves each serve one simulated core.                      *)
(*                                                                         *)
(* Every thread runs nested calls, so its state is a stack of frames: an   *)
(* access travels from a leaf to the root (GETS, GETX, PUTS, PUTX), an     *)
(* invalidation from a cache to its children (INV, INVX).  A step holds    *)
(* the locks the code holds; what lies between two lock operations of one  *)
(* thread is one step.                                                     *)
(*                                                                         *)
(* The program moves no data.  fresh is an auxiliary variable: the copies  *)
(* that would hold the last write, had each transfer carried the line.     *)
(***************************************************************************)
EXTENDS Integers, Sequences, FiniteSets

CONSTANTS Caches,    \* every cache
          Root,      \* the last-level cache; memory is above it
          Parent,    \* the parent of every cache but Root
          Addrs,     \* line addresses
          Proc, Virt,\* what each is made of: a process (procMask) and vLineAddr
          Lines,     \* lines each cache can hold
          NoExcl,    \* the instruction caches, whose requests carry NOEXCL
          Switched,  \* the leaves whose core changes its thread (a bound)
          MaxBusy,   \* accesses under way at a time (a bound)
          NoAddr, NoThread, Mem

Children(n) == {c \in Caches \ {Root} : Parent[c] = n}
Leaves  == {n \in Caches : Children(n) = {}}
Threads == Leaves

ASSUME CoherenceAssumption ==
  /\ IsFiniteSet(Caches) /\ Root \in Caches \ Leaves
  /\ Parent \in [Caches \ {Root} -> Caches]
  /\ \A X \in SUBSET (Caches \ {Root}) :      \* a tree
       X # {} => \E c \in X : Parent[c] \notin X
  /\ Lines \in [Caches -> Nat \ {0}]
  /\ NoExcl \subseteq Leaves
  /\ Switched \subseteq Leaves
  /\ MaxBusy \in Nat \ {0}
  /\ \A a, b \in Addrs : Proc[a] = Proc[b] /\ Virt[a] = Virt[b] => a = b
  /\ NoAddr \notin Addrs
  /\ NoThread \notin Threads
  /\ Mem \notin Caches

VARIABLES st,      \* MESI state of each line; "none" when the array has no such tag
          dir,     \* sharers and exclusive bit of each line (MESITopCC::Entry)
          tcc, bcc,\* holders of the two controller locks
          flock,   \* holder of each leaf's filterLock
          filt,    \* each leaf's filter entry: rdAddr and wrAddr; auxiliary:
                   \* left, an invalidation of its line did not match it
          stack,   \* the frames of each thread's calls, outermost first
          wb,      \* the address whose writeback the thread's invalidations induced
          fresh,   \* auxiliary: who holds the last write of each address
          aborted  \* an assert or a panic fired

vars == <<st, dir, tcc, bcc, flock, filt, stack, wb, fresh, aborted>>

States == {"none", "I", "S", "E", "M"}
Valid(s) == s \in {"S", "E", "M"}
Excl(s)  == s \in {"E", "M"}
Gets == {"GETS", "GETX"}
Puts == {"PUTS", "PUTX"}

Entries == [sh : SUBSET (Caches \ {Root}), ex : BOOLEAN]
NoEntry == [sh |-> {}, ex |-> FALSE]
IsExclusive(e) == Cardinality(e.sh) = 1 /\ e.ex
(* The entry without sharer c.  The exclusive bit of an entry without      *)
(* sharers is set again before it is read: it is kept clear.               *)
Without(e, c) == [sh |-> e.sh \ {c}, ex |-> e.ex /\ e.sh # {c}]

Tagged(n) == {a \in Addrs : st[n][a] # "none"}

AccessFrames == [n : Caches, ty : Gets \cup Puts, a : Addrs,
                 ch : Caches \cup {Mem}, init : States, v : Addrs \cup {NoAddr},
                 at : {"tcc", "bcc", "evict", "insert", "dir", "end", "fill"}]
InvFrames == [n : Caches, ty : {"INV", "INVX"}, a : Addrs, at : {"lock", "down"}]

FilterEntries == [rd : Addrs \cup {NoAddr}, wr : Addrs \cup {NoAddr}, left : BOOLEAN]
NoFilter == [rd |-> NoAddr, wr |-> NoAddr, left |-> FALSE]

(* Types, and no array holds more lines than it has.                       *)
TypeOK ==
  /\ st \in [Caches -> [Addrs -> States]]
  /\ \A n \in Caches : Cardinality(Tagged(n)) <= Lines[n]
  /\ dir \in [Caches -> [Addrs -> Entries]]
  /\ tcc \in [Caches -> Threads \cup {NoThread}]
  /\ bcc \in [Caches -> Threads \cup {NoThread}]
  /\ flock \in [Leaves -> Threads \cup {NoThread}]
  /\ filt \in [Leaves -> FilterEntries]
  /\ \A t \in Threads : \A i \in 1..Len(stack[t]) :
       stack[t][i] \in AccessFrames \cup InvFrames
  /\ wb \in [Threads -> Addrs \cup {NoAddr}]
  /\ fresh \in [Addrs -> SUBSET (Caches \cup {Mem})]
  /\ aborted \in BOOLEAN

Init ==
  /\ st = [n \in Caches |-> [a \in Addrs |-> "none"]]
  /\ dir = [n \in Caches |-> [a \in Addrs |-> NoEntry]]
  /\ tcc = [n \in Caches |-> NoThread]
  /\ bcc = [n \in Caches |-> NoThread]
  /\ flock = [n \in Leaves |-> NoThread]
  /\ filt = [n \in Leaves |-> NoFilter]
  /\ stack = [t \in Threads |-> <<>>]
  /\ wb = [t \in Threads |-> NoAddr]
  /\ fresh = [a \in Addrs |-> {Mem}]
  /\ aborted = FALSE

Busy(t) == stack[t] # <<>>
Top(t)  == stack[t][Len(stack[t])]
Pop(s)  == SubSeq(s, 1, Len(s) - 1)
MoveTo(s, l) == [s EXCEPT ![Len(s)].at = l]
IsAccess(f) == f.ty \in Gets \cup Puts

At(t, l) == ~aborted /\ Busy(t) /\ IsAccess(Top(t)) /\ Top(t).at = l
InvAt(t, l) == ~aborted /\ Busy(t) /\ ~IsAccess(Top(t)) /\ Top(t).at = l
Goto(t, l) == stack' = [stack EXCEPT ![t] = MoveTo(@, l)]

(* The asserts and panics on the way of a step.                            *)
Panic == aborted' = TRUE
Check(c) == aborted' = ~c

(* The frame of a request that child ch sends to cache n.                  *)
Request(n, ty, a, ch, init) ==
  [n |-> n, ty |-> ty, a |-> a, ch |-> ch, init |-> init, v |-> NoAddr,
   at |-> IF n \in Leaves THEN "bcc" ELSE "tcc"]

-----------------------------------------------------------------------------
(* FilterCache::load and store that miss the filter, up to the release of  *)
(* filterLock by startAccess.  A filter hit changes nothing that is here,  *)
(* whether or not the cache still has the line.  What a core runs, and has *)
(* in its filter, is of one process: a switch flushes the filter.          *)
Issue(t, ty, a) ==
  /\ ~aborted /\ ~Busy(t)
  /\ Cardinality({u \in Threads : Busy(u)}) < MaxBusy
  /\ flock[t] = NoThread
  /\ filt[t].rd # NoAddr => Proc[filt[t].rd] = Proc[a]
  /\ IF ty = "GETS" THEN filt[t].rd # a ELSE filt[t].wr # a /\ t \notin NoExcl
  /\ stack' = [stack EXCEPT ![t] = <<Request(t, ty, a, Mem, "I")>>]
  /\ UNCHANGED <<st, dir, tcc, bcc, flock, filt, wb, fresh, aborted>>

(* FilterCache::contextSwitch: the filter is flushed, the cache is not.    *)
ContextSwitch(t) ==
  /\ ~aborted /\ t \in Switched
  /\ flock[t] = NoThread
  /\ filt' = [filt EXCEPT ![t] = NoFilter]
  /\ UNCHANGED <<st, dir, tcc, bcc, flock, stack, wb, fresh, aborted>>

TakeTcc(t) ==
  /\ At(t, "tcc")
  /\ tcc[Top(t).n] = NoThread
  /\ tcc' = [tcc EXCEPT ![Top(t).n] = t]
  /\ Goto(t, "bcc")
  /\ UNCHANGED <<st, dir, bcc, flock, filt, wb, fresh, aborted>>

(* What the requester's line is now; a leaf's own request has a dummy.     *)
ChildState(f) == IF f.ch = Mem THEN "I" ELSE st[f.ch][f.a]

(* A fault of the check: a dirty writeback that was downgraded meanwhile   *)
(* stays a PUTX.                                                           *)
AfterRaceKeepsPutx(f) ==
  LET now == ChildState(f) IN
  IF f.ty \in Puts /\ now = "S" THEN f.ty
  ELSE IF now = f.init THEN f.ty
  ELSE IF f.ty \in Puts THEN IF now = "I" THEN "skip" ELSE "panic"
  ELSE IF f.ty = "GETX" /\ f.init = "S" /\ now = "I" THEN "GETX" ELSE "panic"

(* CheckForMESIRace: the request after an invalidation overtook it, "skip" *)
(* if nothing is left to do, "panic" if that cannot happen.                *)
AfterRace(f) ==
  LET now == ChildState(f) IN
  IF now = f.init THEN f.ty
  ELSE IF f.ty \in Puts
       THEN IF now = "I" THEN "skip" ELSE IF now = "S" THEN "PUTS" ELSE "panic"
  ELSE IF f.ty = "GETX" /\ f.init = "S" /\ now = "I" THEN "GETX" ELSE "panic"

(* SetAssocArray::preinsert: an empty slot while there is one, else any    *)
(* line, valid or not (the replacement policies are modelled apart).       *)
Victims(n) == IF Cardinality(Tagged(n)) < Lines[n] THEN {NoAddr} ELSE Tagged(n)

(* The call of a child's invalidate, from a frame that stays where it is.  *)
SendInval(t, c, ty, a) ==
  stack' = [stack EXCEPT ![t] = Append(@, [n |-> c, ty |-> ty, a |-> a, at |-> "lock"])]

(* The top frame of t replaced by f.                                       *)
Frame(t, f) == [stack[t] EXCEPT ![Len(stack[t])] = f]

(* What SimpleMemory::access makes of the root's line and of the copies.   *)
MemState(t, ty) ==
  IF ty \in Puts THEN "I" ELSE IF ty = "GETX" THEN "M" ELSE IF t \in NoExcl THEN "S" ELSE "E"
MemFresh(ty, a, s) ==
  CASE ty = "PUTS" -> fresh[a] \ {Root}
    [] ty = "PUTX" -> (IF Root \in fresh[a] THEN fresh[a] \cup {Mem} ELSE fresh[a] \ {Mem}) \ {Root}
    [] OTHER -> IF Mem \in fresh[a] \/ (s = "S" /\ Root \in fresh[a])
                THEN fresh[a] \cup {Root} ELSE fresh[a] \ {Root}

(* The request that the cache of frame f, whose array is now lines, sends  *)
(* for address a in state s; f goes on at f.at when it is answered.  The   *)
(* parent's startAccess gives up the cache's lock, and the caller of f may *)
(* have held it or take it in this step.                                   *)
SendUp(t, f, ty, a, s, lines) ==
  IF f.n = Root
  THEN /\ stack' = [stack EXCEPT ![t] = Frame(t, f)]
       /\ st' = [st EXCEPT ![Root] = [lines EXCEPT ![a] = MemState(t, ty)]]
       /\ fresh' = [fresh EXCEPT ![a] = MemFresh(ty, a, s)]
       /\ bcc' = [bcc EXCEPT ![Root] = t]
  ELSE /\ stack' = [stack EXCEPT ![t] =
            Append(Frame(t, f), Request(Parent[f.n], ty, a, f.n, s))]
       /\ st' = [st EXCEPT ![f.n] = [lines EXCEPT ![a] = s]]
       /\ bcc' = [bcc EXCEPT ![f.n] = NoThread]
       /\ UNCHANGED fresh

(* MESIBottomCC::processAccess on the array lines: a put dies here, a get  *)
(* that needs more permission than the cache has goes to the parent.       *)
Serve(t, f, lines) ==
  LET s == lines[f.a]
      g == [f EXCEPT !.at = IF f.n \in Leaves THEN "end" ELSE "dir"]
  IN
  IF f.ty \in Gets /\ (s = "I" \/ (f.ty = "GETX" /\ s = "S"))
  THEN SendUp(t, g, f.ty, f.a, s, lines) /\ UNCHANGED aborted
  ELSE /\ stack' = [stack EXCEPT ![t] = Frame(t, g)]
       /\ st' = [st EXCEPT ![f.n] =
            [lines EXCEPT ![f.a] = IF f.ty \in {"PUTX", "GETX"} THEN "M" ELSE @]]
       /\ bcc' = [bcc EXCEPT ![f.n] = t]
       /\ Check(IF f.ty = "PUTX" THEN Excl(s) ELSE Valid(s))
       /\ UNCHANGED fresh

(* postinsert of f.a in the place of v, then the access: the slot changes  *)
(* its tenant and keeps its (invalid) state and its directory entry.       *)
Insert(t, f) ==
  LET v == f.v IN
  /\ Serve(t, f, [a \in Addrs |->
       IF a = f.a THEN "I" ELSE IF a = v THEN "none" ELSE st[f.n][a]])
  /\ dir' = [dir EXCEPT ![f.n] = [a \in Addrs |->
       IF a = f.a THEN IF v = NoAddr THEN NoEntry ELSE @[v]
       ELSE IF a = v THEN NoEntry ELSE @[a]]]

(* The rest of startAccess and of Cache::access up to the first call that  *)
(* leaves the cache: the lock of the state array, the race check, the      *)
(* lookup, and the access or the choice of a victim.                       *)
Lookup(t) ==
  LET race == AfterRace(Top(t))
      f == [Top(t) EXCEPT !.ty = race]
      keep == UNCHANGED <<st, fresh>> /\ bcc' = [bcc EXCEPT ![f.n] = t]
  IN
  /\ At(t, "bcc")
  /\ bcc[f.n] = NoThread
  /\ \/ /\ race = "panic" \/ (race \in Puts /\ f.a \notin Tagged(f.n))
        /\ Panic /\ keep                    \* an impossible race, or lost inclusion
        /\ UNCHANGED <<stack, dir>>
     \/ /\ race = "skip"
        /\ Goto(t, "end") /\ keep
        /\ UNCHANGED <<dir, aborted>>
     \/ /\ race \in Gets \cup Puts /\ f.a \in Tagged(f.n)
        /\ Serve(t, f, st[f.n])
        /\ UNCHANGED dir
     \/ /\ race \in Gets /\ f.a \notin Tagged(f.n)
        /\ \E v \in Victims(f.n) :
             IF v = NoAddr THEN Insert(t, f)
             ELSE /\ stack' = [stack EXCEPT ![t] = Frame(t, [f EXCEPT !.at = "evict", !.v = v])]
                  /\ keep
                  /\ UNCHANGED <<dir, aborted>>
  /\ UNCHANGED <<tcc, flock, filt, wb>>

(* MESITopCC::processEviction: invalidate the victim's sharers.            *)
EvictInval(t) ==
  LET f == Top(t) IN
  /\ At(t, "evict")
  /\ \E c \in dir[f.n][f.v].sh : SendInval(t, c, "INV", f.v)
  /\ UNCHANGED <<st, dir, tcc, bcc, flock, filt, wb, fresh, aborted>>

(* A fault: the writeback the invalidations induced is dropped.            *)
EvictWriteClean(t) ==
  LET f == Top(t)
      s == st[f.n][f.v]
      g == [f EXCEPT !.at = "insert"]
  IN
  /\ At(t, "evict")
  /\ dir[f.n][f.v].sh = {}
  /\ wb' = [wb EXCEPT ![t] = NoAddr]
  /\ IF Valid(s)
     THEN SendUp(t, g, IF s = "M" THEN "PUTX" ELSE "PUTS", f.v, s, st[f.n])
     ELSE stack' = [stack EXCEPT ![t] = Frame(t, g)] /\ UNCHANGED <<st, bcc, fresh>>
  /\ UNCHANGED <<dir, tcc, flock, filt, aborted>>

(* MESIBottomCC::processEviction: with an induced writeback E turns to M,  *)
(* then the line is put to the parent.                                     *)
EvictWrite(t) ==
  LET f == Top(t)
      s == IF wb[t] = NoAddr THEN st[f.n][f.v] ELSE "M"
      g == [f EXCEPT !.at = "insert"]
  IN
  /\ At(t, "evict")
  /\ dir[f.n][f.v].sh = {}
  /\ Check(wb[t] # NoAddr => Excl(st[f.n][f.v]))
  /\ wb' = [wb EXCEPT ![t] = NoAddr]
  /\ IF Valid(s)
     THEN SendUp(t, g, IF s = "M" THEN "PUTX" ELSE "PUTS", f.v, s, st[f.n])
     ELSE stack' = [stack EXCEPT ![t] = Frame(t, g)] /\ UNCHANGED <<st, bcc, fresh>>
  /\ UNCHANGED <<dir, tcc, flock, filt>>

(* The eviction is over (its victim must have ended invalid): insert.      *)
Refill(t) ==
  /\ At(t, "insert")
  /\ IF st[Top(t).n][Top(t).v] = "I" THEN Insert(t, Top(t))
     ELSE Panic /\ UNCHANGED <<st, dir, bcc, stack, fresh>>
  /\ UNCHANGED <<tcc, flock, filt, wb>>

(* What the requesting child's copy is worth after n served it.            *)
FreshAfter(f, upgrade) ==
  CASE f.ty = "PUTS" -> fresh[f.a] \ {f.ch}
    [] f.ty = "PUTX" -> IF f.ch \in fresh[f.a] THEN (fresh[f.a] \cup {f.n}) \ {f.ch}
                        ELSE fresh[f.a] \ {f.n}
    [] OTHER -> IF f.n \in fresh[f.a] \/ (upgrade /\ f.ch \in fresh[f.a])
                THEN fresh[f.a] \cup {f.ch} ELSE fresh[f.a] \ {f.ch}

(* MESITopCC::processAccess, a put: the child is a sharer no more.         *)
DirPut(t) ==
  LET f == Top(t)
      e == dir[f.n][f.a]
  IN
  /\ At(t, "dir") /\ f.ty \in Puts
  /\ Check(f.ch \in e.sh /\ (f.ty = "PUTX" => IsExclusive(e)))
  /\ dir' = [dir EXCEPT ![f.n][f.a] = Without(@, f.ch)]
  /\ st' = [st EXCEPT ![f.ch][f.a] = "I"]
  /\ fresh' = [fresh EXCEPT ![f.a] = FreshAfter(f, FALSE)]
  /\ Goto(t, "end")
  /\ UNCHANGED <<tcc, bcc, flock, filt, wb>>

(* A fault of the next definition: a writer drops its own directory entry  *)
(* and leaves those of the other readers.                                  *)
ConflictsOfOne(f) ==
  LET e == dir[f.n][f.a] IN IF IsExclusive(e) THEN e.sh \ {f.ch} ELSE {}

(* What the child must be sent away for: an exclusive sharer is downgraded *)
(* for a GETS, every other sharer is invalidated for a GETX.               *)
Conflicts(f) ==
  LET e == dir[f.n][f.a] IN
  IF f.ty = "GETX" THEN e.sh \ {f.ch} ELSE IF IsExclusive(e) THEN e.sh ELSE {}

DirInval(t) ==
  LET f == Top(t) IN
  /\ At(t, "dir") /\ f.ty \in Gets
  /\ Check(IF f.ty = "GETX"
            THEN st[f.n][f.a] = "M" /\ (f.ch \in dir[f.n][f.a].sh => ~IsExclusive(dir[f.n][f.a]))
            ELSE f.ch \notin dir[f.n][f.a].sh)
  /\ \E c \in Conflicts(f) :
       SendInval(t, c, IF f.ty = "GETX" THEN "INV" ELSE "INVX", f.a)
  /\ UNCHANGED <<st, dir, tcc, bcc, flock, filt, wb, fresh>>

(* MESITopCC::processAccess, a get whose conflicts are gone, and           *)
(* processWritebackOnAccess: with an induced writeback E turns to M.       *)
DirGrant(t) ==
  LET f == Top(t)
      e == dir[f.n][f.a]
      s == st[f.n][f.a]
      alone == f.ty = "GETX" \/ (e.sh = {} /\ Excl(s) /\ t \notin NoExcl)
  IN
  /\ At(t, "dir") /\ f.ty \in Gets
  /\ Conflicts(f) = {}
  /\ Check(/\ IF f.ty = "GETX" THEN s = "M" /\ (f.ch \in e.sh => ~IsExclusive(e))
              ELSE Valid(s) /\ f.ch \notin e.sh
           /\ wb[t] # NoAddr => Excl(s))
  /\ dir' = [dir EXCEPT ![f.n][f.a] = [sh |-> @.sh \cup {f.ch}, ex |-> alone]]
  /\ st' = [st EXCEPT ![f.ch][f.a] = IF f.ty = "GETX" THEN "M" ELSE IF alone THEN "E" ELSE "S",
                      ![f.n][f.a] = IF wb[t] # NoAddr THEN "M" ELSE @]
  /\ fresh' = [fresh EXCEPT ![f.a] = FreshAfter(f, f.ch \in e.sh)]
  /\ wb' = [wb EXCEPT ![t] = NoAddr]
  /\ Goto(t, "end")
  /\ UNCHANGED <<tcc, bcc, flock, filt>>

(* endAccess: the child's lock is taken back before the own ones are       *)
(* given up.  The call returns to the frame below; a leaf's own access     *)
(* still has its filter to fill, under filterLock.                         *)
End(t) ==
  LET f == Top(t) IN
  /\ At(t, "end")
  /\ IF f.ch = Mem
     THEN /\ flock[f.n] = NoThread
          /\ flock' = [flock EXCEPT ![f.n] = t]
          /\ bcc' = [bcc EXCEPT ![f.n] = NoThread]
          /\ Goto(t, "fill")
          /\ Check(IF f.ty = "GETX" THEN st[f.n][f.a] = "M" ELSE Valid(st[f.n][f.a]))
          /\ UNCHANGED tcc
     ELSE /\ bcc[f.ch] = NoThread
          /\ bcc' = [bcc EXCEPT ![f.ch] = t, ![f.n] = NoThread]
          /\ tcc' = [tcc EXCEPT ![f.n] = NoThread]
          /\ stack' = [stack EXCEPT ![t] = Pop(@)]
          /\ UNCHANGED <<flock, aborted>>
  /\ UNCHANGED <<st, dir, filt, wb, fresh>>

(* The end of FilterCache::replace.  A store has written the line.         *)
Fill(t) ==
  LET f == Top(t) IN
  /\ At(t, "fill")
  /\ filt' = [filt EXCEPT ![t] =
       [rd |-> f.a, wr |-> IF f.ty = "GETX" THEN f.a ELSE NoAddr, left |-> FALSE]]
  /\ fresh' = [fresh EXCEPT ![f.a] = IF f.ty = "GETX" THEN {t} ELSE @]
  /\ flock' = [flock EXCEPT ![t] = NoThread]
  /\ stack' = [stack EXCEPT ![t] = Pop(@)]
  /\ UNCHANGED <<st, dir, tcc, bcc, wb, aborted>>

-----------------------------------------------------------------------------
(* A fault of the next action: FilterCache::invalidate takes filterLock    *)
(* first, while endAccess takes it second.                                 *)
InvLockFilterFirst(t) ==
  LET f == Top(t) IN
  /\ InvAt(t, "lock")
  /\ IF f.n \in Leaves /\ flock[f.n] # t
     THEN /\ flock[f.n] = NoThread
          /\ flock' = [flock EXCEPT ![f.n] = t]
          /\ UNCHANGED <<bcc, stack>>
     ELSE /\ bcc[f.n] = NoThread
          /\ bcc' = [bcc EXCEPT ![f.n] = t]
          /\ flock' = IF f.n \in Leaves THEN [flock EXCEPT ![f.n] = NoThread] ELSE flock
          /\ Goto(t, "down")
  /\ UNCHANGED <<st, dir, tcc, filt, wb, fresh, aborted>>

(* startInv: only the lock of the state array, not the one that serialises *)
(* the accesses from below.                                                *)
InvLock(t) ==
  LET f == Top(t) IN
  /\ InvAt(t, "lock")
  /\ bcc[f.n] = NoThread
  /\ bcc' = [bcc EXCEPT ![f.n] = t]
  /\ Goto(t, "down")
  /\ UNCHANGED <<st, dir, tcc, flock, filt, wb, fresh, aborted>>

(* A fault of the next definition: nothing goes down to readers.           *)
TargetsExclusiveOnly(f) ==
  LET e == dir[f.n][f.a] IN IF ~IsExclusive(e) THEN {} ELSE e.sh

(* MESITopCC::sendInvalidates: a downgrade goes down only to an exclusive  *)
(* sharer, an invalidation to every sharer.                                *)
Targets(f) ==
  LET e == dir[f.n][f.a] IN
  IF f.ty = "INVX" /\ ~IsExclusive(e) THEN {} ELSE e.sh

InvDown(t) ==
  LET f == Top(t) IN
  /\ InvAt(t, "down")
  /\ \E c \in Targets(f) : SendInval(t, c, f.ty, f.a)
  /\ UNCHANGED <<st, dir, tcc, bcc, flock, filt, wb, fresh, aborted>>

(* The process of the thread that runs an access, and what comes of it.    *)
Process(t) == Proc[stack[t][1].a]

(* The filter entries after t has run FilterCache::invalidate of a at n,   *)
(* and a fault of it: only the right to write is taken back.  The entry's  *)
(* virtual address is compared with the line's under the procMask of the   *)
(* process that runs the call, so a line of another process is not found.  *)
FilterMatches(t, n, a) == filt[n].rd # NoAddr /\ Virt[filt[n].rd] = Virt[a] /\ Process(t) = Proc[a]
FilterKeepsRead(t, n, a) ==
  IF n \in Leaves /\ FilterMatches(t, n, a) THEN [filt EXCEPT ![n].wr = NoAddr] ELSE filt
FilterCleared(t, n, a) ==
  IF n \notin Leaves THEN filt
  ELSE IF FilterMatches(t, n, a) THEN [filt EXCEPT ![n] = NoFilter]
  ELSE [filt EXCEPT ![n].left = @ \/ filt[n].rd = a]

(* MESIBottomCC::processInval: lose the line, or the exclusivity, and ask  *)
(* for a writeback if it was modified; the caller updates its directory.   *)
(* A leaf clears its filter entry in the same critical section.            *)
InvFinish(t) ==
  LET f == Top(t)
      s == st[f.n][f.a]
      p == Parent[f.n]
      induced == wb[t] # NoAddr \/ s = "M"
  IN
  /\ InvAt(t, "down") /\ Targets(f) = {}
  /\ f.n \in Leaves => flock[f.n] = NoThread
  /\ Check(IF f.ty = "INVX" THEN Excl(s) ELSE Valid(s))
  /\ st' = [st EXCEPT ![f.n][f.a] = IF f.ty = "INVX" THEN "S" ELSE "I"]
  /\ wb' = [wb EXCEPT ![t] = IF induced THEN f.a ELSE NoAddr]
  /\ dir' = [dir EXCEPT ![p][f.a] = IF f.ty = "INVX" THEN [@ EXCEPT !.ex = FALSE]
                                    ELSE Without(@, f.n)]
  /\ fresh' = [fresh EXCEPT ![f.a] =
       (@ \ (IF f.ty = "INV" THEN {f.n} ELSE {}))
         \cup (IF induced /\ f.n \in @ THEN {p} ELSE {})]
  /\ filt' = FilterCleared(t, f.n, f.a)
  /\ bcc' = [bcc EXCEPT ![f.n] = NoThread]
  /\ stack' = [stack EXCEPT ![t] = Pop(@)]
  /\ UNCHANGED <<tcc, flock>>

-----------------------------------------------------------------------------
(* What a thread does once it has issued an access.                        *)
Step(t) ==
  \/ TakeTcc(t) \/ Lookup(t) \/ EvictInval(t) \/ EvictWrite(t) \/ Refill(t)
  \/ DirPut(t) \/ DirInval(t) \/ DirGrant(t) \/ End(t) \/ Fill(t)
  \/ InvLock(t) \/ InvDown(t) \/ InvFinish(t)

Next ==
  \E t \in Threads :
    \/ \E ty \in Gets, a \in Addrs : Issue(t, ty, a)
    \/ ContextSwitch(t)
    \/ Step(t)

Spec == Init /\ [][Next]_vars

-----------------------------------------------------------------------------
(* No assert or panic of the protocol fires: races never meet a state that *)
(* CheckForMESIRace, processInval or the directory does not expect         *)
(* (coherence_ctrls.h:247, coherence_ctrls.cpp:56-331, cache.cpp:134).     *)
NeverPanics == TypeOK /\ ~aborted

(* A core that may write a line is the only one with a copy of it: the     *)
(* invalidations of every level are complete before permission is given.   *)
(* And a filter hit does not bypass that: what the lock-free filter entry  *)
(* allows its core, between accesses, the cache behind it allows.  An own  *)
(* eviction leaves the entry alone: the fill of the same set overwrites it *)
(* (filter_cache.h:114, 129, 148).  Excepted is what the FIXME of          *)
(* filter_cache.h:168 is about: a line that a thread of another process    *)
(* has evicted from a cache above leaves its entry behind, and the core    *)
(* goes on hitting it.                                                     *)
SingleWriter ==
  /\ \A a \in Addrs : \A m, n \in Leaves :
       m # n /\ Excl(st[m][a]) => ~Valid(st[n][a])
  /\ \A n \in Leaves : ~Busy(n) /\ ~filt[n].left =>
       /\ filt[n].rd # NoAddr => Valid(st[n][filt[n].rd])
       /\ filt[n].wr # NoAddr => st[n][filt[n].wr] = "M"

(* Whenever nobody works on cache n, its directory names exactly the       *)
(* children with a valid copy, has the exclusive bit when one of them may  *)
(* write, and the cache holds the line with enough permission itself       *)
(* (inclusion, "We lost inclusion on this line").                          *)
DirectoryExact ==
  \A n \in Caches \ Leaves : bcc[n] = NoThread =>
    \A a \in Addrs :
      /\ dir[n][a].sh = {c \in Children(n) : Valid(st[c][a])}
      /\ \A c \in dir[n][a].sh :
           /\ Valid(st[n][a])
           /\ Excl(st[c][a]) => IsExclusive(dir[n][a]) /\ Excl(st[n][a])

(* No write is lost: each valid copy in a core's cache is that of the last *)
(* store the caches have seen (one that hits an entry left in a filter is  *)
(* not seen), and when no cache holds a line modified, memory has it - so  *)
(* every dirty line was written back by a PUTX or an induced writeback.    *)
CopiesFresh ==
  \A a \in Addrs :
    /\ \A n \in Leaves : Valid(st[n][a]) => n \in fresh[a]
    /\ Mem \in fresh[a] \/ (\E n \in Caches : st[n][a] = "M") \/ \E t \in Threads : wb[t] = a

(* The thread that holds the lock t needs next, NoThread if none.          *)
WaitsFor(t) ==
  IF ~Busy(t) THEN NoThread
  ELSE LET f == Top(t) IN
    CASE f.at = "tcc" -> tcc[f.n]
      [] f.at \in {"bcc", "lock"} -> bcc[f.n]
      [] f.at = "end" -> IF f.ch = Mem THEN flock[f.n] ELSE bcc[f.ch]
      [] f.at = "down" /\ f.n \in Leaves -> flock[f.n]
      [] OTHER -> NoThread

(* Hand-over-hand locking going up while invalidations lock going down     *)
(* never closes a cycle of threads that wait for each other                *)
(* (coherence_ctrls.h:309-318, 392-401).                                   *)
NoDeadlock ==
  \A T \in (SUBSET Threads) \ {{}} : \E t \in T : WaitsFor(t) \notin T
=============================================================================
