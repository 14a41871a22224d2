---------------------------------- MODULE Cpus ---------------------------------
(***************************************************************************)
(* The machine a program believes in: cpuenum.h, virt/cpu.cpp and the      *)
(* faked CPUID of zsim.cpp.  A process runs on the cores of its mask; with *)
(* perProcessCpuEnum its cpus are numbered from 0.  What getcpu(), the     *)
(* affinity mask and CPUID say of them has to fit together.                *)
(***************************************************************************)
EXTENDS Integers, FiniteSets, FiniteSetsExt

CONSTANTS NumCores, Threads,
          Table,                 \* the records of cpuid_core2: <<eax, ecx>>
          Asked,                 \* what programs ask CPUID for
          SetSizes,              \* of the programs' cpu sets, in cpus
          MaxField, MaxApic      \* 63 and 255 in the source

VARIABLES pc, th

vars == <<pc, th>>

Cores == 0 .. NumCores - 1
None == -1
Unasked == [cpu |-> None, apic |-> None, at |-> None]

(* pc.set and pc.field: what the process was told of all its cpus.         *)
Init ==
  /\ pc \in [mask : SUBSET Cores \ {{}}, perProcess : BOOLEAN, size : SetSizes, set : {{}}, field : {None},
             wrong : {FALSE}]
  /\ th = [cid |-> [t \in Threads |-> None], got |-> [t \in Threads |-> Unasked]]

-----------------------------------------------------------------------------
NumCpus == IF pc.perProcess THEN Cardinality(pc.mask) ELSE NumCores

(* cpuenumMask(): as bits set.                                             *)
MaskBits == IF pc.perProcess THEN 0 .. NumCpus - 1 ELSE pc.mask

(* cpuenumCpu(): how many cores of the mask come before it.  First a       *)
(* fault: up to it.                                                        *)
RankUpTo(cid) == Cardinality({i \in pc.mask : i <= cid})
Rank(cid) == Cardinality({i \in pc.mask : i < cid})
CpuOf(cid) ==
  CASE pc.perProcess /\ cid = None -> 0
    [] pc.perProcess /\ cid # None -> Rank(cid)
    [] ~pc.perProcess /\ cid = None -> Min(pc.mask)
    [] OTHER -> cid

(* FakeCPUIDPost(): the first record that is not before the one asked for, *)
(* or the one before that if its leaf is another.                          *)
Before(a, b) == a[1] < b[1] \/ (a[1] = b[1] /\ a[2] < b[2])
LowerBound(q) == CHOOSE r \in Table : ~Before(r, q) /\ \A s \in Table : ~Before(s, q) => ~Before(s, r)
Previous(r) == CHOOSE s \in Table : Before(s, r) /\ \A u \in Table : Before(u, r) => ~Before(s, u)
StepBack(r, q) == r[1] > q[1]
RecordOf(q) == LET r == LowerBound(q) IN IF StepBack(r, q) THEN Previous(r) ELSE r

Field == IF NumCores > MaxField + 1 THEN MaxField ELSE NumCpus - 1
ApicOf(cid) == IF CpuOf(cid) < NumCpus THEN Min({CpuOf(cid), MaxApic}) ELSE 0

-----------------------------------------------------------------------------
(* The scheduler keeps threads to the mask.                                *)
Schedule(t, c) ==
  /\ th.cid[t] = None /\ c \in pc.mask /\ \A u \in Threads : th.cid[u] # c
  /\ th' = [th EXCEPT !.cid[t] = c]
  /\ UNCHANGED pc

Leave(t) ==
  /\ th.cid[t] # None
  /\ th' = [th EXCEPT !.cid[t] = None]
  /\ UNCHANGED pc

(* getcpu(): the core is taken before the call, and answered after it.     *)
PatchGetcpu(t) ==
  /\ th' = [th EXCEPT !.got[t].cpu = CpuOf(th.cid[t]), !.got[t].at = th.cid[t], !.got[t].apic = None]
  /\ UNCHANGED pc

PatchSchedGetaffinity ==
  /\ pc' = [pc EXCEPT !.set = {i \in MaskBits : i < pc.size}]
  /\ UNCHANGED th

(* CPUID: FakeCPUIDPre() keeps what the thread asks for in a slot of its   *)
(* own, and FakeCPUIDPost() patches the answer after the instruction.      *)
FakeCPUID(t, q) ==
  /\ \E r \in {RecordOf(q)} :
       pc' = [pc EXCEPT !.field = IF q[1] = 4 THEN Field ELSE @,
                        !.wrong = @ \/ Before(q, r) \/ \E s \in Table : Before(r, s) /\ ~Before(q, s)]
  /\ th' = IF q[1] # 1 THEN th
           ELSE [th EXCEPT !.got[t] = [cpu |-> CpuOf(th.cid[t]), apic |-> ApicOf(th.cid[t]), at |-> th.cid[t]]]

Next ==
  \/ \E t \in Threads : Leave(t) \/ PatchGetcpu(t)
  \/ \E t \in Threads, c \in Cores : Schedule(t, c)
  \/ \E t \in Threads, q \in Asked : FakeCPUID(t, q)
  \/ PatchSchedGetaffinity

Spec == Init /\ [][Next]_vars

-----------------------------------------------------------------------------
Told(t) == th.got[t].cpu # None

(* A thread is told of a cpu of the process's affinity mask, as far as the *)
(* program's set goes, and CPUID of at least as many as the mask has.      *)
CpusInMask ==
  /\ \A t \in Threads : Told(t) /\ pc.set # {} /\ th.got[t].cpu < pc.size => th.got[t].cpu \in pc.set
  /\ pc.field # None /\ NumCores <= MaxField + 1 => Cardinality(pc.set) <= pc.field + 1

(* Threads told of one cpu (or APIC id, as long as there are enough) were  *)
(* on the same core; and what they were told depends on nothing else.      *)
CpusTellCores ==
  \A t, u \in Threads :
    (Told(t) /\ Told(u) /\ th.got[t].at # None /\ th.got[u].at # None) =>
      /\ th.got[t].cpu = th.got[u].cpu <=> th.got[t].at = th.got[u].at
      /\ (th.got[t].apic = th.got[u].apic /\ th.got[t].apic \notin {None, MaxApic})
           => th.got[t].at = th.got[u].at

(* CPUID answers with the record asked for, or the one immediately before. *)
CpusExact == CpusInMask /\ CpusTellCores /\ ~pc.wrong

================================================================================
