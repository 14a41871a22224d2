--------------------------------- MODULE Decoder ---------------------------------
(***************************************************************************)
(* The decoder of the out-of-order core (decoder.cpp): a basic block       *)
(* becomes a sequence of uops, each with the cycle in which it leaves the  *)
(* decoders.  What matters of a uop is which registers it reads and which  *)
(* it writes: temporary ones carry the values from one uop of an           *)
(* instruction to another.  Latencies and ports are left out, and opcodes  *)
(* that are decoded alike go by one name.                                  *)
(***************************************************************************)
EXTENDS Integers, Sequences, SequencesExt, FiniteSets

CONSTANTS Blocks,   \* sequences of instructions: op, operands, lock, bytes
          Offsets   \* of the block from a 16-byte boundary

VARIABLES blk,  \* decodeBbl's block: code, offset, how far it is (pc, stage), uops, of each
                \* instruction its number of uops (counts)
          cyc   \* of each instruction: its predecode cycle (predec) and decode cycle (dec)

vars == <<blk, cyc>>

-----------------------------------------------------------------------------
(* Operands: registers, memory with a base register, or immediates.        *)
Reads(o) == "r" \in o.how
Writes(o) == "w" \in o.how
FlagsLast(regs) ==
  SelectSeq(regs, LAMBDA r : r # "flags") \o SelectSeq(regs, LAMBDA r : r = "flags")
Bases(ops) == [k \in DOMAIN ops |-> ops[k].reg]
OfKind(i, kinds, used(_)) == Bases(SelectSeq(i.operands, LAMBDA o : o.kind \in kinds /\ used(o)))

Loads(i) == OfKind(i, {"mem"}, Reads)
Stores(i) == OfKind(i, {"mem"}, Writes)
InRegs(i) == FlagsLast(OfKind(i, {"reg", "agen"}, Reads))
OutRegs(i) == FlagsLast(OfKind(i, {"reg"}, Writes))

LoadTemp == <<"load0", "load1">>
StoreTemp == <<"store0", "store1">>
AddrTemp == <<"addr0", "addr1">>
ExecTemp == <<"exec0", "exec1", "exec2">>
Temps == UNION {{t[k] : k \in DOMAIN t} : t \in {LoadTemp, StoreTemp, AddrTemp, ExecTemp}}

(* populateRegArrays: two more, for instructions that have fewer.          *)
SrcRegs(i) == SubSeq(LoadTemp, 1, Len(Loads(i))) \o InRegs(i) \o <<"none", "none">>
DstRegs(i) == SubSeq(StoreTemp, 1, Len(Stores(i))) \o OutRegs(i) \o <<"none", "none">>
Srcs(i) == Len(Loads(i)) + Len(InRegs(i))
Dsts(i) == Len(Stores(i)) + Len(OutRegs(i))

-----------------------------------------------------------------------------
(* The emitters.                                                           *)
Uop(type, s1, s2, d1, d2) == [type |-> type, rs |-> <<s1, s2>>, rd |-> <<d1, d2>>]
Exec(s1, s2, d1, d2) == <<Uop("general", s1, s2, d1, d2)>>
Fence == <<Uop("fence", "none", "none", "none", "none")>>
Load(i, k, dest) == <<Uop("load", Loads(i)[k], "none", IF dest = "none" THEN LoadTemp[k] ELSE dest, "none")>>
Store(i, k, src) ==
  <<Uop("addr", Stores(i)[k], "none", AddrTemp[k], "none"),
    Uop("store", AddrTemp[k], IF src = "none" THEN StoreTemp[k] ELSE src, "none", "none")>>
AllLoads(i) == FlattenSeq([k \in DOMAIN Loads(i) |-> Load(i, k, "none")])
AllStores(i) == FlattenSeq([k \in DOMAIN Stores(i) |-> Store(i, k, "none")])

BasicOp(i) ==
  AllLoads(i) \o Exec(SrcRegs(i)[1], SrcRegs(i)[2], DstRegs(i)[1], DstRegs(i)[2]) \o AllStores(i)

(* With an immediate there is no register.                                 *)
MoveSource(i) == IF Len(InRegs(i)) = 1 THEN InRegs(i)[1] ELSE "none"
BasicMove(i) ==
  CASE Loads(i) = <<>> /\ Stores(i) = <<>> -> Exec(MoveSource(i), "none", OutRegs(i)[1], "none")
    [] Loads(i) # <<>> /\ Stores(i) = <<>> -> Load(i, 1, OutRegs(i)[1])
    [] Loads(i) = <<>> /\ Stores(i) # <<>> -> Store(i, 1, MoveSource(i))
    [] Loads(i) # <<>> /\ Stores(i) # <<>> -> Load(i, 1, "none") \o Store(i, 1, LoadTemp[1])

(* An exchange with memory is fenced here, unless it has the LOCK prefix.  *)
(* (Before it, a fault: the order of the two moves.)                       *)
ImplicitFence(i) == IF i.lock THEN <<>> ELSE Fence
XchgOverwrites(i) ==
  IF Loads(i) # <<>>
  THEN Load(i, 1, "none") \o Exec(LoadTemp[1], "none", OutRegs(i)[1], "none")
         \o Exec(InRegs(i)[1], "none", ExecTemp[1], "none") \o Store(i, 1, ExecTemp[1]) \o ImplicitFence(i)
  ELSE Exec(InRegs(i)[2], "none", OutRegs(i)[1], "none") \o Exec(InRegs(i)[1], "none", ExecTemp[1], "none")
         \o Exec(ExecTemp[1], "none", OutRegs(i)[2], "none")
Xchg(i) ==
  IF Loads(i) # <<>>
  THEN Load(i, 1, "none") \o Exec(InRegs(i)[1], "none", ExecTemp[1], "none")
         \o Exec(LoadTemp[1], "none", OutRegs(i)[1], "none") \o Store(i, 1, ExecTemp[1]) \o ImplicitFence(i)
  ELSE Exec(InRegs(i)[1], "none", ExecTemp[1], "none") \o Exec(InRegs(i)[2], "none", OutRegs(i)[1], "none")
         \o Exec(ExecTemp[1], "none", OutRegs(i)[2], "none")

(* The load waits for the comparison, and goes to a temporary register.    *)
ConditionalMove(i) ==
  IF Loads(i) # <<>>
  THEN Exec(InRegs(i)[1], "none", ExecTemp[1], "none")
         \o <<Uop("load", Loads(i)[1], ExecTemp[1], LoadTemp[1], "none")>>
  ELSE Exec(InRegs(i)[2], InRegs(i)[1], ExecTemp[1], "none")
         \o Exec(OutRegs(i)[1], ExecTemp[1], OutRegs(i)[1], "none")

CompareAndExchange(i) ==
  LET s == SrcRegs(i)
      d == DstRegs(i)
      flags == d[3]
  IN AllLoads(i)
     \o (IF Loads(i) = <<>>
         THEN Exec(s[1], d[2], ExecTemp[1], flags) \o Exec(s[2], flags, ExecTemp[2], "none")
                \o Exec(s[3], flags, ExecTemp[3], "none") \o Exec(ExecTemp[1], ExecTemp[2], d[1], "none")
                \o Exec(ExecTemp[2], ExecTemp[3], d[2], "none")
         ELSE Exec(s[1], d[2], ExecTemp[1], flags) \o Exec(s[2], flags, d[1], "none")
                \o Exec(s[3], ExecTemp[1], d[2], "none"))
     \o AllStores(i)

(* Two uops in a chain, of which the second reads the second source again. *)
ChainedOp(i) ==
  AllLoads(i) \o Exec(SrcRegs(i)[1], SrcRegs(i)[2], ExecTemp[1], "none")
    \o Exec(ExecTemp[1], SrcRegs(i)[2], DstRegs(i)[1], DstRegs(i)[2]) \o AllStores(i)

Convert2Op(i) ==
  IF Stores(i) # <<>> \/ Srcs(i) # 1 \/ Len(OutRegs(i)) # 1 THEN <<>>
  ELSE AllLoads(i) \o Exec(SrcRegs(i)[1], "none", ExecTemp[1], "none")
         \o Exec(ExecTemp[1], "none", OutRegs(i)[1], "none")

Mul(i) ==
  IF Dsts(i) # 3 THEN BasicOp(i)
  ELSE LET s == SrcRegs(i)
           d == DstRegs(i)
       IN AllLoads(i) \o Exec(s[1], s[2], d[1], ExecTemp[1]) \o Exec(s[1], s[2], d[2], ExecTemp[2])
            \o Exec(ExecTemp[1], ExecTemp[2], d[3], "none") \o AllStores(i)

Div(i) ==
  LET s == SrcRegs(i)
      d == DstRegs(i)
  IN CASE Srcs(i) = 3 /\ Dsts(i) = 3 ->
            AllLoads(i) \o Exec(s[1], s[2], ExecTemp[1], "none") \o Exec(s[1], s[3], ExecTemp[2], "none")
              \o Exec(ExecTemp[1], ExecTemp[2], d[1], d[2]) \o Exec(ExecTemp[1], ExecTemp[2], d[3], "none")
              \o AllStores(i)
       [] Srcs(i) = 2 /\ Dsts(i) = 2 ->
            AllLoads(i) \o Exec(s[1], s[2], ExecTemp[1], "none") \o Exec(ExecTemp[1], "none", d[1], d[2])
              \o AllStores(i)
       [] OTHER -> <<>>

-----------------------------------------------------------------------------
(* decodeInstr, by category: uops and whether they are inaccurate.         *)
Moves(i) ==
  CASE i.op = "mov" -> BasicMove(i)
    [] i.op = "movhps" -> BasicOp(i)
    [] i.op = "xchg" -> Xchg(i)
    [] i.op = "cmov" -> ConditionalMove(i)
Arithmetic(i) ==
  CASE i.op = "adc" -> ChainedOp(i)
    [] i.op = "mul" -> Mul(i)
    [] i.op = "div" -> Div(i)
    [] i.op \in {"add", "cmp", "test"} -> BasicOp(i)
Bits(i) ==
  CASE i.op = "shld" -> ChainedOp(i)
    [] i.op = "and" -> BasicOp(i)
Flagops(i) ==
  CASE i.op = "sahf" -> BasicOp(i)
    [] i.op = "cld" -> Exec("none", "none", ExecTemp[1], "none") \o Exec(ExecTemp[1], "none", "flags", "none")
Semaphores(i) ==
  CASE i.op = "cmpxchg" -> CompareAndExchange(i)
    [] i.op = "xadd" -> ChainedOp(i)
Sse(i) == BasicOp(i)
Converts(i) ==
  CASE i.op = "cvtss2sd" -> BasicOp(i)
    [] i.op = "cvtsd2ss" -> Convert2Op(i)
ControlFlow(i) == BasicOp(i)
Stack(i) ==
  CASE i.op \in {"push", "pop"} -> BasicMove(i)
    [] i.op = "pushf" -> ChainedOp(i)
    [] i.op = "popf" -> BasicOp(i)
Strings(i) ==
  LET next(r) == Exec(r, "none", r, "none")
  IN CASE i.op = "stos" -> Store(i, 1, "rax") \o next("rdi")
       [] i.op = "lods" -> Load(i, 1, "rax") \o next("rsi")
       [] i.op = "movs" -> Load(i, 1, "rax") \o Store(i, 1, "rax") \o next("rsi") \o next("rdi")
       [] i.op = "cmps" -> Load(i, 1, LoadTemp[1]) \o Load(i, 1, LoadTemp[2])
                             \o Exec(LoadTemp[1], LoadTemp[2], "flags", "none") \o next("rsi") \o next("rdi")
Misc(i) ==
  CASE i.op = "lea" -> BasicOp(i)
    [] i.op = "pause" -> FlattenSeq([k \in 1..5 |-> Exec("none", "none", "none", "none")])
    [] i.op = "nop" -> Exec("none", "none", "none", "none")
    [] i.op = "prefetch" -> AllLoads(i)

(* Anything else is made a basic operation.  An atomic update is fenced:   *)
(* INS_IsAtomicUpdate holds of an exchange with memory, prefix or not,     *)
(* which without the prefix thus gets two fences after it.                 *)
ByCategory(i) ==
  CASE i.op \in {"mov", "movhps", "xchg", "cmov"} -> Moves(i)
    [] i.op \in {"adc", "mul", "div", "add", "cmp", "test"} -> Arithmetic(i)
    [] i.op \in {"shld", "and"} -> Bits(i)
    [] i.op \in {"sahf", "cld"} -> Flagops(i)
    [] i.op \in {"cmpxchg", "xadd"} -> Semaphores(i)
    [] i.op \in {"cvtss2sd", "cvtsd2ss"} -> Converts(i)
    [] i.op \in {"push", "pop", "pushf", "popf"} -> Stack(i)
    [] i.op \in {"stos", "lods", "movs", "cmps"} -> Strings(i)
    [] i.op \in {"lea", "pause", "nop", "prefetch"} -> Misc(i)
    [] i.op = "addps" -> Sse(i)
    [] i.op \in {"jz", "js", "jmp", "call", "ret"} -> ControlFlow(i)
    [] OTHER -> <<>>
Body(i) == IF ByCategory(i) = <<>> THEN BasicOp(i) ELSE ByCategory(i)
IsAtomicUpdate(i) == i.lock \/ (i.op = "xchg" /\ Loads(i) # <<>>)
DecodeInstr(i) == IF IsAtomicUpdate(i) THEN Fence \o Body(i) \o Fence ELSE Body(i)

(* canFuse; decodeFusedInstrs: the jump's destination is added.            *)
CanFuse(i, j) ==
  /\ i.op \in {"cmp", "test"} /\ \A k \in DOMAIN i.operands : i.operands[k].kind # "imm"
  /\ j.op = "jz" \/ (j.op = "js" /\ i.op = "test")
DecodeFused(i) ==
  BasicOp(IF OutRegs(i) # <<"flags">> THEN i
          ELSE [i EXCEPT !.operands = Append(@, [kind |-> "reg", reg |-> "rip", how |-> {"w"}])])

-----------------------------------------------------------------------------
(* decodeBbl: all instructions, then the predecoders, then the decoders.   *)
Init ==
  \E code \in Blocks, o \in Offsets :
    /\ blk = [code |-> code, offset |-> o, pc |-> 1, uops |-> <<>>, counts |-> <<>>, stage |-> "instrs"]
    /\ cyc = [predec |-> <<>>, dec |-> <<>>]

Fusing == blk.pc < Len(blk.code) /\ CanFuse(blk.code[blk.pc], blk.code[blk.pc + 1])
Decode ==
  /\ blk.stage = "instrs" /\ blk.pc <= Len(blk.code)
  /\ \E us \in {IF Fusing THEN DecodeFused(blk.code[blk.pc]) ELSE DecodeInstr(blk.code[blk.pc])} :
       blk' = [blk EXCEPT !.uops = @ \o us,
                 !.pc = @ + IF Fusing THEN 2 ELSE 1,
                 !.counts = @ \o IF Fusing THEN <<Len(us), 0>> ELSE <<Len(us)>>]
  /\ UNCHANGED cyc

(* The predecoders take 16 bytes of one 16-byte block, and six             *)
(* instructions, a cycle.  (Before it, a fault: one instruction more.)     *)
Taken(p, bytes, block) ==
  IF p.size + bytes > 16 \/ p.n > 6 \/ block > p.block
  THEN [p EXCEPT !.size = bytes, !.n = 1, !.block = block, !.cycle = @ + 1]
  ELSE [p EXCEPT !.size = @ + bytes, !.n = @ + 1]
Predecoded(p, bytes, block) ==
  IF p.size + bytes > 16 \/ p.n + 1 > 6 \/ block > p.block
  THEN [p EXCEPT !.size = bytes, !.n = 1, !.block = block, !.cycle = @ + 1]
  ELSE [p EXCEPT !.size = @ + bytes, !.n = @ + 1]
Predecode ==
  /\ blk.stage = "instrs" /\ blk.pc > Len(blk.code)
  /\ blk' = [blk EXCEPT !.stage = "predecoded"]
  /\ \E p \in {FoldLeft(LAMBDA a, i :
                    LET q == Predecoded(a.state, i.bytes, a.addr \div 16)
                    IN [state |-> q, addr |-> a.addr + i.bytes, cycles |-> Append(a.cycles, q.cycle)],
                  [state |-> [size |-> 0, n |-> 0, block |-> 0, cycle |-> 0], addr |-> blk.offset,
                   cycles |-> <<>>],
                  blk.code)} :
       cyc' = [cyc EXCEPT !.predec = p.cycles]

(* Four decoders, of which one takes any instruction and the others those  *)
(* that are one uop of up to seven bytes.  Fused jumps come with theirs.   *)
Simple(k) == blk.counts[k] = 1 /\ blk.code[k].bytes < 8
NextCycle(d, k) == IF Simple(k) THEN d.simple + d.complex = 4 ELSE d.complex = 1
Decoded(a, k) ==
  LET d == IF cyc.predec[k] > a.cycle
           THEN [a EXCEPT !.cycle = cyc.predec[k], !.simple = 0, !.complex = 0] ELSE a
      e == IF NextCycle(d, k) THEN [d EXCEPT !.cycle = @ + 1, !.simple = 0, !.complex = 0] ELSE d
  IN IF blk.counts[k] = 0 THEN [a EXCEPT !.cycles = Append(@, a.cycle)]
     ELSE [e EXCEPT !.simple = IF Simple(k) THEN @ + 1 ELSE @, !.complex = IF Simple(k) THEN @ ELSE @ + 1,
             !.cycles = Append(@, e.cycle)]
DecodeCycles ==
  /\ blk.stage = "predecoded"
  /\ blk' = [blk EXCEPT !.stage = "done"]
  /\ \E d \in {FoldLeft(Decoded, [cycle |-> 0, simple |-> 0, complex |-> 0, cycles |-> <<>>],
                         [k \in DOMAIN blk.code |-> k])} :
       cyc' = [cyc EXCEPT !.dec = d.cycles]

Next == Decode \/ Predecode \/ DecodeCycles

-----------------------------------------------------------------------------
(* What an instruction's uops make of its inputs: where the value of each  *)
(* register comes from, and what is stored.                                *)
UopsOf(k) ==
  LET before == FoldLeft(+, 0, SubSeq(blk.counts, 1, k - 1))
  IN SubSeq(blk.uops, before + 1, before + blk.counts[k])
Named(r) == IF r = "none" THEN {} ELSE {r}
From(m, r) ==
  CASE r = "none" -> {}
    [] r \in DOMAIN m.regs -> m.regs[r]
    [] r \in Temps \ DOMAIN m.regs -> {<<"stale", r>>}
    [] OTHER -> {<<"reg", r>>}
Run(m, u) ==
  LET v == From(m, u.rs[1]) \cup From(m, u.rs[2]) \cup (IF u.type = "load" THEN {<<"mem", u.rs[1]>>} ELSE {})
      dests == Named(u.rd[1]) \cup Named(u.rd[2])
  IN [regs |-> [r \in dests \cup DOMAIN m.regs |-> IF r \in dests THEN v ELSE m.regs[r]],
      all |-> m.all \cup v,
      stored |-> IF u.type = "store" THEN Append(m.stored, From(m, u.rs[2])) ELSE m.stored]
Outcome(k) == FoldLeft(Run, [regs |-> [r \in {} |-> {}], all |-> {}, stored |-> <<>>], UopsOf(k))

Known(k, ops) == blk.code[k].op \in ops
FromMemory(k) == Loads(blk.code[k]) # <<>>
Immediate(i) == InRegs(i) = <<>> /\ Loads(i) = <<>> /\ i.op \in {"mov", "push"}
Inputs(i) == {<<"reg", InRegs(i)[j]>> : j \in DOMAIN InRegs(i)} \cup {<<"mem", Loads(i)[j]>> : j \in DOMAIN Loads(i)}
RegsOf(q) == {q[j] : j \in DOMAIN q}

(* No instruction depends on an earlier one through a temporary register.  *)
(* A store of an immediate does: its missing register is taken for the     *)
(* default (decoder.cpp:191, 261).                                         *)
NoFalseDependence(k) == Immediate(blk.code[k]) \/ \A v \in Outcome(k).all : v[1] # "stale"

(* Every input goes into some output, and every output is written.  Not so *)
(* with more than two of either in one uop, of which the decoder warns or, *)
(* in chains, does not (decoder.cpp:425: the second source again); with a  *)
(* conditional move from memory, whose register is not written (:308); and *)
(* with CMPS, which loads the first operand twice (:1170).                 *)
TooMany(i) == Srcs(i) > 2 \/ Dsts(i) > 2
InputsUsed(k) ==
  LET i == blk.code[k]
      m == Outcome(k)
  IN \/ (TooMany(i) /\ ~Known(k, {"mul", "div", "cmpxchg"})) \/ Known(k, {"cmps", "prefetch"})
     \/ (Known(k, {"cmov"}) /\ FromMemory(k))
     \/ Inputs(i) \subseteq UNION ({m.regs[r] : r \in DOMAIN m.regs \ Temps} \cup {m.stored[j] : j \in DOMAIN m.stored})
OutputsWritten(k) ==
  LET i == blk.code[k]
      m == Outcome(k)
  IN \/ (TooMany(i) /\ ~Known(k, {"mul", "div", "cmpxchg"})) \/ (Known(k, {"cmov"}) /\ FromMemory(k))
     \/ (RegsOf(OutRegs(i)) \subseteq DOMAIN m.regs /\ Len(m.stored) = Len(Stores(i)))

(* No other register is, but by string operations (MOVS goes through rax). *)
OthersKept(k) ==
  DOMAIN Outcome(k).regs \subseteq
    Temps \cup RegsOf(OutRegs(blk.code[k]))
      \cup (IF k < Len(blk.code) /\ blk.counts[k + 1] = 0 THEN {"rip"} ELSE {})
      \cup (IF Known(k, {"stos", "lods", "movs", "cmps"}) THEN {"rax", "rsi", "rdi", "flags"} ELSE {})

(* An exchange exchanges.                                                  *)
Exchanged(k) ==
  LET i == blk.code[k]
      m == Outcome(k)
      a == <<"reg", InRegs(i)[1]>>
  IN Known(k, {"xchg"}) =>
       IF FromMemory(k)
       THEN m.stored = <<{a}>> /\ a \notin m.regs[OutRegs(i)[1]]
       ELSE m.regs[OutRegs(i)[1]] = {<<"reg", InRegs(i)[2]>>} /\ m.regs[OutRegs(i)[2]] = {a}

(* What a cycle can hold: of the predecoders, six instructions, 16 bytes   *)
(* that begin in one block; of the decoders, four instructions, one of     *)
(* them complex.  Once a complex one has come fifth, the count of four is  *)
(* never met and more may follow (decoder.cpp:1417).                       *)
At(f, c) == {k \in DOMAIN blk.code : blk.counts[k] > 0 /\ f[k] = c}
Start(k) == blk.offset + FoldLeft(+, 0, [j \in 1 .. k - 1 |-> blk.code[j].bytes])
Group(k) == {j \in DOMAIN blk.code : cyc.predec[j] = cyc.predec[k]}
FitsPredecoders(k) ==
  /\ Cardinality(Group(k)) <= 6
  /\ \A j \in Group(k) : Start(j) \div 16 = Start(k) \div 16
  /\ Group(k) = {k} \/ \A j \in Group(k) : j <= k => Start(k) + blk.code[k].bytes - Start(j) <= 16
FitsDecoders(k) ==
  LET group == At(cyc.dec, cyc.dec[k])
      complex == {j \in group : ~Simple(j)}
  IN /\ cyc.predec[k] <= cyc.dec[k]
     /\ \A j \in DOMAIN cyc.dec : j < k => cyc.dec[j] <= cyc.dec[k]
     /\ Cardinality(complex) <= 1
     /\ Cardinality(group) <= 4 \/ \E j \in complex : Cardinality({l \in group : l < j}) = 4

DecoderExact ==
  blk.stage = "done" =>
    \A k \in {j \in DOMAIN blk.code : blk.counts[j] > 0} :
      /\ NoFalseDependence(k) /\ InputsUsed(k) /\ OutputsWritten(k) /\ OthersKept(k) /\ Exchanged(k)
      /\ FitsPredecoders(k) /\ FitsDecoders(k)
      /\ blk.counts[k] < 12
=============================================================================
