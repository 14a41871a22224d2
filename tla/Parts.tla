--------------------------------- MODULE Parts ---------------------------------
(***************************************************************************)
(* The smaller components, side by side: a behaviour is a behaviour of one *)
(* of them, and the others are not there.  Each is specified in a module   *)
(* of its own and shares nothing with the others here.                     *)
(***************************************************************************)
EXTENDS Integers, Sequences, TLC

VARIABLES part, x, y

vars == <<part, x, y>>

-----------------------------------------------------------------------------
(* Instructions for the decoder: of every group of opcodes that are        *)
(* decoded alike, the forms Pin gives them (registers in the order of the  *)
(* operands, rsp and the pointers of string operations only as bases of    *)
(* memory operands), and blocks of them.                                   *)
R(r) == [kind |-> "reg", reg |-> r, how |-> {"r"}]
W(r) == [kind |-> "reg", reg |-> r, how |-> {"w"}]
RW(r) == [kind |-> "reg", reg |-> r, how |-> {"r", "w"}]
MR(r) == [kind |-> "mem", reg |-> r, how |-> {"r"}]
MW(r) == [kind |-> "mem", reg |-> r, how |-> {"w"}]
MRW(r) == [kind |-> "mem", reg |-> r, how |-> {"r", "w"}]
Imm == [kind |-> "imm", reg |-> "none", how |-> {"r"}]
Agen(r) == [kind |-> "agen", reg |-> r, how |-> {"r"}]
I(op, ops, lock, bytes) == [op |-> op, operands |-> ops, lock |-> lock, bytes |-> bytes]
Instrs ==
  {I("mov", <<W("rax"), R("rbx")>>, FALSE, 3), I("mov", <<W("rax"), MR("rbx")>>, FALSE, 4),
   I("mov", <<MW("rbx"), R("rax")>>, FALSE, 4), I("mov", <<MW("rbx"), Imm>>, FALSE, 9),
   I("mov", <<W("rax"), Imm>>, FALSE, 10),
   I("movhps", <<RW("xmm"), MR("rbx")>>, FALSE, 4),
   I("xchg", <<RW("rax"), RW("rbx")>>, FALSE, 2), I("xchg", <<MRW("rbx"), RW("rax")>>, FALSE, 3),
   I("xchg", <<MRW("rbx"), RW("rax")>>, TRUE, 4),
   I("cmov", <<W("rax"), R("rbx"), R("flags")>>, FALSE, 4),
   I("cmov", <<W("rax"), MR("rbx"), R("flags")>>, FALSE, 4),
   I("adc", <<RW("rax"), R("rbx"), R("flags"), W("flags")>>, FALSE, 3),
   I("adc", <<RW("rax"), Imm, R("flags"), W("flags")>>, FALSE, 3),
   I("mul", <<R("rbx"), RW("rax"), W("rdx"), W("flags")>>, FALSE, 3),
   I("mul", <<MR("rbx"), RW("rax"), W("rdx"), W("flags")>>, FALSE, 3),
   I("mul", <<RW("rax"), R("rbx"), W("flags")>>, FALSE, 4),
   I("div", <<R("rbx"), RW("rax"), RW("rdx"), W("flags")>>, FALSE, 3),
   I("div", <<MR("rbx"), RW("rax"), W("flags")>>, FALSE, 3),
   I("add", <<RW("rax"), R("rbx"), W("flags")>>, FALSE, 3),
   I("add", <<MRW("rbx"), R("rax"), W("flags")>>, TRUE, 4),
   I("add", <<MRW("rbx"), Imm, W("flags")>>, FALSE, 8),
   I("cmp", <<R("rax"), R("rbx"), W("flags")>>, FALSE, 3),
   I("cmp", <<R("rax"), MR("rbx"), W("flags")>>, FALSE, 4), I("test", <<R("rax"), R("rbx"), W("flags")>>, FALSE, 3),
   I("shld", <<RW("rax"), R("rbx"), R("rcx"), W("flags")>>, FALSE, 4),
   I("and", <<MRW("rbx"), R("rax"), W("flags")>>, FALSE, 4),
   I("cld", <<W("flags")>>, FALSE, 1), I("sahf", <<R("rax"), W("flags")>>, FALSE, 1),
   I("cmpxchg", <<RW("rbx"), R("rcx"), RW("rax"), W("flags")>>, FALSE, 4),
   I("cmpxchg", <<MRW("rbx"), R("rcx"), RW("rax"), W("flags")>>, TRUE, 5),
   I("xadd", <<MRW("rbx"), RW("rcx"), W("flags")>>, TRUE, 5), 
   I("addps", <<RW("xmm"), MR("rbx")>>, FALSE, 4), I("cvtsd2ss", <<W("xmm"), MR("rbx")>>, FALSE, 4),
   I("cvtss2sd", <<W("xmm"), R("xmm1")>>, FALSE, 4),
   I("jz", <<Imm, RW("rip"), R("flags")>>, FALSE, 2), I("js", <<Imm, RW("rip"), R("flags")>>, FALSE, 6),
   I("call", <<Imm, RW("rip"), MW("rsp")>>, FALSE, 5), I("ret", <<MR("rsp"), W("rip")>>, FALSE, 1),
   I("push", <<R("rax"), MW("rsp")>>, FALSE, 1),
   I("push", <<Imm, MW("rsp")>>, FALSE, 2), I("push", <<MR("rbx"), MW("rsp")>>, FALSE, 3),
   I("pop", <<W("rax"), MR("rsp")>>, FALSE, 1),
   I("pushf", <<MW("rsp"), R("flags")>>, FALSE, 1), I("popf", <<MR("rsp"), W("flags")>>, FALSE, 1),
   I("stos", <<MW("rdi"), R("rax")>>, FALSE, 1), I("lods", <<W("rax"), MR("rsi")>>, FALSE, 1),
   I("movs", <<MW("rdi"), MR("rsi")>>, FALSE, 1),
   I("cmps", <<MR("rsi"), MR("rdi"), W("flags")>>, FALSE, 1),
   I("lea", <<W("rax"), Agen("rbx")>>, FALSE, 4),
   I("pause", <<>>, FALSE, 2), I("nop", <<>>, FALSE, 15), I("prefetch", <<MR("rbx")>>, FALSE, 3),
   I("unknown", <<RW("xmm"), MR("rbx")>>, FALSE, 4), I("unknown", <<RW("xmm"), MRW("rbx")>>, TRUE, 4)}
Shapes == {I("mov", <<W("rax"), R("rbx")>>, FALSE, 2), I("push", <<R("rax"), MW("rsp")>>, FALSE, 1)}
Jumps == {i \in Instrs : i.op \in {"jz", "js"}}

(* Each by itself, before a jump it may fuse with, and blocks that fill    *)
(* the decoders.                                                           *)
Blocks ==
  {<<i>> : i \in Instrs} \cup {<<i, j>> : i \in Instrs, j \in Jumps} \cup [1..7 -> Shapes]
    \cup [1..5 -> Shapes \cup {I("mov", <<W("rax"), Imm>>, FALSE, 10)}]

(* Configurations: every way three groups of caches can name each other, a *)
(* stranger or nobody as children; and, for the topologies that are used,  *)
(* every small number of caches, banks and cores.                          *)
Names == {"a", "b", "c"}
Core(n, t, k, c) == [name |-> n, type |-> t, n |-> k, cache |-> c]
Cfg(kids, caches, banks, cores, mems, split) ==
  [groups |-> <<"a", "b", "c">>, kids |-> kids, caches |-> caches, banks |-> banks,
   cores |-> cores, mems |-> mems, split |-> split]

Lists == {<<>>, <<<<"x">>>>, <<<<"a", "a">>>>} \cup {<<<<n>>>> : n \in Names}
         \cup {<<<<n>>, <<m>>>> : n, m \in {"b", "c"}} \cup {<<<<"b", "c">>>>, <<<<"c", "a">>>>}
Graphs ==
  {Cfg([n \in Names |-> IF n = "a" THEN k ELSE IF n = "b" THEN l ELSE m],
       [n \in Names |-> 1], [n \in Names |-> 1], <<Core("k", "CacheModel", 1, "c")>>, 1, FALSE) :
     k \in Lists, l \in Lists, m \in Lists}

Chain == [n \in Names |-> IF n = "a" THEN <<<<"b">>>> ELSE IF n = "b" THEN <<<<"c">>>> ELSE <<>>]
Fork(k) == [n \in Names \cup {"m"} |-> IF n = "m" THEN <<<<"a">>>> ELSE IF n = "a" THEN k ELSE <<>>]
Pairs == {<<Core("k", "CacheModel", i, "b"), Core("l", "FetchModel", j, "c")>> : i, j \in {1, 2}}
Singles == {<<Core("k", "CacheModel", i, "c"), Core("l", "IssueModel", 1, "")>> : i \in {1, 2, 4}}
           \cup {<<Core("k", "FetchModel", 1, "c"), Core("l", "CacheModel", 1, "c")>>,
                 <<Core("b", "CacheModel", 1, "c")>>, <<Core("k", "OOO", 1, "c")>>,
                 <<Core("k", "CacheModel", 1, "b")>>, <<Core("a", "IssueModel", 1, "")>>}
Sizes ==
  {[Cfg(Fork(k), [n \in Names \cup {"m"} |-> CASE n = "m" -> 1 [] n = "a" -> p [] n = "b" -> q [] n = "c" -> r],
        [n \in Names \cup {"m"} |-> IF n = "m" THEN s ELSE IF n = "b" THEN t ELSE 1], cores, 2, TRUE)
      EXCEPT !.groups = Append(@, "m")] :
     k \in {<<<<"b">>, <<"c">>>>, <<<<"c", "b">>>>}, p \in {1, 2}, q \in {1, 2}, r \in {1, 2},
     s \in {1, 2}, t \in {1, 2}, cores \in Pairs}
  \cup {Cfg(Chain, [n \in Names |-> IF n = "a" THEN 1 ELSE IF n = "b" THEN q ELSE r],
            [n \in Names |-> IF n = "c" THEN 1 ELSE IF n = "a" THEN s ELSE t], cores, 2, s = 1) :
          q \in 0..2, r \in {0, 1, 2, 3, 4}, s \in {1, 2}, t \in {1, 2, 3}, cores \in Singles}
  \cup {[Cfg(Chain, [n \in Names |-> 1], [n \in Names |-> 1], <<Core("k", "CacheModel", 1, "c")>>, 1, FALSE)
          EXCEPT !.groups = <<"mem">>, !.kids = [n \in {"mem"} |-> <<>>]],
        [Cfg(Chain, [n \in Names |-> 1], [n \in Names |-> 1], <<Core("k", "IssueModel", 2, "")>>, 1, FALSE)
          EXCEPT !.groups = <<>>]}

Configurations == Graphs \cup Sizes

(* The banks to ask BankBuild for.                                         *)
Ask(l, t, a, w, c, h, r, u) ==
  [lines |-> l, odd |-> FALSE, terminal |-> t, type |-> u, array |-> a, ways |-> w, cands |-> c, hash |-> h,
   repl |-> r, mapper |-> "Core", buckets |-> 256, nonInclusive |-> FALSE, mshrs |-> 16]
Plain == Ask(8, FALSE, "SetAssoc", 2, 0, "default", "default", "Timing")
Policies == {"default", "LRU", "LRUNoSh", "LFU", "LRUProfViol", "TreeLRU", "NRU", "Rand", "WayPart",
             "Vantage", "IdealLRUPart", "MRU"}
Banks ==
  {Ask(l, t, a, w, 4, "default", r, u) : l \in {0, 2, 8, 9}, t \in BOOLEAN, w \in {0, 1, 2, 3},
     a \in {"SetAssoc", "Z", "IdealLRU", "IdealLRUPart"}, r \in Policies, u \in {"Simple", "Timing"}}
  \cup {Ask(8, t, a, 2, c, h, "default", u) : t \in BOOLEAN, a \in {"SetAssoc", "Z", "Random"}, c \in {0, 1},
          h \in {"None", "H3", "SHA1"}, u \in {"Simple", "Timing"}}
  \cup {[Plain EXCEPT !.nonInclusive = TRUE, !.type = u, !.terminal = t] : u \in {"Simple", "Timing"}, t \in BOOLEAN}
  \cup {[Plain EXCEPT !.odd = TRUE], [Plain EXCEPT !.mshrs = 0], [Plain EXCEPT !.repl = "Vantage", !.mapper = "Thread"]}

-----------------------------------------------------------------------------
C(m, f, l, n) == [mode |-> m, ff |-> f, left |-> l, n |-> n]
Par(a, b) == (0 :> a) @@ (1 :> b)
(* A process that makes another, and two that wait for each other's       *)
(* fast-forward, one of which may be restarted.                            *)
Configs ==
  {C(Par(m, m), Par(m = "multi", m = "multi"), Par(0, 0), 1) : m \in {"never", "multi"}}
  \cup {C(Par("always", "always"), Par(FALSE, l = 1), Par(0, l), 2) : l \in {0, 1}}

P == INSTANCE Processes WITH proc <- x, sim <- y, Procs <- {0, 1}, Togglers <- {1},
       MaxPhases <- 2, MaxToggles <- 1, MaxSleep <- 1
ASSUME ProcessesFit == P!ConstantsFit

(* Two processes that are both toggled in and out of fast-forward.         *)
P2 == INSTANCE Processes WITH proc <- x, sim <- y, Procs <- {0, 1}, Togglers <- {0, 1},
        Configs <- {C(Par("never", "never"), Par(FALSE, FALSE), Par(0, 0), 2)},
        MaxPhases <- 1, MaxToggles <- 2, MaxSleep <- 0

HN == INSTANCE Harness WITH kid <- x, h <- y, Last <- 1, Restarts <- {1}, StallLimit <- 1,
       MaxPhases <- 1, MaxTrouble <- 1

FM == INSTANCE FutexMatching WITH th <- x, sh <- y, Threads <- 1..3, Asks <- {-1, 0, 2, 5},
        Cap <- 3, Half <- 8, MaxSteps <- 2
ASSUME MatchingFits == FM!ConstantsFit

AE == INSTANCE AdaptiveEvent WITH ev <- x, clock <- y, Targets <- {1, 2, 3, 4, 5, 7, 9, 12},
        Rates <- 1..5, MaxPhase <- 13

Timings == [tBL |-> 1, tCL |-> 2, tRCD |-> 2, tRTP |-> 1, tRP |-> 2, tRRD |-> 1, tRAS |-> 4,
            tFAW |-> 9, tWTR |-> 1, tWR |-> 2, tRFC |-> 4]
Q(b, r, w) == [bank |-> b, row |-> r, write |-> w]
D == INSTANCE DDRMemory WITH mc <- x, log <- y, Banks <- {1, 2},
       Reqs <- {Q(1, 1, FALSE), Q(1, 2, TRUE), Q(2, 1, FALSE)},
       Kinds <- {[deferredWrites |-> b, closedPage |-> ~b] : b \in BOOLEAN},
       QueueDepth <- 2, RowHitLimit <- 1, Window <- 2, T <- Timings, SysFreq <- 7, MemFreq <- 2,
       Gaps <- {0, 9}, MaxReqs <- 4

PQ == INSTANCE PrioQueue WITH pq <- x, seen <- y, B <- 4, K <- 2, MaxElems <- 3, Ahead <- 13,
        MaxCycle <- 30

U(t, a, b, d, l, p, e, dc) ==
  [type |-> t, rs |-> <<a, b>>, rd |-> d, lat |-> l, ports |-> p, extra |-> e, dec |-> dc]
Stream == {U("general", 1, 0, 1, 12, {0, 1}, 0, 1), U("general", 1, 2, 2, 1, {1}, 1, 0),
           U("load", 1, 0, 2, 0, {0}, 0, 0), U("store", 2, 0, 0, 0, {0}, 0, 0),
           U("addr", 1, 0, 0, 2, {1}, 0, 0), U("fence", 0, 0, 0, 3, {0, 1}, 0, 2)}
IM == INSTANCE IssueModel WITH core <- x, hist <- y, H <- 6, WSZ <- 3, Far <- 40, Uops <- Stream,
        Width <- 1, RFPorts <- 1, ROBSize <- 3, LQSize <- 1, SQSize <- 1, IQSize <- 3, L1DLat <- 4,
        Dispatch <- 6, Garbage <- {9}, MaxUops <- 4, Skews <- {7}

SL == INSTANCE Slices WITH th <- x, ct <- y, Size <- 3, MaxLen <- 2, Cores <- {1, 2},
        MaxCount <- 7, MaxBreaks <- 2

Code ==
  {[uops |-> <<U("addr", 1, 0, 0, 9, {}, 0, 0), U("store", 1, 2, 0, 0, {}, 0, 1), U("load", 0, 0, 1, 0, {}, 0, 1)>>,
    lines |-> 1, branch |-> FALSE],
   [uops |-> <<U("fence", 0, 0, 0, 1, {}, 0, 0), U("load", 0, 0, 2, 0, {}, 0, 1), U("general", 1, 2, 1, 20, {}, 0, 2)>>,
    lines |-> 2, branch |-> TRUE]}
CM == INSTANCE CoreModels WITH core <- x, env <- y, Blocks <- Code, Regs <- 0..2, Decode <- 3,
        Dispatch <- 6, DataLat <- 4, FetchLats <- {1, 8}, MemLats <- {20}, PhaseLength <- 30,
        Contention <- {0, 7}, MaxBlocks <- 3, MaxBreaks <- 1

TC == INSTANCE TimingCache WITH tc <- x, log <- y, NumReqs <- 3, MSHRs <- {1, 2}, AccLat <- 2,
        TagLat <- 2, Ways <- 3, Cands <- 12, Cycles <- {5, 6}, GetLats <- {1}, EvictLats <- {2}

Hashes ==
  {h \in [({0, 1} \X (1..5)) -> {0, 1}] :
     /\ h[<<0, 1>>] = 0 /\ h[<<0, 2>>] = 0 /\ h[<<0, 3>>] = 1 /\ h[<<0, 4>>] = 1
     /\ h[<<1, 1>>] = 0 /\ h[<<1, 2>>] = 1 /\ h[<<1, 3>>] = 0}
CA == INSTANCE CacheArrays WITH ca <- x, seen <- y, NumSets <- 2, Ways <- 2, Cands <- 9,
        Addrs <- 1..5

RP == INSTANCE Replacement WITH rp <- x, ln <- y, N <- 4, Word <- 8, Step <- 1, MaxShare <- 1,
        MaxTime <- 4

LA == INSTANCE Partitioning WITH mon <- x, hist <- y, NumParts <- {1, 2}, UmonBuckets <- 2,
        Buckets <- 4, Word <- 1000, Addrs <- 1..3, MaxAccesses <- 5, MaxIntervals <- 1

WP == INSTANCE WayPart WITH wp <- x, order <- y, Sets <- 2, Ways <- 4, NumParts <- {1, 2},
        MaxTime <- 6

IP == INSTANCE IdealPart WITH ip <- x, used <- y, NumLines <- 3, NumParts <- {1, 2}, Buckets <- 4,
        Addrs <- 1..4, MaxResizes <- 1

V == INSTANCE Vantage WITH vt <- x, ghost <- y, NumLines <- 4, NumParts <- 2, Managed <- 3,
       Granularity <- 5, Wrap <- 2, Turn <- 2, Interval <- 1, MaxTime <- 5, MaxResizes <- 1

CR == INSTANCE CoreRecorder WITH rec <- x, sim <- y, PhaseLength <- 10, Latencies <- {3, 12},
        Gaps <- {2}, Contention <- {0, 13}, MaxPhases <- 3, MaxAccesses <- 2, MaxLeaves <- 2

DE == INSTANCE Decoder WITH blk <- x, cyc <- y, Blocks <- Blocks, Offsets <- {0, 13}

Life(calls, n, k) ==
  [register |-> FALSE, blocking |-> FALSE, ff |-> FALSE, points |-> <<>>, calls |-> calls,
   n |-> n, forks |-> k]
Lives ==
  {Life({"timed"}, 2, 1), Life({"sleep", "skipped", "timed"}, 1, 0), Life({"plain", "invalid"}, 1, 0),
   [Life({"plain"}, 1, 0) EXCEPT !.register = TRUE],
   [Life({"plain"}, 1, 0) EXCEPT !.register = TRUE, !.ff = TRUE],
   [Life({"plain", "timed"}, 1, 0) EXCEPT !.blocking = TRUE]}
  \cup {[Life({"plain"}, 1, 0) EXCEPT !.points = <<3, 5, 4, 5>>, !.ff = f] : f \in BOOLEAN}
TH == INSTANCE Threads WITH th <- x, ps <- y, Threads <- {1, 2}, Cores <- {1, 2}, Configs <- Lives,
        BlockSizes <- {1, 2}, PhaseInstrs <- 2, MaxInstrs <- 20

HI == INSTANCE Hierarchy WITH cf <- x, sys <- y, Configs <- Configurations, Size <- 4,
        MaxChildren <- 4

BB == INSTANCE BankBuild WITH q <- x, bank <- y, Asked <- Banks

HF == INSTANCE Hashing WITH fn <- x, res <- y, Width <- 16, Unroll <- 2

TG == INSTANCE Tage WITH tg <- x, last <- y, Tables <- 3, IndexSize <- 2, TagSize <- 2, Base <- 2,
        Top <- 7, HistLength <- <<2, 4, 6>>, Programs <- {{1, 3}, {0, 1}}, Mixed <- 4, Same <- 18,
        Enough <- 12

SB == INSTANCE Slabs WITH sl <- x, ev <- y, Slots <- {1, 2, 3}, Size <- 9, EventSize <- 4,
        CrossingSize <- 6, BlockSize <- 2, BlockEvents <- 2, MaxKids <- 3, Threads <- {1, 2}, Events <- {1, 2}

CK == INSTANCE Clocks WITH ck <- x, pr <- y, Procs <- {1, 2}, Readers <- {1},
        DomainsOf <- {<<1, 1>>, <<1, 2>>}, PhaseLength <- 3, FreqMHz <- 1500, HostTicks <- 2,
        Blocks <- {2}, Sleeps <- {3}, Noon <- 100, MaxWall <- 101, MaxPhases <- 2, MaxToggles <- 2

PO == INSTANCE Ports WITH pv <- x, sk <- y, Sockets <- {1, 2, 3}, Ports <- {1, 2},
        DomainOf <- <<1, 1, 2>>

SA == INSTANCE Statistics WITH sim <- x, st <- y, Cores <- {1, 2}, NumGroups <- 2,
        GroupOf <- <<1, 2>>,
        Kinds <- {[skipVectors |-> b, compact |-> ~b] : b \in BOOLEAN}, RecordsPerWrite <- 2,
        MaxWork <- 2, MaxMoves <- 2, MaxPhases <- 2, MaxDumps <- 2

CU == INSTANCE Cpus WITH pc <- x, th <- y, NumCores <- 3, Threads <- {1, 2},
        Table <- {<<1, 0>>, <<4, 0>>, <<4, 1>>, <<5, 0>>, <<99, 0>>},
        Asked <- {<<1, 7>>, <<4, 0>>, <<4, 3>>}, SetSizes <- {1, 8}, MaxField <- 2, MaxApic <- 1

-----------------------------------------------------------------------------
Init ==
  \/ part = "processes" /\ P!Init
  \/ part = "control" /\ P2!Init
  \/ part = "harness" /\ HN!Init
  \/ part = "matching" /\ FM!Init
  \/ part = "event" /\ AE!Init
  \/ part = "memory" /\ D!Init
  \/ part = "queue" /\ PQ!Init
  \/ part = "issue" /\ IM!Init
  \/ part = "slices" /\ SL!Init
  \/ part = "cores" /\ CM!Init
  \/ part = "timing" /\ TC!Init
  \/ part = "arrays" /\ CA!Init
  \/ part = "replacement" /\ RP!Init
  \/ part = "lookahead" /\ LA!Init
  \/ part = "ways" /\ WP!Init
  \/ part = "ideal" /\ IP!Init
  \/ part = "vantage" /\ V!Init
  \/ part = "recorder" /\ CR!Init
  \/ part = "decoder" /\ DE!Init
  \/ part = "threads" /\ TH!Init
  \/ part = "hierarchy" /\ HI!Init
  \/ part = "banks" /\ BB!Init
  \/ part = "hashing" /\ HF!Init
  \/ part = "predictor" /\ TG!Init
  \/ part = "slabs" /\ SB!Init
  \/ part = "clocks" /\ CK!Init
  \/ part = "ports" /\ PO!Init
  \/ part = "statistics" /\ SA!Init
  \/ part = "cpus" /\ CU!Init

Next ==
  /\ UNCHANGED part
  /\ \/ part = "processes" /\ P!Next
     \/ part = "control" /\ P2!Next
     \/ part = "harness" /\ HN!Next
     \/ part = "matching" /\ FM!Next
     \/ part = "event" /\ AE!Next
     \/ part = "memory" /\ D!Next
     \/ part = "queue" /\ PQ!Next
     \/ part = "issue" /\ IM!Next
     \/ part = "slices" /\ SL!Next
     \/ part = "cores" /\ CM!Next
     \/ part = "timing" /\ TC!Next
     \/ part = "arrays" /\ CA!Next
     \/ part = "replacement" /\ RP!Next
     \/ part = "lookahead" /\ LA!Next
     \/ part = "ways" /\ WP!Next
     \/ part = "ideal" /\ IP!Next
     \/ part = "vantage" /\ V!Next
     \/ part = "recorder" /\ CR!Next
     \/ part = "decoder" /\ DE!Next
     \/ part = "threads" /\ TH!Next
     \/ part = "hierarchy" /\ HI!Next
     \/ part = "banks" /\ BB!Next
     \/ part = "hashing" /\ HF!Next
     \/ part = "predictor" /\ TG!Next
     \/ part = "slabs" /\ SB!Next
     \/ part = "clocks" /\ CK!Next
     \/ part = "ports" /\ PO!Next
     \/ part = "statistics" /\ SA!Next
     \/ part = "cpus" /\ CU!Next

(* A step of one of the instances of Processes, or of the harness.         *)
Step(A, B, H) ==
  /\ part \in {"processes", "control", "harness"} /\ UNCHANGED part
  /\ \/ part = "processes" /\ A
     \/ part = "control" /\ B
     \/ part = "harness" /\ H

(* What is fair in each of the three, of which a behaviour is one: a       *)
(* condition for each is one for their steps together.  Only a process     *)
(* that is toggled leaves its system calls for certain.                    *)
Fairness ==
  /\ WF_vars(Step(P!EndOfPhase, P2!EndOfPhase, HN!MainStep))
  /\ WF_vars(Step(P!WdLook, P2!WdLook, HN!HandlerStep))
  /\ WF_vars(Step(P!WdAct, P2!WdAct, FALSE))
  /\ \A p \in {0, 1} : /\ WF_vars(Step(P!AppStep(p), P2!AppStep(p), HN!ProcStep(p)))
                       /\ WF_vars(Step(P!FFStep(p), P2!FFStep(p), FALSE))
                       /\ WF_vars(Step(P!Restart(p), P2!Restart(p), FALSE))
  /\ WF_vars(Step(FALSE, P2!Syscall(0) \/ P2!SyscallExit(0), FALSE))
  /\ WF_vars(Step(P!Syscall(1) \/ P!SyscallExit(1), P2!Syscall(1) \/ P2!SyscallExit(1), FALSE))

Spec == Init /\ [][Next]_vars /\ Fairness

-----------------------------------------------------------------------------
(* Processes, fast-forward and termination, and the harness that looks     *)
(* after them: Processes.tla, Harness.tla.                                 *)
ProcessesExact ==
  /\ part = "processes" => P!ProcessesExact
  /\ part = "control" => P2!ProcessesExact
  /\ part = "harness" => HN!HarnessExact
  /\ part = "threads" => TH!ThreadsExact
  /\ part = "clocks" => CK!ClocksExact
  /\ part = "ports" => PO!PortsExact
  /\ part = "statistics" => SA!StatisticsExact
  /\ part = "cpus" => CU!CpusExact
ProcessesGoOn ==
  (part = "harness" \/ (part \in {"processes", "control"} /\ P!Pending)) ~>
    /\ part \in {"processes", "control"} => P!Over
    /\ part = "harness" => HN!Over

(* Futex wakes and waits: FutexMatching.tla.                               *)
MatchingExact == part = "matching" => FM!MatchingExact

(* Events and memory timing: AdaptiveEvent.tla, PrioQueue.tla,             *)
(* DDRMemory.tla, TimingCache.tla.                                         *)
TimingExact ==
  /\ part = "event" => AE!FiresInTime
  /\ part = "queue" => PQ!InOrder
  /\ part = "memory" => D!MemoryExact
  /\ part = "timing" => TC!TimingCacheExact
  /\ part = "recorder" => CR!RecorderExact
  /\ part = "slabs" => SB!SlabsExact

(* MeMo's core models, and its slices: IssueModel.tla, CoreModels.tla,     *)
(* Slices.tla.                                                             *)
ModelsExact ==
  /\ part = "issue" => IM!IssueExact
  /\ part = "cores" => CM!CoreModelsExact
  /\ part = "slices" => SL!SlicesExact
  /\ part = "decoder" => DE!DecoderExact
  /\ part = "predictor" => TG!TageExact

(* Where caches keep lines, and which they evict: CacheArrays.tla,         *)
(* Replacement.tla, Partitioning.tla, WayPart.tla, IdealPart.tla,          *)
(* Vantage.tla.                                                            *)
ArraysExact ==
  /\ part = "arrays" => CA!ArraysExact
  /\ part = "replacement" => RP!VictimsExact
  /\ part = "lookahead" => LA!PartitioningExact
  /\ part = "ways" => WP!WayPartExact
  /\ part = "ideal" => IP!IdealExact
  /\ part = "vantage" => V!VantageExact
  /\ part = "hierarchy" => HI!HierarchyExact
  /\ part = "banks" => BB!BankSound
  /\ part = "hashing" => HF!UsesEveryBitOnce
=============================================================================
