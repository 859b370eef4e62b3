---------------------------- MODULE MCUbpfInterp ----------------------------
(***************************************************************************)
(* Instances of UbpfInterp: every program of a bounded length over a small *)
(* alphabet of instructions.                                               *)
(***************************************************************************)
EXTENDS UbpfInterp

I(op, dst, src, off, imm, sz) ==
    [op |-> op, dst |-> dst, src |-> src, off |-> off, imm |-> imm, sz |-> sz]

ProgramsOver(alphabet, length) == UNION {[0 .. n - 1 -> alphabet] : n \in 1 .. length}

\* Functions at even positions use 16 bytes of stack, at odd ones none.
MCUsageOf(i) == IF i % 2 = 0 THEN 16 ELSE 0

\* Addition stands for the arithmetic; comparison with equality.
MCCompute(x, d, s) ==
    CASE x.op = "mov_imm" -> x.imm % AddressSpace
      [] x.op = "mov_reg" -> s
      [] x.op \in {"add_imm", "alu_imm"} -> (d + x.imm) % AddressSpace
      [] x.op \in {"add_reg", "alu_reg"} -> (d + s) % AddressSpace
      [] x.op = "sub_imm" -> (d - x.imm) % AddressSpace
      [] x.op = "sub_reg" -> (d - s) % AddressSpace
      [] x.op \in {"div_imm", "div_reg"} ->       \* dividing by 0 gives 0
            LET by == IF x.op = "div_reg" THEN s ELSE x.imm % AddressSpace
            IN IF by = 0 THEN 0 ELSE d \div by
      [] x.op = "neg"     -> (AddressSpace - d) % AddressSpace
      [] x.op = "endian"  -> d
MCJoin(lo, hi) == (lo % 8) + 8 * (hi % 8)
MCTaken(x, d, s) == IF x.op = "jcond_imm" THEN d = x.imm ELSE d = s
MCUserBounds(a, n) == a = 4 /\ n <= 2

Setting0 == [bounds |-> TRUE, ub |-> FALSE, limit |-> 0, unwind |-> -1,
             mem |-> 8, mem_len |-> 4, stack |-> 16, stack_len |-> 32]

\* Control flow: local calls, exits and jumps.
Exit == I("exit", 0, 0, 0, 0, 0)
CallAlphabet ==
    {Exit, I("mov_imm", 6, 0, 0, 1, 0), I("add_imm", 6, 0, 0, 1, 0),
     I("jcond_imm", 6, 0, 1, 3, 0), I("jcond_imm", 6, 0, -3, 3, 0),
     I("ja", 0, 0, -2, 0, 0), I("ja32", 0, 0, 0, 0, 0), I("call", 0, 0, 0, 1, 0)}
    \cup {I("call", 0, 1, 0, imm, 0) : imm \in {-2, 0, 1, 2}}
\* The second stack is too small for the calls: R10 wraps below address 0.
CallSettings ==
    {[Setting0 EXCEPT !.limit = 5], Setting0,
     [Setting0 EXCEPT !.unwind = 1, !.stack = 4, !.stack_len = 8]}

\* Memory: loads, stores and atomics around the edges of the regions, of the
\* range the callback accepts and of the address space.
MemoryAlphabet ==
    {Exit, I("mov_imm", 1, 0, 0, 4, 0), I("mov_imm", 1, 0, 0, 62, 0), I("mov_reg", 0, 3, 0, 0, 0), I("div_reg", 0, 3, 0, 0, 0),
     I("lddw", 1, 0, 0, 7, 0), I("zero", 0, 0, 0, 7, 0), I("call", 0, 0, 0, 1, 0),
     I("jcond_reg", 1, 2, 1, 0, 0)}
    \cup {I("ldx", 0, b, off, 0, 2) : b \in {1, 10}, off \in {-2, 0}}
    \cup {I("stx", b, 3, off, 0, 2) : b \in {1, 10}, off \in {-2, 3}}
    \cup {I("st", 10, 0, -1, 0, 2), I("atomic", 1, 3, 0, AtomicFetch, 2),
          I("atomic", 10, 3, -2, AtomicCmpXchg, 2), I("atomic", 1, 3, 2, AtomicPlain, 2)}
MemorySettings ==
    [bounds : {TRUE}, ub : BOOLEAN, limit : {0}, unwind : {1},
     mem : {0, 8, 60}, mem_len : {4}, stack : {16}, stack_len : {16, 47}]
    \cup {[Setting0 EXCEPT !.bounds = FALSE, !.ub = TRUE]}

\* Limits: loops, run with every limit.
LoopAlphabet ==
    {Exit, I("sub_imm", 0, 0, 0, 1, 0), I("jcond_imm", 0, 0, -2, 62, 0), I("ja", 0, 0, -3, 0, 0),
     I("ja", 0, 0, -2, 0, 0), I("call", 0, 1, 0, 0, 0), I("call", 0, 1, 0, -2, 0)}
LoopSettings == {[Setting0 EXCEPT !.limit = n] : n \in 0 .. 7}

\* Local calls and jumps around a 64-bit immediate.
LddwAlphabet ==
    {Exit, I("lddw", 0, 0, 0, 7, 0), I("zero", 0, 0, 0, 7, 0), I("ja", 0, 0, -2, 0, 0),
     I("call", 0, 1, 0, 2, 0), I("jcond_imm", 0, 0, 1, 0, 0)}
CallPrograms == ProgramsOver(CallAlphabet, 4) \cup [0 .. 4 -> LddwAlphabet]

\* Each family of programs under its own settings.
MemoryPrograms == ProgramsOver(MemoryAlphabet, 3)
LoopPrograms == ProgramsOver(LoopAlphabet, 4)
MCPrograms == CallPrograms \cup MemoryPrograms \cup LoopPrograms
MCSettings == CallSettings \cup MemorySettings \cup LoopSettings
MCInit ==
    /\ \/ prog \in CallPrograms /\ set \in CallSettings
       \/ prog \in MemoryPrograms /\ set \in MemorySettings
       \/ prog \in LoopPrograms /\ set \in LoopSettings
    /\ Init
MCSpec == MCInit /\ [][Next]_vars /\ WF_vars(Next)

=============================================================================
