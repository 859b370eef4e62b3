--------------------------- MODULE MCUbpfJitCode ---------------------------
(* Instances of UbpfJitCode: every instruction on boundary values.         *)
EXTENDS UbpfJitCode

Insn(cls, op, w, isreg, dst, src, off, imm) ==
    [cls |-> cls, op |-> op, w |-> w, isreg |-> isreg, dst |-> dst, src |-> src, off |-> off,
     imm |-> imm, jump |-> 1, fetch |-> FALSE]

\* Sign bits and extremes of the scaled 64-, 32- and 16-bit widths.
Values == {0, 1, 8, 15, 127, 128, 247, 255}
Immediates == {-8, -1, 0, 3, 4, 7}

\* Register pairs that cover the registers the generators treat specially
\* (RAX, RDX and R10 on x86-64, R5 on ARM64), alone, together and equal.
Pairs == {<<1, 2>>, <<1, 1>>, <<0, 1>>, <<1, 0>>, <<0, 0>>, <<3, 1>>, <<1, 3>>, <<0, 3>>, <<3, 0>>,
          <<3, 3>>, <<4, 0>>, <<0, 4>>}
Destinations == {0, 1, 3}

Widths == {S32, S64}
NoBlind == [on |-> FALSE, random |-> 0]
Blinds == {NoBlind, [on |-> TRUE, random |-> 6], [on |-> TRUE, random |-> 155]}

Job(isa, i, blind, regs, cell) ==
    [isa |-> isa, insn |-> i, blind |-> blind, regs |-> regs, cell |-> cell, disp |-> 0, res |-> 0]
Isas == {"x86", "arm64"}

Registers == [k \in 0 .. 10 |-> 20 + 3 * k]
With(p, x, y) == [Registers EXCEPT ![p[2]] = y, ![p[1]] = x]

\* op, off
AluForms == {<<"add", 0>>, <<"sub", 0>>, <<"mul", 0>>, <<"div", 0>>, <<"div", 1>>, <<"mod", 0>>,
             <<"mod", 1>>, <<"or", 0>>, <<"and", 0>>, <<"xor", 0>>, <<"lsh", 0>>, <<"rsh", 0>>,
             <<"arsh", 0>>, <<"mov", 0>>}
AluRegister ==
    \E isa \in Isas, f \in AluForms, w \in Widths, p \in Pairs, x \in Values, y \in Values :
        job = Job(isa, Insn("alu", f[1], w, TRUE, p[1], p[2], f[2], 0), NoBlind, With(p, x, y), 0)
AluImmediate ==
    \E isa \in Isas, f \in AluForms, w \in Widths, d \in Destinations, imm \in Immediates,
       b \in Blinds, x \in Values :
        job = Job(isa, Insn("alu", f[1], w, FALSE, d, 0, f[2], imm), b, With(<<d, d>>, x, x), 0)
UnaryInsns ==
    {Insn("alu", "neg", w, FALSE, 1, 0, 0, 0) : w \in Widths}
    \cup {Insn("endian", op, S64, FALSE, 1, 0, 0, n) : op \in {"le", "be", "bswap"}, n \in {S16, S32, S64}}
    \cup {Insn("alu", "mov", S64, TRUE, 1, 1, n, 0) : n \in {S8, S16, S32}}
    \cup {Insn("alu", "mov", S32, TRUE, 1, 1, n, 0) : n \in {S8, S16}}
Unary ==
    \E isa \in Isas, x \in 0 .. 2^W - 1, i \in UnaryInsns :
        job = Job(isa, i, NoBlind, With(<<1, 1>>, x, x), 0)

Conditions == {"jeq", "jne", "jgt", "jge", "jlt", "jle", "jset", "jsgt", "jsge", "jslt", "jsle"}
Jumps ==
    \E isa \in Isas, op \in Conditions, w \in Widths, x \in Values :
        \/ \E y \in Values : job = Job(isa, Insn("jmp", op, w, TRUE, 1, 2, 0, 0), NoBlind, With(<<1, 2>>, x, y), 0)
        \/ \E imm \in Immediates, b \in Blinds :
              job = Job(isa, Insn("jmp", op, w, FALSE, 1, 0, 0, imm), b, With(<<1, 1>>, x, x), 0)
        \/ job = Job(isa, Insn("ja", "ja", S64, FALSE, 0, 0, 0, 0), NoBlind, Registers, 0)

\* Memory instructions address the word through offsets of every size class.
Offsets == {-5, -4, -3, -2, -1, 0, 1, 2, 3, 4}
At(i, v) ==
    LET base == IF i.cls \in {"ldx", "ldsx"} THEN i.src ELSE i.dst
    IN [With(<<i.dst, i.src>>, v, v) EXCEPT ![base] = Cut(CellAddr - i.off, W)]
AccessForms == ({"ldx", "stx"} \X {S8, S16, S32, S64}) \cup ({"ldsx"} \X {S8, S16, S32})
Accesses ==
    \E isa \in Isas, b \in Blinds, off \in Offsets :
        \/ \E c \in AccessForms, p \in {<<1, 2>>, <<1, 1>>, <<0, 3>>} :
              LET i == Insn(c[1], "mem", c[2], TRUE, p[1], p[2], off, 0) IN job = Job(isa, i, b, At(i, 201), 141)
        \/ \E n \in {S8, S16, S32, S64}, imm \in Immediates :
              LET i == Insn("st", "mem", n, FALSE, 1, 1, off, imm) IN job = Job(isa, i, b, At(i, 0), 141)
        \/ \E d \in Destinations, v \in Values :
              job = Job(isa, Insn("lddw", "lddw", S64, FALSE, d, 0, 0, v), b, Registers, 0)

\* R0, the value an exchange compares with, is v unless it is the base.
AtomicInsns ==
    {i \in {[Insn("atomic", op, w, TRUE, p[1], p[2], off, 0) EXCEPT !.fetch = fetch] :
              op \in {"add", "and", "or", "xor", "xchg", "cmpxchg"}, w \in Widths, fetch \in BOOLEAN,
              p \in {<<1, 2>>, <<1, 0>>, <<0, 1>>, <<4, 0>>}, off \in {-3, 0, 1}} :
        i.op \in {"xchg", "cmpxchg"} => i.fetch}
Atomics ==
    \E isa \in Isas, i \in AtomicInsns, b \in {NoBlind, [on |-> TRUE, random |-> 155]}, v \in {3, 9} :
        job = Job(isa, i, b, [At(i, v) EXCEPT ![0] = IF i.dst = 0 THEN @ ELSE v], 57)

Helpers ==
    \E isa \in Isas, k \in 0 .. NumHelpers - 1, b \in Blinds, d \in {0, DispatcherAddr}, r \in {0, 44} :
        job = [Job(isa, Insn("call", "call", S64, FALSE, 0, 0, 0, k), b, Registers, 0) EXCEPT
                  !.disp = d, !.res = r]

AnyJob == AluRegister \/ AluImmediate \/ Unary \/ Jumps \/ Accesses \/ Atomics \/ Helpers

Init == AnyJob /\ Start
Spec == Init /\ [][Next]_vars /\ WF_vars(Step)
=============================================================================
