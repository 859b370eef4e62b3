---------------------------- MODULE UbpfValidate ----------------------------
(***************************************************************************)
(* The checks ubpf_load makes of a program before it stores it: the        *)
(* per-instruction checks of validate, the field filter, and the check     *)
(* that sub-programs are self-contained.                                   *)
(*                                                                         *)
(* A program is a function from 0 .. n - 1 to instructions.  Opcodes that  *)
(* validate and the interpreters treat alike share one op: "alu_reg" is    *)
(* every binary operation with a register operand other than additions,    *)
(* subtractions, divisions and remainders ("div_reg") and moves;           *)
(* "jcond_imm" is every conditional jump on an immediate, and so on;       *)
(* "zero" is opcode 0, the second half of an LDDW.  sz is the width of the *)
(* operation in bytes: 4 and 8 for the classes ALU and ALU64, so "endian"  *)
(* is LE and BE with 4, BSWAP with 8.                                      *)
(***************************************************************************)
EXTENDS Integers

CONSTANTS
    MaxInsts,      \* UBPF_MAX_INSTS
    Resolvable,    \* helper indices that are registered or the dispatcher accepts
    UsageOf(_)     \* UsageOf(pc): stack usage calculated for a function at pc

Ops == {"add_imm", "add_reg", "sub_imm", "sub_reg", "alu_imm", "alu_reg", "div_imm", "div_reg",
        "neg", "mov_imm", "mov_reg", "endian", "ldx", "st", "stx", "lddw", "zero", "ja", "ja32", "jcond_imm", "jcond_reg", "call", "exit", "atomic"}

Inst == [op : Ops, dst : 0 .. 15, src : 0 .. 15, off : Int, imm : Int, sz : Nat]

\* Immediates of atomic operations: plain, fetching, exchange, compare-exchange.
AtomicPlain == 0
AtomicFetch == 1
AtomicXchg == 225
AtomicCmpXchg == 241

JumpOps == {"ja", "ja32", "jcond_imm", "jcond_reg"}
StoreOps == {"st", "stx", "mov_imm", "mov_reg", "atomic"}   \* may name R10 in dst

Size(p) == IF DOMAIN p = {} THEN 0 ELSE (CHOOSE n \in DOMAIN p : n + 1 \notin DOMAIN p) + 1

JumpTarget(p, i) == i + 1 + (IF p[i].op = "ja32" THEN p[i].imm ELSE p[i].off)
IsLocalCall(p, i) == p[i].op = "call" /\ p[i].src = 1
CallTarget(p, i) == i + 1 + p[i].imm

\* The second half of an LDDW.
SecondHalf(p, i) == i - 1 \in DOMAIN p /\ p[i - 1].op = "lddw"

\* The field filter, by family of opcodes: the highest register dst and src may
\* name, and the fields that must be blank.
Dst(x, top) == x.dst <= top
Src(x, top) == x.src <= top
Blank(x, fields) == \A f \in fields : x[f] = 0

FilterArithmetic(x) ==
    /\ x.op \in {"add_imm", "sub_imm", "alu_imm", "mov_imm"} => Dst(x, 9) /\ Blank(x, {"src", "off"})
    /\ x.op = "endian"  => Dst(x, 9) /\ Blank(x, {"src", "off"}) /\ x.imm \in 0 .. 64
    /\ x.op = "div_imm" => Dst(x, 9) /\ Blank(x, {"src"}) /\ x.off \in {0, 1}
    /\ x.op \in {"add_reg", "sub_reg", "alu_reg"} => Dst(x, 9) /\ Src(x, 10) /\ Blank(x, {"off", "imm"})
    /\ x.op = "div_reg" => Dst(x, 9) /\ Src(x, 10) /\ x.off \in {0, 1} /\ Blank(x, {"imm"})
    /\ x.op = "mov_reg" =>
           /\ Dst(x, 9) /\ Src(x, 10) /\ Blank(x, {"imm"})
           /\ x.off \in {0, 8, 16} \/ (x.off = 32 /\ x.sz = 8)
    /\ x.op = "neg" => Dst(x, 9) /\ Blank(x, {"src", "off", "imm"})

FilterMemory(x) ==
    /\ x.op \in {"ldx", "stx"} => Dst(x, 10) /\ Src(x, 10) /\ Blank(x, {"imm"})
    /\ x.op = "st"   => Dst(x, 10) /\ Blank(x, {"src"})
    /\ x.op = "lddw" => Dst(x, 10) /\ Src(x, 6) /\ Blank(x, {"off"})

FilterJump(x) ==
    /\ x.op = "ja"   => Blank(x, {"dst", "src", "imm"})
    /\ x.op = "ja32" => Blank(x, {"dst", "src", "off"})
    /\ x.op = "jcond_imm" => Dst(x, 10) /\ Blank(x, {"src"})
    /\ x.op = "jcond_reg" => Dst(x, 10) /\ Src(x, 10) /\ Blank(x, {"imm"})
    /\ x.op = "call" => Blank(x, {"dst", "off"}) /\ Src(x, 1)
    /\ x.op = "exit" => Blank(x, {"dst", "src", "off", "imm"})

FilterAtomic(x) ==
    x.op = "atomic" =>
        Dst(x, 10) /\ Src(x, 10) /\ x.imm \in {AtomicPlain, AtomicFetch, AtomicXchg, AtomicCmpXchg}

\* ubpf_is_valid_instruction; a lone second half of an LDDW never comes here.
FilterAccepts(x) ==
    FilterArithmetic(x) /\ FilterMemory(x) /\ FilterJump(x) /\ FilterAtomic(x)

\* LDDW: no source, and a blank second half.
LddwPaired(p, i) ==
    /\ p[i].src = 0
    /\ i + 1 \in DOMAIN p /\ p[i + 1].op = "zero"
    /\ p[i + 1].dst = 0 /\ p[i + 1].src = 0 /\ p[i + 1].off = 0

\* Mutant: jumps may end in the second half of an LDDW.
JumpAllowedAnywhere(p, i) == JumpTarget(p, i) # i /\ JumpTarget(p, i) \in DOMAIN p

\* Jumps: not to themselves, within the program, not to an opcode 0.
JumpAllowed(p, i) ==
    /\ JumpTarget(p, i) # i
    /\ JumpTarget(p, i) \in DOMAIN p
    /\ p[JumpTarget(p, i)].op # "zero"

CallAllowed(p, i) ==
    \/ p[i].src = 0 /\ p[i].imm >= 0 /\ p[i].imm \in Resolvable
    \/ p[i].src = 1 /\ CallTarget(p, i) \in DOMAIN p /\ UsageOf(CallTarget(p, i)) % 16 = 0

\* The registers an instruction names.
RegistersAllowed(x) == x.src <= 10 /\ (x.dst <= 9 \/ (x.op \in StoreOps /\ x.dst = 10))

InstructionAllowed(p, i) ==
    /\ p[i].op # "zero"
    /\ p[i].op = "neg"     => p[i].src = 0
    /\ p[i].op = "endian"  => p[i].imm \in {16, 32, 64}
    /\ p[i].op = "lddw"    => LddwPaired(p, i)
    /\ p[i].op \in JumpOps => JumpAllowed(p, i)
    /\ p[i].op = "call"    => CallAllowed(p, i)
    /\ RegistersAllowed(p[i])
    /\ FilterAccepts(p[i])

\* Sub-programs begin at 0 and at the target of every local call ...
Starts(p) == {0} \cup {CallTarget(p, i) : i \in {j \in DOMAIN p : IsLocalCall(p, j)}}

\* ... and end before the next one, or at the end of the program.
EndOf(p, s) ==
    IF \E t \in Starts(p) : t > s
    THEN CHOOSE t \in Starts(p) : t > s /\ \A u \in Starts(p) : u > s => t <= u
    ELSE Size(p)

\* EXIT in the last position, or an unconditional jump in the last but one.
EndsWell(p, s) ==
    LET e == EndOf(p, s) IN
    \/ p[e - 1].op = "exit"
    \/ e >= s + 2 /\ p[e - 2].op \in {"ja", "ja32"}

\* Mutant: jumps are not confined to their sub-program.
SubprogramsEndOnly(p) ==
    (\E i \in DOMAIN p : IsLocalCall(p, i)) => \A s \in Starts(p) : EndsWell(p, s)

check_for_self_contained_sub_programs(p) ==
    \/ \A i \in DOMAIN p : ~IsLocalCall(p, i)
    \/ \A s \in Starts(p) :
          /\ \A j \in s .. EndOf(p, s) - 1 :
                p[j].op \in JumpOps => JumpTarget(p, j) \in s .. EndOf(p, s) - 1
          /\ EndsWell(p, s)

validate(p) ==
    /\ Size(p) < MaxInsts
    /\ UsageOf(0) % 16 = 0
    /\ \A i \in DOMAIN p :
          \/ p[i].op = "zero" /\ SecondHalf(p, i)     \* skipped with the first half
          \/ InstructionAllowed(p, i)
    /\ check_for_self_contained_sub_programs(p)

=============================================================================
