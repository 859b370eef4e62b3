---------------------------- MODULE UbpfJitCode ----------------------------
(***************************************************************************)
(* The native code of one eBPF instruction against the interpreter.  A job *)
(* is an instruction with the registers, the word of memory and the        *)
(* settings it starts from; the machine starts at the boundary before the  *)
(* instruction's code, with the eBPF registers in the native registers the *)
(* generator maps them to, and runs it while another processor may write   *)
(* the word of memory at any point between two accesses.                   *)
(***************************************************************************)
EXTENDS NativeCpu

CONSTANTS
    Imm9Limit, Imm12Limit,
    Context,          \* the context (cookie) the program was started with
    OtherValues,      \* what another processor writes to the word
    MaxInterference   \* bound on its writes

VARIABLES
    job,          \* [isa, insn, blind, regs, cell, disp, res]
    m,            \* the machine
    interference  \* writes of the other processor so far
vars == <<job, m, interference>>

X86 == INSTANCE JitX86
Arm64 == INSTANCE JitArm64

MapRegister(isa, k) == IF isa = "x86" THEN X86!map_register(k) ELSE Arm64!map_register(k)
ContextRegister(isa) == IF isa = "x86" THEN X86!VOLATILE_CTXT ELSE Arm64!VOLATILE_CTXT
\* Native registers outside the map that the host's frame depends on.
HostRegisters(isa) == IF isa = "x86" THEN {"RBP"} ELSE {"R29", "R30"}

\* The instruction's code, then the places control can go to from it.
Place(code) ==
    LET loc(t) == Len(code) + (CASE t[1] = "pc" -> 2 [] t[1] = "Exit" -> 3 [] t[1] = "Retpoline" -> 4)
        resolve(o) == CASE o[1] = "b" -> <<"jmp", loc(o[2])>>
                        [] o[1] = "bc" -> <<"jcc", o[2], loc(o[3])>>
                        [] o[1] = "bcall" -> <<"call", loc(o[2])>>
                        [] OTHER -> o
    IN [k \in 1 .. Len(code) |-> resolve(code[k])] \o
       << <<"leave", "next">>, <<"leave", "target">>, <<"leave", "exit">> >> \o X86!emit_retpoline
TranslateOn(j) ==
    IF j.isa = "x86" THEN X86!Translate(j.insn, 0, Unwind, j.blind)
    ELSE Arm64!Translate(j.insn, 0, Unwind, j.blind)

HostValue == 6
\* The stack as a function prolog leaves it: the stack usage on top.
BoundaryStack == <<7, 7>>

Boundary(j) ==
    LET mapped == {MapRegister(j.isa, k) : k \in 0 .. 10}
        index(r) == CHOOSE k \in 0 .. 10 : MapRegister(j.isa, k) = r
        all == IF j.isa = "x86" THEN X86Registers ELSE Arm64Registers
    IN [isa |-> j.isa, stk |-> BoundaryStack, fl |-> Compare(W, 0, 0), ip |-> 1,
        reg |-> [r \in all |-> CASE r \in mapped -> j.regs[index(r)]
                                 [] r = ContextRegister(j.isa) -> Context
                                 [] r \in HostRegisters(j.isa) -> HostValue
                                 [] OTHER -> Junk],
        cell |-> j.cell, monitor |-> FALSE, found |-> j.cell, wrote |-> <<>>,
        disp |-> j.disp, res |-> j.res, calls |-> <<>>, out |-> "run"]

\* The start of a job; the instances say which jobs there are.
Start ==
    /\ m = Boundary(job)
    /\ interference = 0

\* This processor runs up to its next access of shared memory.
Step ==
    /\ m.out = "run"
    /\ \E body \in {TranslateOn(job)} : \E code \in {Place(body)} :
          m' = Advance(m, code, {k \in DOMAIN code : code[k][1] \in Shared})
    /\ UNCHANGED <<job, interference>>

\* Another processor writes the word, which also clears the monitor.
Interfere(v) ==
    /\ m.out = "run" /\ job.insn.cls = "atomic"
    /\ interference < MaxInterference
    /\ interference' = interference + 1
    /\ m' = [m EXCEPT !.cell = v, !.monitor = FALSE]
    /\ UNCHANGED job

Done == m.out # "run" /\ UNCHANGED vars

Next == Step \/ (\E v \in OtherValues : Interfere(v)) \/ Done

-----------------------------------------------------------------------------
(* Properties.                                                             *)

\* Cases in which the generated code is known to differ from the interpreter:
\* x86-64's fetch-and-op loses its base address when that is in RAX (eBPF
\* R0), and ARM64 zero-extends the negative immediate of an 8-byte store.
KnownDifference(j) ==
    \/ j.isa = "x86" /\ j.insn.cls = "atomic" /\ j.insn.fetch /\ j.insn.dst = 0
       /\ j.insn.op \notin {"xchg", "cmpxchg"}
    \/ j.isa = "arm64" /\ j.insn.cls = "st" /\ j.insn.w = S64 /\ j.insn.imm < 0

\* The registers a helper call leaves undefined.
Clobbered(i) == IF i.cls = "call" THEN 1 .. 5 ELSE {}

\* The native code computes what the interpreter computes: the same registers,
\* the same store to memory, and the same next instruction, without a fault;
\* an atomic operation acts on the word as it was at one point during the
\* instruction, whatever another processor writes in between.
CodeAgrees ==
    m.out # "run" /\ ~KnownDifference(job) =>
        LET i == job.insn
            after == RegistersAfter(i, job.regs, m.found, job.res)
        IN /\ m.out = NextAfter(i, job.regs, job.res)
           /\ \A k \in (0 .. 10) \ Clobbered(i) : m.reg[MapRegister(job.isa, k)] = after[k]
           /\ m.wrote = IF WritesMemory(i, job.regs, m.found)
                        THEN <<CellAfter(i, job.regs, m.found)>> ELSE <<>>

\* Instructions whose code uses the register that holds the context: x86-64
\* blinds through R11, and divides by -1 with it; ARM64 computes the address
\* of an atomic or of a distant access in R26.
UsesContextRegister(j) ==
    LET i == j.insn
        immediate == i.cls \in {"alu", "jmp", "st", "lddw"} /\ ~i.isreg
        shift == i.op \in {"lsh", "rsh", "arsh"}
    IN IF j.isa = "x86"
       THEN \/ j.blind.on /\ immediate /\ ~shift
            \/ i.cls = "alu" /\ i.op \in {"div", "mod"} /\ i.off = 1 /\ i.w = S64
       ELSE i.cls = "atomic" \/ (i.cls \in {"ldx", "ldsx", "st", "stx"} /\ Magnitude(i.off) >= Imm12Limit)

\* Between instructions the host's stack is as the function prolog left it,
\* with the stack usage on top, and the frame registers and the context
\* register keep their values: the code pushes and pops in balance on every
\* path, with the retpoline and with either way of reaching a helper.
HostPreserved ==
    m.out # "run" /\ ~KnownDifference(job) =>
        /\ m.stk = BoundaryStack
        /\ \A r \in HostRegisters(job.isa) : m.reg[r] = HostValue
        /\ UsesContextRegister(job) \/ m.reg[ContextRegister(job.isa)] = Context

\* A helper receives r1 to r5, the context and (through a dispatcher) its
\* index, on a 16-byte aligned stack, and is called exactly once.
HelperArguments ==
    m.out # "run" /\ job.insn.cls = "call" =>
        m.calls = << [args |-> [k \in 1 .. 5 |-> job.regs[k]], fn |-> job.insn.imm,
                      context |-> Context, aligned |-> TRUE] >>

\* The code of every instruction ends, once the other processor stops writing
\* the word an atomic operation retries on.
Completes == <>(m.out # "run")

=============================================================================
