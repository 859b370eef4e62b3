------------------------------- MODULE JitX86 -------------------------------
(***************************************************************************)
(* The x86-64 code generator (System V calling convention): the native     *)
(* instructions translate() emits for each eBPF instruction, for the       *)
(* function prolog, the program's entry and exit, and a helper call.  An   *)
(* emit function is an operator that returns the sequence of instructions  *)
(* it appends; a jump whose target is patched later carries a symbolic     *)
(* target <<kind, pc>>.  blind is [on, random]: whether immediates are     *)
(* blinded, and the random constant drawn.                                 *)
(***************************************************************************)
EXTENDS NativeCpu

VOLATILE_CTXT == "R11"
RCX_ALT == "R10"
platform_nonvolatile_registers == <<"RBP", "RBX", "R12", "R13", "R14", "R15">>
register_map == <<"RAX", "RDI", "RSI", "RDX", "R10", "R8", "RBX", "R12", "R13", "R14", "R15">>
map_register(r) == register_map[r + 1]

ExitTarget == <<"Exit", 0>>
RegularTarget(pc) == <<"pc", pc>>

-----------------------------------------------------------------------------
(* One instruction each.                                                   *)

emit_alu(f, w, src, dst) == << <<"op", f, w, dst, dst, src>> >>
emit_alu_imm32(f, w, dst, imm) == << <<"opi", f, w, dst, dst, imm>> >>
emit_mov(src, dst) == emit_alu("mov", S64, src, dst)
emit_truncate_u32(dst) == emit_alu_imm32("and", S32, dst, 2^S32 - 1)
emit_cmp(w, src, dst) == << <<"flags", "sub", w, "RZ", dst, src>> >>
emit_cmp_imm32(w, dst, imm) == << <<"flagsi", "sub", w, "RZ", dst, imm>> >>
emit_test(w, src, dst) == << <<"flags", "and", w, "RZ", dst, src>> >>
emit_test_imm32(w, dst, imm) == << <<"flagsi", "and", w, "RZ", dst, imm>> >>
emit_jcc(c, target) == << <<"bc", c, target>> >>
emit_jmp(target) == << <<"b", target>> >>
emit_load(n, src, dst, offset) == << <<"ld", n, dst, src, offset>> >>
emit_load_sx(n, src, dst, offset) == << <<"ldsx", n, dst, src, offset>> >>
emit_load_imm(dst, imm) == << <<"movi", dst, imm>> >>
emit_store(n, src, dst, offset) == << <<"st", n, src, dst, offset>> >>
emit_store_imm32(n, dst, offset, imm) == << <<"sti", n, imm, dst, offset>> >>
emit_push(r) == << <<"push", r>> >>
emit_pop(r) == << <<"pop", r>> >>
emit_ret == << <<"ret">> >>
emit_rip_relative_load(dst) == << <<"dispatcher", dst>> >>
emit_rip_relative_lea(dst) == << <<"table", dst>> >>

-----------------------------------------------------------------------------
(* Constant blinding: the immediate is emitted as imm ^ random and the     *)
(* native code recovers it.                                                *)

\* The 32-bit immediate that equals imm ^ random, read as an int32_t.
Blinded32(imm, random) == Signed(Cut(imm, S32) ^^ Cut(random, S32), S32)
FitsInt32(v) == Signed(v, S64) \in -(2^(S32 - 1)) .. 2^(S32 - 1) - 1

emit_load_imm_blinded(dst, imm, random) ==
    LET temp == IF dst = "R11" THEN "R10" ELSE "R11"
    IN << <<"movi", dst, Cut(imm, S64) ^^ random>> >> \o
       (IF FitsInt32(random) THEN emit_alu_imm32("xor", S64, dst, Signed(random, S64))
        ELSE << <<"movi", temp, random>> >> \o emit_alu("xor", S64, temp, dst))

\* mov temp, imm ^ random; xor temp, random
RecoverImm32(w, temp, imm, random) ==
    << <<"opi", "mov", w, temp, temp, Blinded32(imm, random)>> >> \o
    emit_alu_imm32("xor", w, temp, Signed(random, S32))
BlindTemp(dst) == IF dst = "R11" THEN "R10" ELSE "R11"

emit_alu64_imm32_blinded(f, dst, imm, random) ==
    RecoverImm32(S64, BlindTemp(dst), imm, random) \o emit_alu(f, S64, BlindTemp(dst), dst)
emit_alu32_imm32_blinded(f, dst, imm, random) ==
    RecoverImm32(S32, BlindTemp(dst), imm, random) \o emit_alu(f, S32, BlindTemp(dst), dst)
emit_cmp_imm32_blinded(w, dst, imm, random) ==
    RecoverImm32(w, BlindTemp(dst), imm, random) \o emit_cmp(w, BlindTemp(dst), dst)
emit_test_imm32_blinded(w, dst, imm, random) ==
    RecoverImm32(w, BlindTemp(dst), imm, random) \o emit_test(w, BlindTemp(dst), dst)
emit_store_imm32_blinded(n, dst, offset, imm, random) ==
    RecoverImm32(IF n = S64 THEN S64 ELSE S32, "R11", imm, random) \o emit_store(n, "R11", dst, offset)

EMIT_LOAD_IMM(dst, imm, blind) ==
    IF blind.on THEN emit_load_imm_blinded(dst, imm, blind.random) ELSE emit_load_imm(dst, imm)
EMIT_ALU_IMM32(f, w, dst, imm, blind) ==
    CASE ~blind.on -> emit_alu_imm32(f, w, dst, imm)
      [] blind.on /\ w = S64 -> emit_alu64_imm32_blinded(f, dst, imm, blind.random)
      [] blind.on /\ w = S32 -> emit_alu32_imm32_blinded(f, dst, imm, blind.random)
EMIT_CMP_IMM32(w, dst, imm, blind) ==
    IF blind.on THEN emit_cmp_imm32_blinded(w, dst, imm, blind.random) ELSE emit_cmp_imm32(w, dst, imm)
EMIT_TEST_IMM32(w, dst, imm, blind) ==
    IF blind.on THEN emit_test_imm32_blinded(w, dst, imm, blind.random) ELSE emit_test_imm32(w, dst, imm)
EMIT_STORE_IMM32(n, dst, offset, imm, blind) ==
    IF blind.on THEN emit_store_imm32_blinded(n, dst, offset, imm, blind.random)
    ELSE emit_store_imm32(n, dst, offset, imm)

-----------------------------------------------------------------------------
(* Multiplication and division use RAX, RDX and RCX.                       *)

\* The divisor is tested (the flags wait on the stack), 0 is replaced by 1,
\* and the dividend is extended into RDX.
PrepareDivision(i, w) ==
    emit_test(w, "RCX", "RCX") \o
    (IF i.op = "mod" THEN emit_push("RAX") ELSE <<>>) \o
    << <<"pushf">> >> \o emit_load_imm("RDX", 1) \o << <<"cmove", "RCX", "RDX">> >> \o
    (IF i.off = 1 THEN << <<"extend", w>> >> ELSE emit_alu("xor", S32, "RDX", "RDX"))

\* Mutant of SkipOverflow: every signed division reaches IDIV.
NoOverflowTest(i, w) == <<>>
\* INT_MIN / -1 traps: its result is set without dividing.
SkipOverflow(i, w) ==
    LET minimum == IF w = S64
                   THEN << <<"movi", "R11", 2^(S64 - 1)>> >> \o emit_cmp(S64, "R11", "RAX")
                   ELSE emit_cmp_imm32(S32, "RAX", 2^(S32 - 1))
        result == IF i.op = "mod" THEN emit_alu("xor", S32, "RDX", "RDX") ELSE <<>>
        handled == << <<"jrc", "ne", Len(result) + 1>> >> \o result \o << <<"jr", 1>> >>
    IN emit_cmp_imm32(w, "RCX", -1) \o
       << <<"jrc", "ne", Len(minimum) + Len(handled)>> >> \o minimum \o handled

\* A divisor of 0 gives 0, or the dividend for a modulo.
FinishDivision(i) ==
    << <<"popf">> >> \o
    (IF i.op = "div" THEN emit_load_imm("RCX", 0) \o << <<"cmove", "RAX", "RCX">> >>
     ELSE emit_pop("RCX") \o << <<"cmove", "RDX", "RCX">> >>)

emit_muldivmod(i, src, dst, blind) ==
    LET w == i.w
        divides == i.op \in {"div", "mod"}
        compute == (IF divides THEN PrepareDivision(i, w) ELSE <<>>) \o
                   (IF divides /\ i.off = 1 THEN SkipOverflow(i, w) ELSE <<>>) \o
                   (IF divides THEN << <<"div", w, i.off = 1>> >> \o FinishDivision(i)
                    ELSE << <<"mul", w>> >>)
    IN IF ~i.isreg /\ i.imm = 0
       THEN IF i.op = "mod" THEN emit_mov(dst, dst) ELSE emit_alu("xor", S32, dst, dst)
       ELSE (IF dst # "RAX" THEN emit_push("RAX") ELSE <<>>) \o
            (IF dst # "RDX" THEN emit_push("RDX") ELSE <<>>) \o
            (IF i.isreg THEN emit_mov(src, "RCX") ELSE EMIT_LOAD_IMM("RCX", i.imm, blind)) \o
            emit_mov(dst, "RAX") \o compute \o
            (IF dst # "RDX"
             THEN (IF i.op = "mod" THEN emit_mov("RDX", dst) ELSE <<>>) \o emit_pop("RDX") ELSE <<>>) \o
            (IF dst # "RAX"
             THEN (IF i.op # "mod" THEN emit_mov("RAX", dst) ELSE <<>>) \o emit_pop("RAX") ELSE <<>>)

-----------------------------------------------------------------------------
(* Atomic operations.                                                      *)

emit_atomic_alu(f, w, src, dst, offset) == << <<"lock", f, w, src, dst, offset>> >>
emit_atomic_cmp_exch_with_rax(w, src, dst, offset) == << <<"lock", "cmpxchg", w, src, dst, offset>> >>
emit_atomic_exchange(w, src, dst, offset) == << <<"lock", "xchg", w, src, dst, offset>> >>

\* Fetch-and-op is a compare-exchange loop, which needs RAX and RCX.
emit_atomic_fetch_alu(f, w, src, dst, offset) ==
    LET actual_src == IF src # "RAX" THEN src ELSE IF dst = "R10" THEN "R11" ELSE "R10"
        attempt == emit_mov("RAX", "RCX") \o emit_alu(f, S64, actual_src, "RCX") \o
                   emit_atomic_cmp_exch_with_rax(w, "RCX", dst, offset)
    IN (IF src # "RAX" THEN emit_push("RAX") ELSE emit_push(actual_src) \o emit_mov(src, actual_src)) \o
       emit_load(w, dst, "RAX", offset) \o
       attempt \o << <<"jrc", "ne", -(Len(attempt) + 1)>> >> \o
       (IF src # "RAX" THEN emit_mov("RAX", src) \o emit_pop("RAX") ELSE emit_pop(actual_src))

TranslateAtomic(i, src, dst) ==
    CASE i.op \in {"add", "or", "and", "xor"} ->
            IF i.fetch THEN emit_atomic_fetch_alu(i.op, i.w, src, dst, i.off)
            ELSE emit_atomic_alu(i.op, i.w, src, dst, i.off)
      [] i.op = "xchg" -> emit_atomic_exchange(i.w, src, dst, i.off) \o
            (IF i.w = S32 THEN emit_truncate_u32(src) ELSE <<>>)
      [] i.op = "cmpxchg" -> emit_atomic_cmp_exch_with_rax(i.w, src, dst, i.off) \o
            (IF i.w = S32 THEN emit_truncate_u32(map_register(0)) ELSE <<>>)

-----------------------------------------------------------------------------
(* Calls, entry and exit.                                                  *)

\* Mutant of RestoreContext: one of the two words pushed stays.
RestoreContextOnce == emit_pop(VOLATILE_CTXT)
\* The context was pushed twice to keep the stack aligned.
RestoreContext == emit_pop(VOLATILE_CTXT) \o emit_pop(VOLATILE_CTXT)

\* The helper runs through the dispatcher when there is one, else through the
\* helper table; its address is in RAX and the retpoline calls it.
emit_dispatched_external_helper_call(idx) ==
    LET default == << <<"opi", "mov", S32, "RAX", "RAX", idx>> >> \o emit_alu_imm32("lsh", S64, "RAX", 3) \o
                   emit_rip_relative_lea("R10") \o emit_alu("add", S64, "R10", "RAX") \o
                   emit_load(S64, "RAX", "RAX", 0) \o emit_mov(VOLATILE_CTXT, "R9")
        external == emit_load_imm("R9", idx)
    IN emit_push(VOLATILE_CTXT) \o emit_push(VOLATILE_CTXT) \o
       emit_rip_relative_load("RAX") \o emit_cmp_imm32(S64, "RAX", 0) \o
       << <<"jrc", "ne", Len(default) + 1>> >> \o default \o
       << <<"jr", Len(external)>> >> \o external \o
       << <<"bcall", <<"Retpoline", 0>> >> >> \o RestoreContext

\* The return address of a call of the next instruction but two becomes RAX.
emit_retpoline == << <<"callr", 1>>, <<"jr", -1>>, <<"ststk", "RAX", 0>>, <<"ret">> >>

\* Mutant of RestoreCaller: popped in the order in which they were pushed.
RestoreCallerInPushOrder ==
    emit_pop(map_register(6)) \o emit_pop(map_register(7)) \o
    emit_pop(map_register(8)) \o emit_pop(map_register(9))
RestoreCaller ==
    emit_pop(map_register(9)) \o emit_pop(map_register(8)) \o
    emit_pop(map_register(7)) \o emit_pop(map_register(6))

\* The top of the host stack is the stack usage of the running function.
emit_local_call(target_pc) ==
    << <<"opstk", "sub", map_register(10), 0>> >> \o
    emit_push(map_register(6)) \o emit_push(map_register(7)) \o
    emit_push(map_register(8)) \o emit_push(map_register(9)) \o
    << <<"bcall", <<"local", target_pc>> >> >> \o RestoreCaller \o
    << <<"opstk", "add", map_register(10), 0>> >>

\* Mutant of FourthArgument: eBPF R4 stays in the register RCX is kept out of.
FourthArgumentMissing == <<>>
\* RCX is reserved for shifts, so the fourth argument moves there last.
FourthArgument == emit_mov(RCX_ALT, "RCX")

TranslateCall(i, pc, unwind) ==
    CASE i.src = 0 ->
            FourthArgument \o emit_dispatched_external_helper_call(i.imm) \o
            (IF i.imm = unwind
             THEN emit_cmp_imm32(S64, map_register(0), 0) \o emit_jcc("eq", ExitTarget) ELSE <<>>)
      [] i.src = 1 -> emit_local_call(pc + i.imm + 1)
      [] OTHER -> <<>>

TranslateExit == << <<"free", 1>> >> \o emit_ret

FunctionProlog(usage) == << <<"alloc", 1>>, <<"stistk", usage, 0>> >>

\* Mutant of AlignStack: the six registers saved leave the stack unaligned.
Unaligned == <<>>
\* An even number of registers was saved: one more word aligns the stack.
AlignStack == << <<"alloc", 1>> >>

Prologue(basic, stackSize) ==
    LET saved == [k \in 1 .. 6 |-> <<"push", platform_nonvolatile_registers[k]>>]
        frame == IF basic THEN << <<"getsp", map_register(10)>>, <<"alloc", stackSize>> >>
                 ELSE emit_mov("RDX", map_register(10)) \o emit_alu("add", S64, "RCX", map_register(10))
    IN saved \o emit_mov("RDI", VOLATILE_CTXT) \o AlignStack \o << <<"getsp", "RBP">> >> \o frame \o
       << <<"callr", 1>> >> \o emit_jmp(ExitTarget)

\* Mutant of RestoreNonvolatile: popped in the order in which they were pushed.
RestoreInPushOrder == [k \in 1 .. 6 |-> <<"pop", platform_nonvolatile_registers[k]>>]
RestoreNonvolatile == [k \in 1 .. 6 |-> <<"pop", platform_nonvolatile_registers[7 - k]>>]

Epilogue == << <<"setsp", "RBP">>, <<"free", 1>> >> \o RestoreNonvolatile \o emit_ret

-----------------------------------------------------------------------------
(* The switch of translate().                                              *)

ConditionCode(op) ==
    CASE op = "jeq" -> "eq"  [] op = "jgt" -> "hi"  [] op = "jge" -> "hs"  [] op = "jlt" -> "lo"
      [] op = "jle" -> "ls"  [] op = "jset" -> "ne" [] op = "jne" -> "ne"  [] op = "jsgt" -> "gt"
      [] op = "jsge" -> "ge" [] op = "jslt" -> "lt" [] op = "jsle" -> "le"

TranslateAlu(i, src, dst, blind) ==
    CASE i.op \in {"mul", "div", "mod"} -> emit_muldivmod(i, src, dst, blind)
      [] i.op \in {"lsh", "rsh", "arsh"} ->
            IF i.isreg THEN emit_mov(src, "RCX") \o emit_alu(i.op, i.w, "RCX", dst)
            ELSE emit_alu_imm32(i.op, i.w, dst, i.imm)
      [] i.op = "neg" -> << <<"op", "neg", i.w, dst, dst, dst>> >>
      [] i.op = "mov" /\ i.isreg ->
            IF i.off = 0 THEN emit_mov(src, dst) ELSE << <<"sx", i.off, i.w, dst, src>> >>
      [] i.op = "mov" /\ ~i.isreg /\ i.w = S64 -> EMIT_LOAD_IMM(dst, i.imm, blind)
      [] OTHER -> IF i.isreg THEN emit_alu(i.op, i.w, src, dst)
                  ELSE EMIT_ALU_IMM32(i.op, i.w, dst, i.imm, blind)

\* A 32-bit operation also truncates the destination.
TranslateAlu32(i, src, dst, blind) == TranslateAlu(i, src, dst, blind) \o emit_truncate_u32(dst)

\* A 16-bit swap rotates the low half-word in place.
TranslateEndian(i, dst) ==
    CASE i.imm = S64 -> IF i.op = "le" THEN <<>> ELSE << <<"rev", S64, S64, dst, dst>> >>
      [] i.imm = S32 -> IF i.op = "le" THEN emit_truncate_u32(dst)
                        ELSE << <<"rev", S32, S32, dst, dst>> >> \o
                             (IF i.op = "bswap" THEN emit_alu("mov", S32, dst, dst) ELSE <<>>)
      [] i.imm = S16 -> (IF i.op = "le" THEN <<>> ELSE << <<"rol16", dst>> >>) \o
                        emit_alu_imm32("and", IF i.op = "bswap" THEN S64 ELSE S32, dst, 2^S16 - 1)

TranslateJump(i, src, dst, target, blind) ==
    (CASE i.op = "jset" /\ i.isreg -> emit_test(i.w, src, dst)
       [] i.op = "jset" /\ ~i.isreg -> EMIT_TEST_IMM32(i.w, dst, i.imm, blind)
       [] i.op # "jset" /\ i.isreg -> emit_cmp(i.w, src, dst)
       [] i.op # "jset" /\ ~i.isreg -> EMIT_CMP_IMM32(i.w, dst, i.imm, blind)) \o
    emit_jcc(ConditionCode(i.op), target)

TranslateMemory(i, src, dst, blind) ==
    CASE i.cls = "ldx" -> emit_load(i.w, src, dst, i.off)
      [] i.cls = "ldsx" -> emit_load_sx(i.w, src, dst, i.off)
      [] i.cls = "st" -> EMIT_STORE_IMM32(i.w, dst, i.off, i.imm, blind)
      [] i.cls = "stx" -> emit_store(i.w, src, dst, i.off)

Translate(i, pc, unwind, blind) ==
    LET dst == map_register(i.dst)
        src == map_register(i.src)
        target == RegularTarget(pc + i.jump + 1)
    IN CASE i.cls = "alu" /\ i.w = S32 -> TranslateAlu32(i, src, dst, blind)
         [] i.cls = "alu" /\ i.w = S64 -> TranslateAlu(i, src, dst, blind)
         [] i.cls = "endian" -> TranslateEndian(i, dst)
         [] i.cls = "ja" -> emit_jmp(target)
         [] i.cls = "jmp" -> TranslateJump(i, src, dst, target, blind)
         [] i.cls = "call" -> TranslateCall(i, pc, unwind)
         [] i.cls = "exit" -> TranslateExit
         [] i.cls \in {"ldx", "ldsx", "st", "stx"} -> TranslateMemory(i, src, dst, blind)
         [] i.cls = "lddw" -> EMIT_LOAD_IMM(dst, i.imm, blind)
         [] i.cls = "atomic" -> TranslateAtomic(i, src, dst)

=============================================================================
