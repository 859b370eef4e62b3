------------------------------ MODULE JitArm64 ------------------------------
(***************************************************************************)
(* The ARM64 code generator, in the form of JitX86: the native             *)
(* instructions translate() emits for each eBPF instruction, the function  *)
(* prolog, the program's entry and exit, and a helper call.  The limits of *)
(* immediate fields (256, 0x1000) are scaled with the widths.              *)
(***************************************************************************)
EXTENDS NativeCpu

CONSTANTS
    Imm9Limit,  \* offsets below it fit a load or store (256)
    Imm12Limit  \* immediates below it fit an add or subtract (0x1000)

temp_register == "R24"
temp_div_register == "R25"
offset_register == "R26"
VOLATILE_CTXT == "R26"
callee_saved_registers == <<"R19", "R20", "R21", "R22", "R23", "R24", "R25", "R26">>
register_map == <<"R5", "R0", "R1", "R2", "R3", "R4", "R19", "R20", "R21", "R22", "R23">>
map_register(r) == register_map[r + 1]

ExitTarget == <<"Exit", 0>>
RegularTarget(pc) == <<"pc", pc>>

-----------------------------------------------------------------------------
(* One instruction each.                                                   *)

emit_addsub_immediate(w, f, rd, rn, imm) == << <<"opi", f, w, rd, rn, imm>> >>
emit_addsub_register(w, f, rd, rn, rm) == << <<"op", f, w, rd, rn, rm>> >>
emit_subs_immediate(w, rd, rn, imm) == << <<"flagsi", "sub", w, rd, rn, imm>> >>
emit_subs_register(w, rd, rn, rm) == << <<"flags", "sub", w, rd, rn, rm>> >>
emit_logical_register(w, f, rd, rn, rm) == << <<"op", f, w, rd, rn, rm>> >>
emit_ands_register(w, rd, rn, rm) == << <<"flags", "and", w, rd, rn, rm>> >>
emit_loadstore_exclusive_load(w, rt, rn) == << <<"ldx", w, rt, rn>> >>
emit_loadstore_exclusive_store(w, rt, rn, rs) == << <<"stx", w, rs, rt, rn>> >>
emit_loadstore_literal(rt) == << <<"dispatcher", rt>> >>
emit_adr(rd) == << <<"table", rd>> >>
emit_dataprocessing_onesource(n, w, rd, rn) == << <<"rev", n, w, rd, rn>> >>
emit_dataprocessing_twosource(w, f, rd, rn, rm) == << <<"op", f, w, rd, rn, rm>> >>
emit_dataprocessing_threesource(w, f, rd, rn, rm, ra) == << <<f, w, rd, rn, rm, ra>> >>
emit_conditionalbranch_immediate(c, target) == << <<"bc", c, target>> >>
emit_unconditionalbranch_immediate(target) == << <<"b", target>> >>
emit_unconditionalbranch_register(op, r) == << <<op, r>> >>
MoveRegister(w, rd, rm) == emit_logical_register(w, "or", rd, "RZ", rm)
ZeroExtend(n, rd) == << <<"op", "mov", n, rd, rd, rd>> >>

-----------------------------------------------------------------------------
(* Immediates.                                                             *)

\* MOVZ or MOVN for the first block that is not the pattern it leaves
\* elsewhere, MOVK for the others.
emit_movewide_immediate(w, rd, imm) ==
    LET ones == 2^S16 - 1
        blocks == w \div S16
        block(k) == Cut(Cut(imm, W) \div 2^(S16 * k), S16)
        count(v) == Len(SelectSeq([k \in 1 .. blocks |-> block(k - 1)], LAMBDA b : b = v))
        invert == count(0) + (4 - blocks) < count(ones)
        skip == IF invert THEN ones ELSE 0
        kept == SelectSeq([k \in 1 .. blocks |-> k - 1], LAMBDA k : block(k) # skip)
        first == IF invert THEN "movn" ELSE "movz"
        move(j) == IF j > 1 THEN <<"movk", w, rd, kept[j], block(kept[j])>>
                   ELSE <<first, w, rd, kept[j],
                          IF invert THEN ones - block(kept[j]) ELSE block(kept[j])>>
    IN IF kept = <<>> THEN << <<first, w, rd, 0, 0>> >> ELSE [j \in 1 .. Len(kept) |-> move(j)]

emit_movewide_immediate_blinded(w, rd, imm, random) ==
    LET scratch == IF rd = temp_div_register THEN temp_register ELSE temp_div_register
    IN emit_movewide_immediate(w, rd, Cut(imm, W) ^^ random) \o
       emit_movewide_immediate(w, scratch, random) \o
       emit_logical_register(w, "xor", rd, rd, scratch)

EMIT_MOVEWIDE_IMMEDIATE(w, rd, imm, blind) ==
    IF blind.on THEN emit_movewide_immediate_blinded(w, rd, imm, blind.random)
    ELSE emit_movewide_immediate(w, rd, imm)

\* Operations with an immediate operand, and those whose instruction takes it
\* as it is; the others become register operations on temp_register.
is_imm_op(i) == ~i.isreg /\ i.cls \in {"alu", "jmp", "st"} /\ i.op # "neg"
is_alu64_op(i) ==
    CASE i.cls \in {"alu", "jmp"} -> i.w = S64
      [] i.cls = "endian" -> i.op = "bswap"
      [] OTHER -> FALSE
is_simple_imm(i) ==
    \/ i.cls = "alu" /\ i.op = "mov"
    \/ /\ (i.cls = "alu" /\ i.op \in {"add", "sub"}) \/ (i.cls = "jmp" /\ i.op # "jset")
       /\ i.imm \in 0 .. Imm12Limit - 1

-----------------------------------------------------------------------------
(* Loads and stores, division, atomics.                                    *)

AccessOp(i, rt, rn, off) ==
    CASE i.cls = "ldx" -> << <<"ld", i.w, rt, rn, off>> >>
      [] i.cls = "ldsx" -> << <<"ldsx", i.w, rt, rn, off>> >>
      [] i.cls \in {"st", "stx"} -> << <<"st", i.w, rt, rn, off>> >>

\* rt is loaded from or stored to rn + offset.
TranslateAccess(i, rt, rn, blind) ==
    LET f == IF i.off < 0 THEN "sub" ELSE "add"
        abs_offset == Magnitude(i.off)
    IN IF i.off \in -Imm9Limit .. Imm9Limit - 1 THEN AccessOp(i, rt, rn, i.off)
       ELSE (IF abs_offset < Imm12Limit
             THEN emit_addsub_immediate(S64, f, temp_div_register, rn, abs_offset)
             ELSE EMIT_MOVEWIDE_IMMEDIATE(S64, offset_register, abs_offset, blind) \o
                  emit_addsub_register(S64, f, temp_div_register, rn, offset_register)) \o
            AccessOp(i, rt, temp_div_register, 0)

divmod(i, rd, rm) ==
    LET div_dest == IF i.op = "mod" THEN temp_div_register ELSE rd
    IN emit_dataprocessing_twosource(i.w, IF i.off = 1 THEN "sdiv" ELSE "udiv", div_dest, rd, rm) \o
       (IF i.op = "mod" THEN emit_dataprocessing_threesource(i.w, "msub", rd, rm, div_dest, rd) ELSE <<>>)

\* Mutant of RetryIfFailed: the retry label is after the load-exclusive.
RetryAfterLoad(attempt) == << <<"jrc", "ne", -Len(attempt)>> >>
\* Back to the load-exclusive when the store-exclusive failed.
RetryIfFailed(attempt) == << <<"jrc", "ne", -(Len(attempt) + 1)>> >>

\* A load-exclusive/store-exclusive loop on the address in offset_register.
emit_atomic_operation(i, value_reg, addr_reg, result_reg, blind) ==
    LET status_reg == temp_div_register
        addr_temp == offset_register
        load_reg == temp_register
        address ==
            CASE i.off = 0 -> MoveRegister(S64, addr_temp, addr_reg)
              [] i.off # 0 /\ Magnitude(i.off) < Imm9Limit ->
                    emit_addsub_immediate(S64, IF i.off < 0 THEN "sub" ELSE "add",
                                          addr_temp, addr_reg, Magnitude(i.off))
              [] OTHER -> EMIT_MOVEWIDE_IMMEDIATE(S64, temp_div_register, i.off, blind) \o
                          emit_addsub_register(S64, "add", addr_temp, addr_reg, temp_div_register)
        compute == IF i.op \in {"xchg", "cmpxchg"} THEN <<>>
                   ELSE << <<"op", i.op, i.w, "R8", load_reg, value_reg>> >>
        stored == IF i.op \in {"xchg", "cmpxchg"} THEN value_reg ELSE "R8"
        store == emit_loadstore_exclusive_store(i.w, stored, addr_temp, status_reg) \o
                 emit_subs_immediate(S32, "RZ", status_reg, 0)
        compare == IF i.op # "cmpxchg" THEN <<>>
                   ELSE emit_subs_register(i.w, "RZ", load_reg, map_register(0)) \o
                        << <<"jrc", "ne", Len(store) + 1>> >>
        attempt == emit_loadstore_exclusive_load(i.w, load_reg, addr_temp) \o compare \o compute \o store
    IN address \o attempt \o RetryIfFailed(attempt) \o
       (IF AtomicFetches(i) THEN MoveRegister(i.w, result_reg, load_reg) ELSE <<>>)

\* The word's old value goes to the source register, or to r0.
TranslateAtomic(i, src, dst, blind) ==
    emit_atomic_operation(i, src, dst, IF i.op = "cmpxchg" THEN map_register(0) ELSE src, blind)

-----------------------------------------------------------------------------
(* Calls, entry and exit.                                                  *)

emit_dispatched_external_helper_call(idx, blind) ==
    LET default == EMIT_MOVEWIDE_IMMEDIATE(S64, "R5", idx, blind) \o
                   emit_movewide_immediate(S64, "R6", 3) \o
                   emit_dataprocessing_twosource(S64, "lsh", "R5", "R5", "R6") \o
                   emit_movewide_immediate(S64, temp_register, 0) \o emit_adr(temp_register) \o
                   emit_addsub_register(S64, "add", temp_register, temp_register, "R5") \o
                   << <<"ld", S64, temp_register, temp_register, 0>> >> \o
                   MoveRegister(S64, "R5", VOLATILE_CTXT)
        external == EMIT_MOVEWIDE_IMMEDIATE(S64, "R5", idx, blind) \o MoveRegister(S64, "R6", VOLATILE_CTXT)
    IN << <<"alloc", 2>>, <<"ststk", "R30", 0>> >> \o
       emit_loadstore_literal(temp_register) \o
       emit_subs_immediate(S64, temp_register, temp_register, 0) \o
       << <<"jrc", "ne", Len(default) + 1>> >> \o default \o
       << <<"jr", Len(external)>> >> \o external \o
       emit_unconditionalbranch_register("blr", temp_register) \o
       MoveRegister(S64, map_register(0), "R0") \o
       << <<"ldstk", "R30", 0>>, <<"free", 2>> >>

emit_local_call(target_pc) ==
    LET kept == <<"R30", temp_register, map_register(6), map_register(7), map_register(8), map_register(9)>>
    IN << <<"ldstk", temp_register, 0>> >> \o
       emit_addsub_register(S64, "sub", map_register(10), map_register(10), temp_register) \o
       << <<"alloc", 6>> >> \o [k \in 1 .. 6 |-> <<"ststk", kept[k], k - 1>>] \o
       << <<"bbl", <<"local", target_pc>> >> >> \o
       [k \in 1 .. 6 |-> <<"ldstk", kept[k], k - 1>>] \o << <<"free", 6>> >> \o
       emit_addsub_register(S64, "add", map_register(10), map_register(10), temp_register)

TranslateCall(i, pc, unwind, blind) ==
    CASE i.src = 0 ->
            emit_dispatched_external_helper_call(i.imm, blind) \o
            (IF i.imm = unwind
             THEN emit_subs_immediate(S64, "RZ", map_register(0), 0) \o
                  emit_conditionalbranch_immediate("eq", ExitTarget)
             ELSE <<>>)
      [] i.src = 1 -> emit_local_call(pc + i.imm + 1)
      [] OTHER -> emit_unconditionalbranch_immediate(ExitTarget)

TranslateExit == << <<"free", 2>> >> \o emit_unconditionalbranch_register("br", "R30")

FunctionProlog(usage) ==
    emit_movewide_immediate(S64, temp_register, usage) \o
    << <<"alloc", 2>>, <<"ststk", temp_register, 0>>, <<"ststk", temp_register, 1>> >>

emit_jit_prologue(basic, ubpf_stack_size) ==
    LET frame == IF basic THEN << <<"getsp", map_register(10)>>, <<"alloc", ubpf_stack_size>> >>
                 ELSE emit_addsub_immediate(S64, "add", map_register(10), "R2", 0) \o
                      emit_addsub_register(S64, "add", map_register(10), map_register(10), "R3")
    IN << <<"alloc", 2>>, <<"ststk", "R29", 0>>, <<"ststk", "R30", 1>>, <<"alloc", 8>> >> \o
       [k \in 1 .. 8 |-> <<"ststk", callee_saved_registers[k], k - 1>>] \o
       << <<"getsp", "R29">> >> \o frame \o MoveRegister(S64, VOLATILE_CTXT, "R0") \o
       << <<"bbl", <<"Enter", 0>> >> >> \o emit_unconditionalbranch_immediate(ExitTarget)

emit_jit_epilogue ==
    MoveRegister(S64, "R0", map_register(0)) \o << <<"setsp", "R29">> >> \o
    [k \in 1 .. 8 |-> <<"ldstk", callee_saved_registers[k], k - 1>>] \o
    << <<"free", 8>>, <<"ldstk", "R29", 0>>, <<"ldstk", "R30", 1>>, <<"free", 2>> >> \o
    emit_unconditionalbranch_register("br", "R30")

-----------------------------------------------------------------------------
(* The switch of translate().                                              *)

to_condition(op) ==
    CASE op = "jeq" -> "eq"  [] op = "jgt" -> "hi"  [] op = "jge" -> "hs"  [] op = "jlt" -> "lo"
      [] op = "jle" -> "ls"  [] op = "jset" -> "ne" [] op = "jne" -> "ne"  [] op = "jsgt" -> "gt"
      [] op = "jsge" -> "ge" [] op = "jslt" -> "lt" [] op = "jsle" -> "le"

TranslateAluRegister(i, w, src, dst) ==
    CASE i.op \in {"add", "sub"} -> emit_addsub_register(w, i.op, dst, dst, src)
      [] i.op \in {"lsh", "rsh", "arsh"} -> emit_dataprocessing_twosource(w, i.op, dst, dst, src)
      [] i.op = "mul" -> emit_dataprocessing_threesource(w, "madd", dst, dst, src, "RZ")
      [] i.op \in {"div", "mod"} -> divmod(i, dst, src)
      [] i.op \in {"or", "and", "xor"} -> emit_logical_register(w, i.op, dst, dst, src)
      [] i.op = "neg" -> emit_addsub_register(w, "sub", dst, "RZ", dst)
      [] i.op = "mov" -> IF i.off = 0 THEN MoveRegister(w, dst, src)
                         ELSE << <<"sx", i.off, w, dst, src>> >>

TranslateEndian(i, w, dst) ==
    (IF i.op = "le" THEN <<>>
     ELSE emit_dataprocessing_onesource(i.imm, IF i.imm = S64 THEN S64 ELSE w, dst, dst)) \o
    (IF i.imm = S16 \/ (i.imm = S32 /\ i.op # "be") THEN ZeroExtend(i.imm, dst) ELSE <<>>)

\* A comparison with the register or the immediate, and a branch.
TranslateJump(i, w, src, dst, byReg, target) ==
    (CASE i.op = "jset" -> emit_ands_register(w, "RZ", dst, src)
       [] i.op # "jset" /\ byReg -> emit_subs_register(w, "RZ", dst, src)
       [] OTHER -> emit_subs_immediate(w, "RZ", dst, i.imm)) \o
    emit_conditionalbranch_immediate(to_condition(i.op), target)

\* The immediate moves to temp_register unless the instruction takes it.
Translate(i, pc, unwind, blind) ==
    LET w == IF is_alu64_op(i) THEN S64 ELSE S32
        moves == is_imm_op(i) /\ ~(i.cls = "alu" /\ i.op = "mov") /\ (~is_simple_imm(i) \/ blind.on)
        byReg == i.isreg \/ moves \/ i.op = "neg"
        dst == map_register(i.dst)
        src == IF moves THEN temp_register ELSE map_register(i.src)
        target == RegularTarget(pc + i.jump + 1)
    IN (IF moves THEN EMIT_MOVEWIDE_IMMEDIATE(w, temp_register, i.imm, blind) ELSE <<>>) \o
       CASE i.cls = "alu" /\ byReg -> TranslateAluRegister(i, w, src, dst)
         [] i.cls = "alu" /\ ~byReg ->
                IF i.op = "mov" THEN EMIT_MOVEWIDE_IMMEDIATE(w, dst, i.imm, blind)
                ELSE emit_addsub_immediate(w, i.op, dst, dst, i.imm)
         [] i.cls = "endian" -> TranslateEndian(i, w, dst)
         [] i.cls = "ja" -> emit_unconditionalbranch_immediate(target)
         [] i.cls = "jmp" -> TranslateJump(i, w, src, dst, byReg, target)
         [] i.cls = "call" -> TranslateCall(i, pc, unwind, blind)
         [] i.cls = "exit" -> TranslateExit
         [] i.cls \in {"ldx", "ldsx"} -> TranslateAccess(i, dst, src, blind)
         [] i.cls \in {"st", "stx"} -> TranslateAccess(i, src, dst, blind)
         [] i.cls = "lddw" -> EMIT_MOVEWIDE_IMMEDIATE(S64, dst, i.imm, blind)
         [] i.cls = "atomic" -> TranslateAtomic(i, src, dst, blind)

=============================================================================
