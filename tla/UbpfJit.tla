------------------------------ MODULE UbpfJit ------------------------------
(***************************************************************************)
(* A whole program through the JIT: the translation loop, the tables of    *)
(* addresses patched afterwards, and the native code that results, run     *)
(* from the host's call to the return to the host next to the program's    *)
(* meaning in the interpreter.  JitX86 and JitArm64 say what is emitted    *)
(* for one instruction, NativeCpu what the code does.                      *)
(***************************************************************************)
EXTENDS NativeCpu, FiniteSets, SequencesExt

CONSTANTS
    Imm9Limit, Imm12Limit,
    UBPF_MAX_INSTS,       \* entries of each table of patchable addresses
    UBPF_EBPF_STACK_SIZE, \* words of eBPF stack, even
    Context               \* the memory pointer the host passes

ASSUME FlowAssumption == UBPF_MAX_INSTS \in Nat /\ UBPF_EBPF_STACK_SIZE % 2 = 0 /\ HostTop % 2 = 0

VARIABLES
    prog,  \* [isa, insns, usage, basic, blind, disp, res, size]: what is compiled and run;
           \* size is the room in the code buffer, in native instructions
    state, \* struct jit_state, and how the compilation stands
    m,     \* the machine
    ref    \* the interpreter's state
vars == <<prog, state, m, ref>>

X86 == INSTANCE JitX86
Arm64 == INSTANCE JitArm64

IsX86 == prog.isa = "x86"
MapRegister(k) == IF IsX86 THEN X86!map_register(k) ELSE Arm64!map_register(k)
Insn(pc) == prog.insns[pc + 1]
NumInsts == Len(prog.insns)

\* LDDW takes two slots; the second holds the upper half of its immediate.
Slots(pc) == IF Insn(pc).cls = "lddw" THEN 2 ELSE 1
Whole(pc) ==
    IF Insn(pc).cls # "lddw" THEN Insn(pc)
    ELSE [Insn(pc) EXCEPT !.imm = Cut(@, S32) + Cut(Insn(pc + 1).imm, S32) * 2 ^ S32]

\* The pcs some local call of the program targets, set when it was loaded.
int_funcs(pc) ==
    \E k \in 0 .. NumInsts - 1 : Insn(k).cls = "call" /\ Insn(k).src = 1 /\ pc = k + Insn(k).imm + 1
StartsFunction(pc) == pc = 0 \/ int_funcs(pc)
ubpf_instruction_has_fallthrough(i) == i.cls # "exit"
ubpf_stack_usage_for_local_func(pc) == prog.usage[pc]

-----------------------------------------------------------------------------
(* Translation.  code holds native instructions with symbolic targets;     *)
(* a location is an index into it.                                         *)

\* What goes through the jump table: every branch to a target that is patched
\* later.  x86-64 also patches the two jumps inside a helper call, ARM64 all
\* the jumps inside an instruction's code.
Patched(i, code) ==
    LET within == IF IsX86 /\ ~(i.cls = "call" /\ i.src = 0) THEN {} ELSE {"jr", "jrc"}
        special(o) == o[1] \in {"bcall", "bbl"} /\ o[2][1] # "local"
    IN Len(SelectSeq(code, LAMBDA o : o[1] \in {"b", "bc"} \cup within \/ special(o)))
LocalCalls(code) == Len(SelectSeq(code, LAMBDA o : o[1] \in {"bcall", "bbl"} /\ o[2][1] = "local"))

Prologue == IF IsX86 THEN X86!Prologue(prog.basic, UBPF_EBPF_STACK_SIZE)
            ELSE Arm64!emit_jit_prologue(prog.basic, UBPF_EBPF_STACK_SIZE)
Epilogue == IF IsX86 THEN X86!Epilogue ELSE Arm64!emit_jit_epilogue
\* Mutant of FunctionProlog: every function gets the stack usage of main.
FunctionPrologOfMain(pc) ==
    LET usage == ubpf_stack_usage_for_local_func(0)
    IN IF IsX86 THEN X86!FunctionProlog(usage) ELSE Arm64!FunctionProlog(usage)
FunctionProlog(pc) ==
    LET usage == ubpf_stack_usage_for_local_func(pc)
    IN IF IsX86 THEN X86!FunctionProlog(usage) ELSE Arm64!FunctionProlog(usage)
Body(pc) == IF IsX86 THEN X86!Translate(Whole(pc), pc, Unwind, prog.blind)
            ELSE Arm64!Translate(Whole(pc), pc, Unwind, prog.blind)

\* What does not fit into the buffer is not written.
Fits(code) == Len(code) <= prog.size

NoCall == [cls |-> "none", src |-> 0]
NotStarted == [phase |-> "new", i |-> 0, code |-> <<>>, pc_locs |-> <<>>, num_jumps |-> 0,
               num_local_calls |-> 0, bpf_function_prolog_size |-> 0, local_calls |-> TRUE,
               truncated |-> FALSE, exit_loc |-> 0, retpoline_loc |-> 0, entry_loc |-> 0]

\* The tables are allocated; local_calls is not among those that are tested.
\* Then the prologue is written; the loop ends at once if it does not fit.
initialize_jit_state_result ==
    /\ state.phase = "new"
    /\ \E tested, local_calls \in BOOLEAN :
          state' = [state EXCEPT !.phase = IF tested /\ Fits(Prologue) THEN "emit" ELSE "failed",
                                 !.local_calls = local_calls,
                                 !.code = Prologue, !.num_jumps = Patched(NoCall, Prologue),
                                 !.entry_loc = Len(Prologue) + 1]
    /\ UNCHANGED <<prog, m, ref>>

\* The jump around a function's prolog for the code that precedes it.
FallthroughJump(pc) ==
    IF pc # 0 /\ int_funcs(pc) /\ ubpf_instruction_has_fallthrough(Insn(pc - 1))
    THEN << <<"jr", Len(FunctionProlog(pc))>> >> ELSE <<>>

\* Does recording so many jumps and local calls overrun the tables?
TablesFull(jumps, calls) == jumps > UBPF_MAX_INSTS \/ calls > UBPF_MAX_INSTS

\* Recording jumps and local calls overruns a table on ARM64, which does not test
\* it, or goes through a local_calls table that is not there.
RecordCrashes(jumps, calls) ==
    \/ ~IsX86 /\ TablesFull(jumps, calls)
    \/ calls \in state.num_local_calls + 1 .. UBPF_MAX_INSTS /\ ~state.local_calls

\* An assertion, where it is compiled in, finds a function's prolog cut off.
PrologAsserts(prolog, before) == prolog # <<>> /\ state.bpf_function_prolog_size # 0 /\ ~Fits(before)

\* One turn of the loop.  x86-64 tests a table before it adds to it, both
\* processors whether the code fits; the error ends the loop and the
\* compilation.  An unknown opcode does so too, but validate lets none through.
\* The second slot of an LDDW is passed over and has no location.
TranslateInsn ==
    /\ state.phase = "emit" /\ state.i < NumInsts
    /\ LET pc == state.i
       IN \E prolog \in {IF StartsFunction(pc) THEN FunctionProlog(pc) ELSE <<>>} :
          \E before \in {state.code \o FallthroughJump(pc) \o prolog} : \E body \in {Body(pc)}, asserts \in BOOLEAN :
          LET jumps == state.num_jumps + Len(FallthroughJump(pc)) + Patched(Insn(pc), body)
              calls == state.num_local_calls + LocalCalls(body)
              crashes == RecordCrashes(jumps, calls) \/ (asserts /\ PrologAsserts(prolog, before))
              fails == TablesFull(jumps, calls) \/ ~Fits(before \o body)
          IN state' = [state EXCEPT
                !.phase = CASE crashes -> "crashed" [] ~crashes /\ fails -> "failed" [] OTHER -> "emit",
                !.i = pc + Slots(pc), !.code = before \o body,
                !.pc_locs = @ \o <<Len(before) + 1>> \o [k \in 1 .. Slots(pc) - 1 |-> 0],
                !.num_jumps = jumps, !.num_local_calls = calls,
                !.bpf_function_prolog_size = IF @ = 0 THEN Len(prolog) ELSE @]
    /\ UNCHANGED <<prog, m, ref>>

\* The location a symbolic target stands for.
TargetLoc(t) ==
    CASE t[1] = "pc" -> state.pc_locs[t[2] + 1]
      [] t[1] = "local" -> state.pc_locs[t[2] + 1] - state.bpf_function_prolog_size
      [] t[1] = "Exit" -> state.exit_loc
      [] t[1] = "Enter" -> state.entry_loc
      [] t[1] = "Retpoline" -> state.retpoline_loc

\* The words of the dispatcher's address and the helper table, after the code.
DataWords == 1 + NumHelpers

\* The epilogue and the retpoline end the code.  The retpoline's two jumps are
\* recorded too: when they, or the rest of the code, do not fit, nothing more is
\* emitted, and the status is not looked at again.
TranslateEnd ==
    /\ state.phase = "emit" /\ state.i = NumInsts
    /\ LET unrecorded == IsX86 /\ TablesFull(state.num_jumps + 2, state.num_local_calls)
           end == Epilogue \o (IF IsX86 /\ ~unrecorded THEN X86!emit_retpoline ELSE <<>>)
           all == Len(state.code) + Len(end)
       IN state' = [state EXCEPT
             !.phase = "resolve", !.truncated = unrecorded \/ all + DataWords > prog.size,
             !.exit_loc = Len(state.code) + 1, !.retpoline_loc = Len(state.code) + Len(Epilogue) + 1,
             !.code = SubSeq(@ \o end, 1, IF all <= prog.size THEN all ELSE prog.size)]
    /\ UNCHANGED <<prog, m, ref>>

\* Every target is one of those TargetLoc knows, which is all that the emitting
\* functions record, and near jumps are inside the code of one instruction, so
\* the code's two error returns, for an unknown target and for a near jump that
\* is too far, are never taken.
resolve_patchable_relatives ==
    /\ state.phase = "resolve"
    /\ LET patch(o) == CASE o[1] = "b" -> <<"jmp", TargetLoc(o[2])>>
                         [] o[1] = "bc" -> <<"jcc", o[2], TargetLoc(o[3])>>
                         [] o[1] = "bcall" -> <<"call", TargetLoc(o[2])>>
                         [] o[1] = "bbl" -> <<"bl", TargetLoc(o[2])>>
                         [] OTHER -> o
       IN \E patched \in {[k \in DOMAIN state.code |-> patch(state.code[k])]} :
             state' = [state EXCEPT !.phase = "run", !.code = patched]
    /\ UNCHANGED <<prog, m, ref>>

-----------------------------------------------------------------------------
(* Execution.                                                              *)

AllRegisters == IF IsX86 THEN X86Registers ELSE Arm64Registers
Parameters == IF IsX86 THEN <<"RDI", "RSI", "RDX", "RCX">> ELSE <<"R0", "R1", "R2", "R3">>
\* Registers the host expects back; the link register holds its location.
Nonvolatile == IF IsX86 THEN X86!platform_nonvolatile_registers
               ELSE Arm64!callee_saved_registers \o <<"R29", "R30">>
HostRegister(k) == IF Nonvolatile[k] = "R30" THEN 0 ELSE 40 + k

\* The host calls the code with memory, its length, and in extended mode the
\* stack and its length.
HostCall ==
    [isa |-> prog.isa, stk |-> IF IsX86 THEN <<0>> ELSE <<>>, fl |-> Compare(W, 0, 0), ip |-> 1,
     reg |-> [r \in AllRegisters |->
                CASE r = Parameters[1] -> Context
                  [] r = Parameters[3] -> CellAddr
                  [] r = Parameters[4] -> 1
                  [] r \in ToSet(Nonvolatile) -> HostRegister(CHOOSE k \in DOMAIN Nonvolatile : Nonvolatile[k] = r)
                  [] OTHER -> Junk],
     cell |-> Junk, monitor |-> FALSE, found |-> Junk, wrote |-> <<>>,
     disp |-> prog.disp, res |-> prog.res, calls |-> <<>>, out |-> "run"]

Boundaries == ToSet(state.pc_locs) \ {0}

\* The host's call, up to the program's first instruction.
Enter ==
    /\ state.phase = "run" /\ m.out = "idle" /\ ~state.truncated
    /\ m' = Advance(HostCall, state.code, Boundaries)
    /\ ref' = [pc |-> 0, r |-> [k \in 0 .. 10 |-> m'.reg[MapRegister(k)]], frames |-> <<>>,
               mem |-> [a \in {} |-> 0], calls |-> 0, usage |-> ubpf_stack_usage_for_local_func(0)]
    /\ UNCHANGED <<prog, state>>

\* The interpreter's registers, memory and frames after the instruction at pc.
\* At a function's first instruction the frame takes that function's usage.
At(s, pc) == [s EXCEPT !.pc = pc, !.usage = IF StartsFunction(pc) THEN ubpf_stack_usage_for_local_func(pc) ELSE @]
Value(s, a) == IF a \in DOMAIN s.mem THEN s.mem[a] ELSE Junk
RefStep(s) ==
    LET i == Whole(s.pc)
        a == EffectiveAddress(i, s.r)
        after == [s EXCEPT !.r = RegistersAfter(i, s.r, Value(s, a), prog.res)]
        target == s.pc + 1 + (IF i.cls = "call" THEN i.imm ELSE i.jump)
        top == Head(s.frames)
    IN CASE i.cls = "call" /\ i.src = 1 ->
              At([s EXCEPT !.r[10] = @ - s.usage,
                           !.frames = <<[pc |-> s.pc + 1, r |-> s.r, usage |-> s.usage]>> \o @], target)
         [] i.cls = "call" /\ i.src = 0 ->
              IF NextAfter(i, s.r, prog.res) = "exit" THEN [after EXCEPT !.pc = NumInsts, !.calls = @ + 1]
              ELSE At([after EXCEPT !.calls = @ + 1], s.pc + 1)
         [] i.cls = "exit" /\ s.frames = <<>> -> [s EXCEPT !.pc = NumInsts]
         [] i.cls = "exit" /\ s.frames # <<>> ->
              At([s EXCEPT !.r = [k \in 0 .. 10 |-> IF k \in 6 .. 10 THEN top.r[k] ELSE s.r[k]],
                           !.frames = Tail(@), !.usage = top.usage], top.pc)
         [] i.cls = "stx" -> At([s EXCEPT !.mem = [x \in DOMAIN @ \cup {a} |->
                                                      IF x = a THEN s.r[i.src] ELSE @[x]]], s.pc + 1)
         [] OTHER -> At(after, IF NextAfter(i, s.r, prog.res) = "target" THEN target ELSE s.pc + Slots(s.pc))

\* The code of one eBPF instruction, next to the interpreter.
Step ==
    /\ state.phase = "run" /\ m.out = "run"
    /\ m' = Advance(m, state.code, Boundaries)
    /\ ref' = RefStep(ref)
    /\ UNCHANGED <<prog, state>>

Done ==
    /\ state.phase \in {"failed", "crashed"} \/ state.truncated \/ m.out \notin {"idle", "run"}
    /\ UNCHANGED vars

Start == state = NotStarted /\ m = [out |-> "idle"] /\ ref = [pc |-> 0]

Next == \/ initialize_jit_state_result \/ TranslateInsn \/ TranslateEnd \/ resolve_patchable_relatives
        \/ Enter \/ Step \/ Done

-----------------------------------------------------------------------------
(* Properties.                                                             *)

Running == state.phase = "run" /\ m.out # "idle"
\* Registers whose value the program may rely on; r1 to r5 are lost in a call.
Defined == IF ref.calls = 0 THEN 0 .. 10 ELSE {0} \cup (6 .. 10)

\* The compiled program does what the interpreter does, instruction by
\* instruction: it is at the same instruction, with the same registers, frame
\* pointer and stack contents, through nested local calls, returns, jumps,
\* fall-through into a function, helper calls and unwinding from any depth.
Lockstep ==
    Running =>
        /\ m.out = IF ref.pc = NumInsts THEN "host" ELSE "run"
        /\ m.out = "run" => /\ m.ip = state.pc_locs[ref.pc + 1]
                            /\ \A k \in Defined : m.reg[MapRegister(k)] = ref.r[k]
                            /\ \A a \in DOMAIN ref.mem :
                                  ref.mem[a] = IF a = CellAddr THEN m.cell ELSE m.stk[Slot(m, a)]

\* Between instructions the top of the host's stack is the stack usage of the
\* function that runs, which the next local call moves the frame pointer by.
TopOfStack == Running /\ m.out = "run" => m.stk[1] = ref.usage

\* The host gets its stack pointer and its registers back, and the program's
\* result, whichever way the program ends.
HostRestored ==
    Running /\ m.out = "host" =>
        /\ m.stk = <<>>
        /\ \A k \in DOMAIN Nonvolatile : m.reg[Nonvolatile[k]] = HostRegister(k)
        /\ m.reg[IF IsX86 THEN "RAX" ELSE "R0"] = ref.r[0]

\* Helpers are called on an aligned stack at every depth of local calls, with
\* the context the host passed.
CallsServed ==
    Running => /\ Len(m.calls) = ref.calls
               /\ \A c \in ToSet(m.calls) : c.aligned /\ c.context = Context

=============================================================================
