-------------------------- MODULE UbpfInterpProofs --------------------------
(***************************************************************************)
(* Theorems about the interpreter, for every program the validator accepts *)
(* and every setting.                                                      *)
(***************************************************************************)
EXTENDS UbpfInterp, TLAPS

Validated == prog \in Programs /\ validate(prog)

\* What validation tells about the instruction the interpreter fetches: its
\* registers exist, only instructions that may write R10 through memory name
\* it, and jumps, local calls and wide immediates stay inside the program.
LEMMA FetchedInstruction ==
    ASSUME Validated, pc \in DOMAIN prog, prog[pc].op # "zero"
    PROVE  /\ prog[pc] \in Inst
           /\ prog[pc] \in Instructions
           /\ prog[pc].src \in Registers /\ prog[pc].dst \in Registers
           /\ prog[pc].op \in AluOps \cup {"lddw", "ldx"} => prog[pc].dst \in 0 .. 9
           /\ prog[pc].op \in JumpOps => JumpTarget(prog, pc) \in DOMAIN prog
           /\ IsLocalCall(prog, pc) => CallTarget(prog, pc) \in DOMAIN prog
           /\ prog[pc].op = "lddw" => pc + 1 \in DOMAIN prog
<1> DEFINE x == prog[pc]
<1>1. x \in Inst
  BY InterpAssumption, Zenon DEF Validated
<1>2. x \in Instructions
  BY DEF Validated, Instructions
<1>3. InstructionAllowed(prog, pc)
  BY Zenon DEF Validated, validate
<1>4. /\ x.op \in Ops /\ x.dst \in 0 .. 15 /\ x.src \in 0 .. 15
      /\ x.off \in Int /\ x.imm \in Int /\ x.sz \in Nat
  BY <1>1, Zenon DEF Inst
<1>5. x.src \in Registers /\ x.dst \in Registers
  BY <1>3, <1>4 DEF InstructionAllowed, RegistersAllowed, Registers
<1>6. x.op \in AluOps => x.dst <= 9
  BY <1>3, Zenon DEF InstructionAllowed, FilterAccepts, FilterArithmetic, FilterMemory, Dst, AluOps, ImmOps, RegOps
<1>7. x.op \in {"lddw", "ldx"} => x.dst <= 9
  BY <1>3, Zenon DEF InstructionAllowed, RegistersAllowed, StoreOps
<1>8. x.op \in JumpOps => JumpTarget(prog, pc) \in DOMAIN prog
  BY <1>3, Zenon DEF InstructionAllowed, JumpOps, JumpAllowed
<1>9. IsLocalCall(prog, pc) => CallTarget(prog, pc) \in DOMAIN prog
  BY <1>3 DEF InstructionAllowed, JumpOps, IsLocalCall, CallAllowed
<1>10. x.op = "lddw" => pc + 1 \in DOMAIN prog
  BY <1>3, Zenon DEF InstructionAllowed, JumpOps, LddwPaired
<1> QED
  BY <1>1, <1>2, <1>4, <1>5, <1>6, <1>7, <1>8, <1>9, <1>10

\* The program counter of the program is a natural number.
LEMMA ProgramCounters ==
    ASSUME Validated PROVE DOMAIN prog \subseteq Nat
BY InterpAssumption, Zenon DEF Validated

\* Unsigned addition and subtraction stay in range, and addition undoes
\* subtraction even when both wrap.
LEMMA Wrapping ==
    ASSUME NEW a \in Word, NEW u \in Word
    PROVE  Add(a, u) \in Word /\ Sub(a, u) \in Word /\ Add(Sub(a, u), u) = a
BY InterpAssumption DEF Word, Add, Sub

\* The head of the loop keeps the frames well-typed and changes nothing but the
\* stack usage of the current frame.
LEMMA HeadKeepsFrames ==
    ASSUME TypeOK, Validated, pc \in DOMAIN prog
    PROVE  /\ HeadFrames \in [0 .. MaxCallDepth - 1 -> Frame]
           /\ \A k \in 0 .. MaxCallDepth - 1 :
                 /\ HeadFrames[k].saved_registers = stack_frames[k].saved_registers
                 /\ HeadFrames[k].return_address = stack_frames[k].return_address
                 /\ k # stack_frame_index => HeadFrames[k] = stack_frames[k]
<1>1. UsageOf(pc) \in Word
  BY InterpAssumption, Zenon DEF Validated
<1>2. CASE pc \in Starts(prog) /\ stack_frame_index < MaxCallDepth
  BY <1>1, <1>2, Zenon DEF HeadFrames, TypeOK, Frame
<1>3. CASE ~(pc \in Starts(prog) /\ stack_frame_index < MaxCallDepth)
  BY <1>3, Zenon DEF HeadFrames, TypeOK
<1> QED
  BY <1>2, <1>3, Zenon

\* Tracking only ever marks registers.
LEMMA ShadowStaysTyped ==
    ASSUME TypeOK, NEW x \in Inst, x.dst \in Registers
    PROVE  ShadowAfter(x) \subseteq Registers
<1>1. 0 \in Registers /\ shadow_registers \subseteq Registers
  BY DEF TypeOK, Registers
<1>2. ShadowAfter(x) \subseteq shadow_registers \cup {0, x.dst}
  BY Zenon DEF ShadowAfter
<1> QED
  BY <1>1, <1>2, Zenon

\* A call of ubpf_exec_ex starts with the types right and a program that was loaded.
LEMMA InitTyped == Init => TypeOK /\ Validated
<1> SUFFICES ASSUME Init PROVE TypeOK /\ Validated
  BY Zenon
<1>1. set \in Setting /\ set.stack + set.stack_len \in Word
  BY InterpAssumption, Zenon DEF Init
<1>2. PICK g \in Garbage :
        reg = [r \in Registers |-> IF r = 1 THEN set.mem
                                   ELSE IF r = 2 THEN set.mem_len
                                   ELSE IF r = 10 THEN set.stack + set.stack_len
                                   ELSE g]
  BY Zenon DEF Init
<1>3. reg \in [Registers -> Word]
  BY <1>1, <1>2, InterpAssumption, Zenon DEF Setting
<1>4. 0 \in Word
  BY InterpAssumption DEF Word
<1>5. stack_frames \in [0 .. MaxCallDepth - 1 -> Frame]
  BY <1>4, Zenon DEF Init, Frame
<1>6. calls \in [0 .. MaxCallDepth - 1 -> Activation]
  <2>1. Kept \in [6 .. 10 -> Word]
    BY <1>3 DEF Kept, Registers
  <2> QED
    BY <2>1, Zenon DEF Init, Activation
<1>7. instruction_limit \in Int
  <2>1. set.limit \in Int
    BY <1>1, InterpAssumption DEF Setting
  <2> QED
    BY <2>1, InterpAssumption DEF Init, ToInt
<1>8. accessed \in [start : Word, size : Nat]
  BY <1>4, Zenon DEF Init, NoAccess
<1>9. prog \in Programs /\ validate(prog) /\ set \in Settings /\ outcome = "entered"
  BY Zenon DEF Init
<1>10. /\ pc = 0 /\ shadow_registers = {1, 2, 10} /\ shadow_stack = {}
       /\ stack_frame_index = 0 /\ executed = 0
  BY Zenon DEF Init
<1>11. /\ shadow_registers \subseteq Registers /\ shadow_stack \subseteq Word
       /\ stack_frame_index \in 0 .. MaxCallDepth
  BY <1>10, InterpAssumption DEF Registers
<1> QED
  BY <1>3, <1>5, <1>6, <1>7, <1>8, <1>9, <1>10, <1>11, Zenon DEF TypeOK, Validated

\* The part every executed instruction shares keeps the types.
LEMMA ExecutesTyped ==
    ASSUME TypeOK, Validated, NEW ops, Executes(ops), "zero" \notin ops
    PROVE  /\ pc \in DOMAIN prog /\ prog[pc].op \in ops /\ prog[pc].op # "zero"
           /\ Validated' /\ set' \in Settings
           /\ instruction_limit' \in Int /\ executed' \in Nat
           /\ ShadowAfter(prog[pc]) \subseteq Registers
           /\ HeadFrames \in [0 .. MaxCallDepth - 1 -> Frame]
<1> DEFINE x == prog[pc]
<1>1. pc \in DOMAIN prog /\ x.op \in ops /\ UNCHANGED <<prog, set>>
  BY Zenon DEF Executes, Inside
<1>2. instruction_limit' \in Int /\ executed' \in Nat
  BY DEF Executes, TypeOK
<1>3. x \in Inst /\ x.dst \in Registers
  BY <1>1, FetchedInstruction, Zenon
<1> QED
  BY <1>1, <1>2, <1>3, ShadowStaysTyped, HeadKeepsFrames, Zenon DEF TypeOK, Validated

\* Every turn of the loop keeps the types.
LEMMA StepTyped == TypeOK /\ Validated /\ [Next]_vars => TypeOK' /\ Validated'
<1> SUFFICES ASSUME TypeOK, Validated, [Next]_vars PROVE TypeOK' /\ Validated'
  BY Zenon
<1>1. CASE UNCHANGED vars
  BY <1>1, Zenon DEF vars, locals, TypeOK, Validated
<1>2. CASE Enter
  BY <1>2, Zenon DEF Enter, locals, TypeOK, Validated
<1>3. CASE \/ RunsOffTheEnd \/ LimitExceeded \/ ShadowRejects \/ UnknownOpcode
           \/ AccessRefused \/ DepthExceeded
  BY <1>3, Zenon DEF RunsOffTheEnd, LimitExceeded, ShadowRejects, UnknownOpcode, AccessRefused,
              DepthExceeded, Fails, locals, TypeOK, Validated
<1> DEFINE x == prog[pc]
<1> DEFINE Head(ops) ==
             /\ pc \in DOMAIN prog /\ x.op \in ops /\ x.op # "zero"
             /\ Validated' /\ set' \in Settings
             /\ instruction_limit' \in Int /\ executed' \in Nat
             /\ ShadowAfter(x) \subseteq Registers
             /\ HeadFrames \in [0 .. MaxCallDepth - 1 -> Frame]
<1>4. ASSUME NEW ops, Executes(ops), "zero" \notin ops PROVE Head(ops)
  BY <1>4, ExecutesTyped, Zenon
<1>5. 0 \in Word /\ NoAccess \in [start : Word, size : Nat]
  BY InterpAssumption DEF Word, NoAccess
<1>6. CASE Alu
  <2>1. Head(AluOps)
    BY <1>4, <1>6, Zenon DEF Alu, AluOps, ImmOps, RegOps
  <2>2. x.dst \in Registers /\ x.src \in Registers /\ x \in Instructions
    BY <2>1, FetchedInstruction, Zenon
  <2>3. Compute(x, reg[x.dst], reg[x.src]) \in Word
    BY <2>1, <2>2, InterpAssumption, Zenon DEF TypeOK
  <2>4. reg' \in [Registers -> Word]
    BY <1>6, <2>2, <2>3, Zenon DEF Alu, TypeOK
  <2>5. pc' \in Nat /\ outcome' = "running"
    BY <1>6 DEF Alu, Continues, TypeOK
  <2> QED
    BY <1>5, <1>6, <2>1, <2>4, <2>5, Zenon DEF Alu, Plain, TypeOK, Validated
<1>7. CASE Lddw
  <2>1. Head({"lddw"})
    BY <1>4, <1>7, Zenon DEF Lddw
  <2>2. x.dst \in Registers /\ x \in Instructions /\ pc + 1 \in DOMAIN prog
    BY <2>1, FetchedInstruction, Zenon
  <2>3. Join(x.imm, prog[pc + 1].imm) \in Word
    BY <2>2, InterpAssumption DEF Validated, Instructions
  <2>4. reg' \in [Registers -> Word]
    BY <1>7, <2>2, <2>3, Zenon DEF Lddw, TypeOK
  <2>5. pc' \in Nat /\ outcome' = "running"
    BY <1>7 DEF Lddw, Continues, TypeOK
  <2> QED
    BY <1>5, <1>7, <2>1, <2>4, <2>5, Zenon DEF Lddw, Plain, TypeOK, Validated
<1>8. ASSUME NEW base \in Registers, pc \in DOMAIN prog, x.op # "zero",
             Accessible(x, base), Accesses(x, base)
      PROVE  accessed' \in [start : Word, size : Nat] /\ reg[base] + x.off \in Word
  BY <1>8, FetchedInstruction, Zenon DEF Accessible, AddressOverflows, Accesses, Inst
<1>9. CASE Load
  <2>1. Head({"ldx"})
    BY <1>4, <1>9, Zenon DEF Load
  <2>2. x.dst \in Registers /\ x.src \in Registers
    BY <2>1, FetchedInstruction, Zenon
  <2>3. accessed' \in [start : Word, size : Nat]
    BY <1>8, <1>9, <2>1, <2>2, Zenon DEF Load
  <2>4. reg' \in [Registers -> Word]
    BY <1>9, <2>2, InterpAssumption, Zenon DEF Load, TypeOK
  <2>5. /\ shadow_registers' \subseteq Registers /\ stack_frames' = HeadFrames
        /\ pc' \in Nat /\ outcome' = "running"
        /\ UNCHANGED <<shadow_stack, stack_frame_index, calls>>
    BY <1>9, <2>1 DEF Load, Continues, TypeOK
  <2> QED
    BY <2>1, <2>3, <2>4, <2>5, Zenon DEF TypeOK, Validated
<1>10. ASSUME x.dst \in Registers, pc \in DOMAIN prog, x.op # "zero",
              Accessible(x, x.dst), MarkStored(x)
       PROVE  shadow_stack' \subseteq Word
  <2>1. x.sz \in Nat /\ x.off \in Int
    BY <1>10, FetchedInstruction, Zenon DEF Inst
  <2>2. set.stack \in Word /\ set.stack_len \in Word /\ set.stack + set.stack_len \in Word
    BY InterpAssumption, Zenon DEF TypeOK, Setting
  <2>3. reg[x.dst] + x.off \in Word
    BY <1>10, Zenon DEF Accessible, AddressOverflows
  <2>4. StackBytes(reg[x.dst] + x.off, x.sz) \subseteq Word
    BY <2>1, <2>2, <2>3, InterpAssumption DEF StackBytes, Word
  <2> QED
    BY <1>10, <2>4, Zenon DEF MarkStored, TypeOK
<1>11. CASE Store
  <2>1. Head({"st", "stx"})
    BY <1>4, <1>11, Zenon DEF Store
  <2>2. x.dst \in Registers
    BY <2>1, FetchedInstruction, Zenon
  <2>3. accessed' \in [start : Word, size : Nat] /\ shadow_stack' \subseteq Word
    BY <1>8, <1>10, <1>11, <2>1, <2>2, Zenon DEF Store
  <2>4. /\ shadow_registers' \subseteq Registers /\ stack_frames' = HeadFrames
        /\ pc' \in Nat /\ outcome' = "running"
        /\ UNCHANGED <<reg, stack_frame_index, calls>>
    BY <1>11, <2>1 DEF Store, Continues, TypeOK
  <2> QED
    BY <2>1, <2>3, <2>4, Zenon DEF TypeOK, Validated
<1>12. CASE Atomic
  <2>1. Head({"atomic"})
    BY <1>4, <1>12, Zenon DEF Atomic
  <2>2. x.dst \in Registers
    BY <2>1, FetchedInstruction, Zenon
  <2>3. accessed' \in [start : Word, size : Nat] /\ shadow_stack' \subseteq Word
    BY <1>8, <1>10, <1>12, <2>1, <2>2, Zenon DEF Atomic
  <2>4. reg' \in [Registers -> Word]
    BY <1>12, InterpAssumption, Zenon DEF Atomic, TypeOK
  <2>5. /\ shadow_registers' \subseteq Registers /\ stack_frames' = HeadFrames
        /\ pc' \in Nat /\ outcome' = "running"
        /\ UNCHANGED <<stack_frame_index, calls>>
    BY <1>12, <2>1 DEF Atomic, Continues, TypeOK
  <2> QED
    BY <2>1, <2>3, <2>4, <2>5, Zenon DEF TypeOK, Validated
<1>13. CASE Jump
  <2>1. Head(JumpOps)
    BY <1>4, <1>13, Zenon DEF Jump, JumpOps
  <2>2. pc' \in Nat /\ outcome' = "running" /\ UNCHANGED reg
    BY <1>13, <2>1, FetchedInstruction, ProgramCounters DEF Jump, Continues, TypeOK
  <2> QED
    BY <1>5, <1>13, <2>1, <2>2, Zenon DEF Jump, Plain, TypeOK, Validated
<1>14. CASE CallHelper
  <2>1. Head({"call"})
    BY <1>4, <1>14, Zenon DEF CallHelper
  <2>2. reg' \in [Registers -> Word] /\ outcome' \in {"returned", "running"}
    BY <1>14, InterpAssumption DEF CallHelper, TypeOK, Registers
  <2>3. pc' \in Nat
    BY <1>14 DEF CallHelper, TypeOK
  <2> QED
    BY <1>5, <1>14, <2>1, <2>2, <2>3, Zenon DEF CallHelper, Plain, TypeOK, Validated
<1>15. Kept \in [6 .. 10 -> Word]
  BY DEF Kept, TypeOK, Registers
<1>16. CASE CallLocal
  <2>1. Head({"call"})
    BY <1>4, <1>16, Zenon DEF CallLocal
  <2>2. stack_frame_index \in 0 .. MaxCallDepth - 1
    BY <1>16, InterpAssumption DEF CallLocal, TypeOK
  <2>3. HeadFrames[stack_frame_index].stack_usage \in Word
    BY <2>1, <2>2, Zenon DEF Frame
  <2>4. reg' \in [Registers -> Word]
    BY <1>16, <2>3, Wrapping, Zenon DEF CallLocal, TypeOK, Registers
  <2>5. [r \in Saved |-> reg[r]] \in [Saved -> Word]
    BY DEF TypeOK, Saved, Registers
  <2>6. stack_frames' \in [0 .. MaxCallDepth - 1 -> Frame]
    BY <1>16, <2>1, <2>2, <2>3, <2>5 DEF CallLocal, TypeOK, Frame
  <2>7. calls' \in [0 .. MaxCallDepth - 1 -> Activation]
    BY <1>15, <1>16, <2>2 DEF CallLocal, TypeOK, Activation
  <2>8. pc' \in Nat
    BY <1>16, <2>1, FetchedInstruction, ProgramCounters, Zenon DEF CallLocal
  <2>9. /\ shadow_registers' \subseteq Registers /\ stack_frame_index' \in 0 .. MaxCallDepth
        /\ outcome' = "running" /\ accessed' = NoAccess /\ UNCHANGED shadow_stack
    BY <1>16, <2>1, <2>2, InterpAssumption DEF CallLocal, Continues
  <2> QED
    BY <1>5, <2>1, <2>4, <2>6, <2>7, <2>8, <2>9, Zenon DEF TypeOK, Validated
<1>17. CASE ExitLocal
  <2>1. Head({"exit"})
    BY <1>4, <1>17, Zenon DEF ExitLocal
  <2> DEFINE frame == HeadFrames[stack_frame_index - 1]
  <2>2. stack_frame_index - 1 \in 0 .. MaxCallDepth - 1
    BY <1>17, InterpAssumption DEF ExitLocal, TypeOK
  <2>3. frame \in Frame
    BY <2>1, <2>2, Zenon
  <2>4. Add(reg[10], frame.stack_usage) \in Word
    BY <2>3, Wrapping DEF Frame, TypeOK, Registers
  <2>5. reg' \in [Registers -> Word]
    BY <1>17, <2>3, <2>4, Zenon DEF ExitLocal, TypeOK, Frame
  <2>6. /\ pc' \in Nat /\ stack_frame_index' \in 0 .. MaxCallDepth
        /\ shadow_registers' \subseteq Registers /\ stack_frames' = HeadFrames
        /\ outcome' = "running" /\ accessed' = NoAccess /\ UNCHANGED <<shadow_stack, calls>>
    BY <1>17, <2>1, <2>2, <2>3, InterpAssumption DEF ExitLocal, Continues, Frame
  <2> QED
    BY <1>5, <2>1, <2>5, <2>6, Zenon DEF TypeOK, Validated
<1>18. CASE ExitProgram
  <2>1. Head({"exit"})
    BY <1>4, <1>18, Zenon DEF ExitProgram
  <2> QED
    BY <1>5, <1>18, <2>1, Zenon DEF ExitProgram, Plain, TypeOK, Validated
<1> QED
  BY <1>1, <1>2, <1>3, <1>6, <1>7, <1>9, <1>11, <1>12, <1>13, <1>14, <1>16, <1>17, <1>18, Zenon
     DEF Next

\* The types of TypeOK hold throughout every run of the interpreter.
THEOREM TypeCorrect == Spec => []TypeOK
<1>1. Spec => [](TypeOK /\ Validated)
  BY InitTyped, StepTyped, PTL DEF Spec
<1> QED
  BY <1>1, PTL

-----------------------------------------------------------------------------
(* Local calls.                                                            *)

\* Nothing happens to the pending calls and the frame pointer.
SameFrames ==
    /\ stack_frame_index' = stack_frame_index /\ calls' = calls
    /\ reg'[10] = reg[10]
    /\ \A k \in 0 .. stack_frame_index - 1 : stack_frames'[k] = stack_frames[k]

\* What one turn of the loop does to the pending calls, when no atomic
\* operation fetches into R10: nothing, a call, or an exit.
LEMMA FrameStep ==
    ASSUME TypeOK, Validated, Next, ~FramePointerFetched(prog)
    PROVE  SameFrames \/ CallLocal \/ ExitLocal
<1> USE DEF SameFrames
<1> DEFINE x == prog[pc]
<1>1. ASSUME UNCHANGED locals PROVE SameFrames
  BY <1>1, Zenon DEF locals
<1>2. CASE \/ Enter \/ RunsOffTheEnd \/ LimitExceeded \/ ShadowRejects \/ UnknownOpcode
           \/ AccessRefused \/ DepthExceeded
  BY <1>1, <1>2, Zenon DEF Enter, RunsOffTheEnd, LimitExceeded, ShadowRejects, UnknownOpcode,
                    AccessRefused, DepthExceeded, Fails
<1>3. ASSUME pc \in DOMAIN prog
      PROVE  \A k \in 0 .. stack_frame_index - 1 : HeadFrames[k] = stack_frames[k]
  <2>1. \A k \in 0 .. stack_frame_index - 1 : k \in 0 .. MaxCallDepth - 1 /\ k # stack_frame_index
    BY InterpAssumption, SMTT(20) DEF TypeOK
  <2> QED
    BY <1>3, <2>1, HeadKeepsFrames, Zenon
<1>4. CASE Alu \/ Lddw \/ Load
  <2>1. pc \in DOMAIN prog /\ x.op \in AluOps \cup {"lddw", "ldx"}
    BY <1>4, Zenon DEF Alu, Lddw, Load, Executes, Inside
  <2>2. x.dst \in 0 .. 9
    BY <2>1, FetchedInstruction, Zenon DEF AluOps, ImmOps, RegOps
  <2>3. reg'[10] = reg[10]
    BY <1>4, <2>2 DEF Alu, Lddw, Load, TypeOK, Registers
  <2>4. stack_frame_index' = stack_frame_index /\ calls' = calls /\ stack_frames' = HeadFrames
    <3>1. CASE Alu
      BY <3>1, Zenon DEF Alu, Plain
    <3>2. CASE Lddw
      BY <3>2, Zenon DEF Lddw, Plain
    <3>3. CASE Load
      BY <3>3, Zenon DEF Load
    <3> QED
      BY <1>4, <3>1, <3>2, <3>3, Zenon
  <2> QED
    BY <1>3, <2>1, <2>3, <2>4, Zenon
<1>5. CASE Store \/ Jump \/ ExitProgram
  BY <1>3, <1>5, Zenon DEF Store, Jump, ExitProgram, Executes, Inside, Plain
<1>6. CASE Atomic
  <2>1. pc \in DOMAIN prog /\ x.op = "atomic"
    BY <1>6, Zenon DEF Atomic, Executes, Inside
  <2>2. 10 \notin FetchRegisters(x)
    BY <2>1, Zenon DEF FramePointerFetched
  <2>3. reg'[10] = reg[10]
    BY <1>6, <2>2 DEF Atomic, Registers
  <2> QED
    BY <1>3, <1>6, <2>1, <2>3, Zenon DEF Atomic
<1>7. CASE CallHelper
  <2>1. reg'[10] = reg[10]
    BY <1>7, SMTT(20) DEF CallHelper, TypeOK, Registers
  <2> QED
    BY <1>3, <1>7, <2>1, Zenon DEF CallHelper, Executes, Inside, Plain
<1> QED
  BY <1>2, <1>4, <1>5, <1>6, <1>7, Zenon DEF Next

\* No turn of the loop changes the program or the settings.
LEMMA ProgramFixed == Next => prog' = prog /\ set' = set
BY Zenon DEF Next, Enter, RunsOffTheEnd, LimitExceeded, ShadowRejects, UnknownOpcode, AccessRefused,
       DepthExceeded, Fails, Alu, Lddw, Load, Store, Atomic, Jump, CallHelper, CallLocal,
       ExitLocal, ExitProgram, Executes

\* What an exit from a local function does to the frames and the registers.
LEMMA ExitFacts ==
    ASSUME ExitLocal
    PROVE  /\ outcome = "running" /\ outcome' = "running" /\ pc \in DOMAIN prog
           /\ stack_frame_index > 0 /\ stack_frame_index' = stack_frame_index - 1
           /\ stack_frames' = HeadFrames /\ calls' = calls
           /\ pc' = HeadFrames[stack_frame_index - 1].return_address
           /\ \A r \in Saved : reg'[r] = HeadFrames[stack_frame_index - 1].saved_registers[r]
           /\ reg'[10] = Add(reg[10], HeadFrames[stack_frame_index - 1].stack_usage)
<1>1. /\ outcome = "running" /\ outcome' = "running" /\ pc \in DOMAIN prog
      /\ stack_frame_index > 0 /\ stack_frame_index' = stack_frame_index - 1
      /\ stack_frames' = HeadFrames /\ calls' = calls
      /\ pc' = HeadFrames[stack_frame_index - 1].return_address
  BY Zenon DEF ExitLocal, Executes, Inside, Continues
<1>2. reg' = [r \in Registers |->
                 IF r \in Saved THEN HeadFrames[stack_frame_index - 1].saved_registers[r]
                 ELSE IF r = 10 THEN Add(reg[10], HeadFrames[stack_frame_index - 1].stack_usage)
                 ELSE reg[r]]
  BY Zenon DEF ExitLocal
<1> QED
  BY <1>1, <1>2 DEF Saved, Registers

\* FramesRestorable is inductive on top of the types: a call pushes the
\* difference it makes to R10, an exit pops exactly that difference.
LEMMA FramesKept ==
    ASSUME TypeOK, Validated, FramesRestorable, prog' = prog, ~FramePointerFetched(prog),
           SameFrames \/ CallLocal \/ ExitLocal
    PROVE  FramesRestorable'
<1> SUFFICES ASSUME NEW k \in 0 .. stack_frame_index' - 1
             PROVE  /\ stack_frames'[k].return_address = calls'[k].at
                    /\ \A r \in Saved : stack_frames'[k].saved_registers[r] = calls'[k].kept[r]
                    /\ Add(FrameAbove(k)', stack_frames'[k].stack_usage) = calls'[k].kept[10]
  BY Zenon DEF FramesRestorable
<1> DEFINE Restorable(j) ==
             /\ stack_frames[j].return_address = calls[j].at
             /\ \A r \in Saved : stack_frames[j].saved_registers[r] = calls[j].kept[r]
             /\ Add(FrameAbove(j), stack_frames[j].stack_usage) = calls[j].kept[10]
<1>3. \A j \in 0 .. stack_frame_index - 1 : Restorable(j)
  BY Zenon DEF FramesRestorable
<1>4. stack_frame_index \in Nat /\ stack_frame_index <= MaxCallDepth /\ MaxCallDepth \in Nat
  BY InterpAssumption DEF TypeOK
<1>5. CASE SameFrames
  BY <1>3, <1>5 DEF FrameAbove, SameFrames
<1>6. CASE CallLocal
  <2>1. pc \in DOMAIN prog /\ stack_frame_index \in 0 .. MaxCallDepth - 1
    BY <1>4, <1>6 DEF CallLocal, Executes, Inside
  <2> DEFINE u == HeadFrames[stack_frame_index].stack_usage
  <2>2. u \in Word /\ reg[10] \in Word
    <3>1. HeadFrames[stack_frame_index] \in Frame
      BY <2>1, HeadKeepsFrames, Zenon
    <3>2. reg[10] \in Word
      BY DEF TypeOK, Registers
    <3> QED
      BY <3>1, <3>2, Zenon DEF Frame
  <2>3. /\ stack_frames'[stack_frame_index].return_address = pc + 1
        /\ stack_frames'[stack_frame_index].saved_registers = [r \in Saved |-> reg[r]]
        /\ stack_frames'[stack_frame_index].stack_usage = u
    BY <1>6, <2>1, HeadKeepsFrames, Zenon DEF CallLocal
  <2>4. calls'[stack_frame_index] = [at |-> pc + 1, kept |-> Kept]
    BY <1>6, <2>1, Zenon DEF CallLocal, TypeOK
  <2>5. /\ calls'[stack_frame_index].at = pc + 1 /\ calls'[stack_frame_index].kept = Kept
        /\ Kept[10] = reg[10]
    BY <2>4 DEF Kept
  <2>6. reg'[10] = Sub(reg[10], u)
    BY <1>6, SMTT(20) DEF CallLocal, TypeOK, Registers
  <2>7. CASE k = stack_frame_index
    <3>1. FrameAbove(k)' = Sub(reg[10], u)
      BY <1>6, <2>6, <2>7, Zenon DEF FrameAbove, CallLocal
    <3>2. Add(FrameAbove(k)', u) = reg[10]
      BY <2>2, <3>1, Wrapping, Zenon
    <3>3. stack_frames'[k].return_address = calls'[k].at
      BY <2>3, <2>7, <2>5, Zenon
    <3>4. \A r \in Saved : stack_frames'[k].saved_registers[r] = calls'[k].kept[r]
      BY <2>3, <2>7, <2>5 DEF Kept, Saved
    <3>5. calls'[k].kept[10] = reg[10] /\ stack_frames'[k].stack_usage = u
      BY <2>3, <2>7, <2>5, Zenon
    <3> QED
      BY <3>2, <3>3, <3>4, <3>5, Zenon
  <2>8. CASE k # stack_frame_index
    <3>1. k \in 0 .. stack_frame_index - 1 /\ k \in 0 .. MaxCallDepth - 1
      BY <1>4, <1>6, <2>8 DEF CallLocal
    <3>2. stack_frames'[k] = stack_frames[k] /\ calls'[k] = calls[k]
      BY <1>6, <2>1, <2>8, <3>1, HeadKeepsFrames, SMTT(20) DEF CallLocal, TypeOK
    <3>3. FrameAbove(k)' = calls'[k + 1].kept[10]
      BY <1>4, <1>6, <3>1 DEF FrameAbove, CallLocal
    <3>4. CASE k + 1 = stack_frame_index
      <4>1. FrameAbove(k) = reg[10]
        BY <3>4, Zenon DEF FrameAbove
      <4>2. calls'[k + 1].kept[10] = reg[10]
        BY <2>5, <3>4, Zenon
      <4>3. Restorable(k)
        BY <1>3, <3>1, Zenon
      <4> QED
        BY <3>2, <3>3, <4>1, <4>2, <4>3, Zenon
    <3>5. CASE k + 1 # stack_frame_index
      <4>1. calls'[k + 1] = calls[k + 1]
        BY <1>4, <1>6, <3>1, <3>5 DEF CallLocal, TypeOK
      <4> QED
        BY <1>3, <3>1, <3>2, <3>3, <3>5, <4>1 DEF FrameAbove
    <3> QED
      BY <3>4, <3>5, Zenon
  <2> QED
    BY <2>7, <2>8, Zenon
<1>7. CASE ExitLocal
  <2> DEFINE top == stack_frame_index - 1
  <2>1. /\ pc \in DOMAIN prog /\ stack_frame_index > 0 /\ stack_frame_index' = top
        /\ stack_frames' = HeadFrames /\ calls' = calls
        /\ reg'[10] = Add(reg[10], HeadFrames[top].stack_usage)
    BY <1>7, ExitFacts, Zenon
  <2>2. /\ top \in 0 .. MaxCallDepth - 1 /\ top # stack_frame_index /\ k \in 0 .. top - 1
        /\ top \in 0 .. stack_frame_index - 1 /\ k \in 0 .. stack_frame_index - 1
        /\ k \in 0 .. MaxCallDepth - 1 /\ k # stack_frame_index /\ k + 1 # stack_frame_index
    BY <1>4, <2>1
  <2>3. HeadFrames[top] = stack_frames[top] /\ HeadFrames[k] = stack_frames[k]
    BY <2>1, <2>2, HeadKeepsFrames, Zenon
  <2>4. FrameAbove(top) = reg[10]
    BY <1>4 DEF FrameAbove
  <2>5. reg'[10] = calls[top].kept[10]
    BY <1>3, <2>1, <2>2, <2>3, <2>4, Zenon
  <2>6. FrameAbove(k)' = FrameAbove(k)
    <3>1. CASE k + 1 = top
      BY <2>1, <2>2, <2>5, <3>1, Zenon DEF FrameAbove
    <3>2. CASE k + 1 # top
      BY <2>1, <2>2, <3>2, Zenon DEF FrameAbove
    <3> QED
      BY <3>1, <3>2, Zenon
  <2>7. Restorable(k)
    BY <1>3, <2>2, Zenon
  <2> QED
    BY <2>1, <2>3, <2>6, <2>7, Zenon
<1> QED
  BY <1>5, <1>6, <1>7, Zenon

\* So every turn of the loop keeps the pending calls restorable.
LEMMA FramesStep ==
    ASSUME TypeOK, Validated, FramesRestorable, [Next]_vars
    PROVE  FramesRestorable'
<1>1. CASE UNCHANGED vars
  BY <1>1, Zenon DEF vars, locals, FramesRestorable, FrameAbove
<1>2. CASE Next /\ FramePointerFetched(prog)
  BY <1>2, ProgramFixed, Zenon DEF FramesRestorable
<1>3. CASE Next /\ ~FramePointerFetched(prog)
  BY <1>3, ProgramFixed, FrameStep, FramesKept, Zenon
<1> QED
  BY <1>1, <1>2, <1>3, Zenon

\* Whatever a program does between a local call and its exit, and however the
\* stack usage of its functions is chosen, every pending call stays restorable.
THEOREM FramesAlwaysRestorable == Spec => []FramesRestorable
<1>1. Init => FramesRestorable
  BY DEF Init, FramesRestorable
<1>2. /\ TypeOK /\ Validated /\ FramesRestorable /\ [Next]_vars
      => TypeOK' /\ Validated' /\ FramesRestorable'
  BY StepTyped, FramesStep, Zenon
<1>3. Spec => [](TypeOK /\ Validated /\ FramesRestorable)
  BY <1>1, <1>2, InitTyped, PTL DEF Spec
<1> QED
  BY <1>3, PTL

\* An exit gives back what the matching call found: R6 - R10 and the next pc.
LEMMA ExitRestores ==
    ASSUME TypeOK, Validated, FramesRestorable, ~FramePointerFetched(prog), ExitLocal
    PROVE  pc' = calls[stack_frame_index - 1].at /\ Kept' = calls[stack_frame_index - 1].kept
<1> DEFINE top == stack_frame_index - 1
<1>1. /\ pc \in DOMAIN prog /\ top \in 0 .. MaxCallDepth - 1 /\ top # stack_frame_index
      /\ top \in 0 .. stack_frame_index - 1 /\ top + 1 = stack_frame_index
  <2>1. stack_frame_index \in 0 .. MaxCallDepth
    BY Zenon DEF TypeOK
  <2>2. pc \in DOMAIN prog /\ stack_frame_index > 0
    BY ExitFacts, Zenon
  <2>3. MaxCallDepth \in Nat
    BY InterpAssumption, Zenon
  <2> QED
    BY <2>1, <2>2, <2>3
<1>2. HeadFrames[top] = stack_frames[top]
  BY <1>1, HeadKeepsFrames, Zenon
<1>3. /\ stack_frames[top].return_address = calls[top].at
      /\ \A r \in Saved : stack_frames[top].saved_registers[r] = calls[top].kept[r]
      /\ Add(reg[10], stack_frames[top].stack_usage) = calls[top].kept[10]
  BY <1>1, Zenon DEF FramesRestorable, FrameAbove
<1>4. /\ \A r \in Saved : reg'[r] = calls[top].kept[r]
      /\ reg'[10] = calls[top].kept[10]
  BY <1>2, <1>3, ExitFacts
<1>5. calls[top].kept \in [6 .. 10 -> Word]
  BY <1>1, Zenon DEF TypeOK, Activation
<1>6. \A r \in 6 .. 10 : Kept'[r] = calls[top].kept[r]
  BY <1>4 DEF Kept, Saved
<1>7. Kept' = calls[top].kept
  BY <1>5, <1>6, Zenon DEF Kept
<1>8. pc' = HeadFrames[top].return_address
  BY ExitFacts, Zenon
<1> QED
  BY <1>2, <1>3, <1>7, <1>8, Zenon

\* R6 - R10 are words.
LEMMA KeptTyped == TypeOK => Kept \in [6 .. 10 -> Word]
BY DEF TypeOK, Kept, Registers

\* One turn of the loop is a step of CallStack, or changes nothing it sees.
LEMMA AbstractStep ==
    ASSUME TypeOK, Validated, TypeOK', FramesRestorable, ~FramePointerFetched(prog),
           [Next]_vars
    PROVE  [Abstract!Next]_(Abstract!vars)
<1> USE DEF Abstract!Kept
<1> DEFINE over == outcome \in {"returned", "failed"}
<1>1. CASE UNCHANGED vars
  BY <1>1, Zenon DEF vars, locals, Kept, Abstract!vars
<1>2. Kept \in [6 .. 10 -> Word] /\ Kept' \in [6 .. 10 -> Word] /\ pc \in Nat /\ pc' \in Nat
  <2>1. (TypeOK => Kept \in [6 .. 10 -> Word])'
    BY KeptTyped, PTL
  <2> QED
    BY <2>1, KeptTyped, Zenon DEF TypeOK
<1>3. Next => ~over
  BY Zenon DEF Next, Enter, RunsOffTheEnd, LimitExceeded, ShadowRejects, UnknownOpcode, AccessRefused,
         DepthExceeded, Alu, Lddw, Load, Store, Atomic, Jump, CallHelper, CallLocal,
         ExitLocal, ExitProgram, Executes, Inside
<1>4. CASE CallLocal
  <2>1. ~over /\ ~over' /\ stack_frame_index < MaxCallDepth
    BY <1>4, Zenon DEF CallLocal, Executes, Inside, Continues
  <2>2. \A r \in 6 .. 9 : Kept'[r] = Kept[r]
    <3>1. \E v : reg' = [reg EXCEPT ![10] = v]
      BY <1>4, Zenon DEF CallLocal
    <3>2. \A r \in 6 .. 9 : reg'[r] = reg[r]
      BY <3>1, SMTT(20) DEF TypeOK, Registers
    <3> QED
      BY <3>2 DEF Kept
  <2> QED
    BY <1>2, <1>4, <2>1, <2>2 DEF CallLocal, Abstract!Next, Abstract!Call
<1>5. CASE ExitLocal
  <2>1. /\ ~over /\ ~over' /\ stack_frame_index > 0
        /\ stack_frame_index' = stack_frame_index - 1 /\ calls' = calls
    BY <1>5, ExitFacts, Zenon
  <2>2. pc' = calls[stack_frame_index - 1].at /\ Kept' = calls[stack_frame_index - 1].kept
    BY <1>5, ExitRestores, Zenon
  <2> QED
    BY <2>1, <2>2 DEF Abstract!Next, Abstract!Return
<1>6. CASE Next /\ SameFrames
  <2>1. Kept'[10] = Kept[10]
    BY <1>6 DEF Kept, SameFrames
  <2>2. CASE ~over'
    <3>1. ~over
      BY <1>3, <1>6, Zenon
    <3>2. over' = over
      BY <2>2, <3>1, SMT
    <3>3. Abstract!Step
      BY <1>2, <1>6, <2>1, <3>1, <3>2, Zenon DEF Abstract!Step, SameFrames
    <3> QED
      BY <3>3, Zenon DEF Abstract!Next
  <2>3. CASE over'
    <3>1. ASSUME \/ Enter \/ RunsOffTheEnd \/ LimitExceeded \/ ShadowRejects \/ UnknownOpcode
                 \/ AccessRefused \/ DepthExceeded \/ ExitProgram
          PROVE  Kept' = Kept
      <4>1. reg' = reg
        BY <3>1, Zenon DEF Enter, RunsOffTheEnd, LimitExceeded, ShadowRejects, UnknownOpcode,
                    AccessRefused, DepthExceeded, Fails, locals, ExitProgram
      <4> QED
        BY <4>1, Zenon DEF Kept
    <3>2. ASSUME CallHelper PROVE Kept' = Kept
      <4>1. \E v : reg' = [reg EXCEPT ![0] = v]
        BY <3>2, Zenon DEF CallHelper
      <4>2. \A r \in 6 .. 10 : reg'[r] = reg[r]
        BY <4>1, SMTT(20) DEF TypeOK, Registers
      <4> QED
        BY <4>2, Zenon DEF Kept
    <3>3. ~(Alu \/ Lddw \/ Load \/ Store \/ Atomic \/ Jump \/ CallLocal \/ ExitLocal)
      BY <2>3, Zenon DEF Alu, Lddw, Load, Store, Atomic, Jump, CallLocal, ExitLocal, Continues
    <3>4. Kept' = Kept
      BY <1>6, <3>1, <3>2, <3>3, Zenon DEF Next
    <3> QED
      BY <1>2, <1>6, <2>3, <3>4, Zenon DEF Abstract!Next, Abstract!Stop, SameFrames
  <2> QED
    BY <2>2, <2>3, Zenon
<1> QED
  BY <1>1, <1>4, <1>5, <1>6, FrameStep, Zenon

\* The interpreter implements CallStack, for every program in which no atomic
\* operation fetches into R10.
THEOREM CallsImplementCallStack ==
    Spec /\ []~FramePointerFetched(prog) => CallsAreRestored
<1>1. Init => Abstract!Init
  <2> SUFFICES ASSUME Init PROVE Abstract!Init
    BY Zenon
  <2>1. TypeOK
    BY InitTyped, Zenon
  <2>2. Kept \in [6 .. 10 -> Word] /\ calls \in [0 .. MaxCallDepth - 1 -> Activation]
    BY <2>1, KeptTyped, Zenon DEF TypeOK
  <2> QED
    BY <2>2 DEF Init, Abstract!Init, Abstract!Kept, Abstract!Activation, Activation
<1>2. /\ TypeOK /\ Validated /\ TypeOK' /\ FramesRestorable /\ ~FramePointerFetched(prog)
      /\ [Next]_vars
      => [Abstract!Next]_(Abstract!vars)
  BY AbstractStep, Zenon
<1>3. Spec => [](TypeOK /\ Validated)
  BY InitTyped, StepTyped, PTL DEF Spec
<1> QED
  BY <1>1, <1>2, <1>3, FramesAlwaysRestorable, PTL DEF Spec, CallsAreRestored, Abstract!Spec

-----------------------------------------------------------------------------
(* The instruction limit.                                                  *)

\* What is left and what was executed add up to the limit as an int, and the
\* count stops before it becomes negative.
LimitCounts ==
    set.limit # 0 =>
        /\ executed + instruction_limit = ToInt(set.limit)
        /\ executed > 0 => instruction_limit >= 0

\* Every turn of the loop keeps the count.
LEMMA LimitStep ==
    ASSUME TypeOK, LimitCounts, [Next]_vars PROVE LimitCounts'
<1>1. \/ UNCHANGED <<set, instruction_limit, executed>>
      \/ /\ set' = set /\ ~LimitReached
         /\ instruction_limit' = instruction_limit - 1 /\ executed' = executed + 1
  BY Zenon DEF Next, vars, locals, Enter, RunsOffTheEnd, LimitExceeded, ShadowRejects, UnknownOpcode,
         AccessRefused, DepthExceeded, Fails, Alu, Lddw, Load, Store, Atomic, Jump, CallHelper,
         CallLocal, ExitLocal, ExitProgram, Executes
<1>2. instruction_limit \in Int /\ executed \in Nat
  BY Zenon DEF TypeOK
<1>3. CASE UNCHANGED <<set, instruction_limit, executed>>
  BY <1>3, Zenon DEF LimitCounts
<1>4. CASE /\ set' = set /\ ~LimitReached
           /\ instruction_limit' = instruction_limit - 1 /\ executed' = executed + 1
  BY <1>2, <1>4 DEF LimitCounts, LimitReached
<1> QED
  BY <1>1, <1>3, <1>4, Zenon

\* So what is left of the limit and what was executed always add up.
LEMMA LimitAlwaysCounts == Spec => []LimitCounts
<1>1. Init => LimitCounts
  <2> SUFFICES ASSUME Init PROVE LimitCounts
    OBVIOUS
  <2>1. set.limit \in Int
    BY InterpAssumption DEF Init, Setting
  <2> QED
    BY <2>1, InterpAssumption DEF Init, LimitCounts, ToInt
<1>2. TypeOK /\ LimitCounts /\ [Next]_vars => LimitCounts'
  BY LimitStep, Zenon
<1> QED
  BY <1>1, <1>2, TypeCorrect, PTL DEF Spec

\* No run executes more instructions than the limit, whatever the limit is:
\* the conversion to int can only make it smaller.
THEOREM LimitAlwaysHonoured == Spec => []LimitHonoured
<1>1. TypeOK /\ LimitCounts => LimitHonoured
  <2> SUFFICES ASSUME TypeOK, LimitCounts, set.limit # 0 PROVE executed <= set.limit
    BY Zenon DEF LimitHonoured
  <2>1. set.limit \in 0 .. IntRange - 1
    BY InterpAssumption, Zenon DEF TypeOK, Setting
  <2>2. ToInt(set.limit) <= set.limit
    BY <2>1, InterpAssumption DEF ToInt
  <2>3. executed \in Nat /\ instruction_limit \in Int /\ ToInt(set.limit) \in Int
    BY <2>1, InterpAssumption DEF TypeOK, ToInt
  <2> QED
    BY <2>1, <2>2, <2>3, InterpAssumption DEF LimitCounts
<1> QED
  BY <1>1, LimitAlwaysCounts, TypeCorrect, PTL

\* A run that is stopped by the limit has executed exactly as many instructions,
\* when the limit fits the int the interpreter counts it down in.
THEOREM LimitAlwaysExact ==
    ASSUME \A s \in Settings : 2 * s.limit < IntRange
    PROVE  Spec => LimitExact
<1>1. TypeOK /\ LimitCounts /\ [Next]_vars => [LimitExceeded => executed = set.limit]_vars
  <2> SUFFICES ASSUME TypeOK, LimitCounts, LimitExceeded PROVE executed = set.limit
    BY Zenon
  <2>1. set \in Settings /\ set.limit \in Nat
    BY InterpAssumption DEF TypeOK, Setting
  <2>2. ToInt(set.limit) = set.limit
    BY <2>1, Zenon DEF ToInt
  <2>3. set.limit # 0 /\ instruction_limit <= 0
    BY Zenon DEF LimitExceeded, LimitReached
  <2>4. executed + instruction_limit = set.limit /\ (executed > 0 => instruction_limit >= 0)
    BY <2>2, <2>3, Zenon DEF LimitCounts
  <2>5. executed \in Nat /\ instruction_limit \in Int
    BY Zenon DEF TypeOK
  <2> QED
    BY <2>1, <2>3, <2>4, <2>5
<1> QED
  BY <1>1, LimitAlwaysCounts, TypeCorrect, PTL DEF Spec, LimitExact

-----------------------------------------------------------------------------
(* Memory.                                                                 *)

\* A turn of the loop either makes no access or one that was allowed.
LEMMA AccessStep ==
    ASSUME TypeOK, Validated, Next
    PROVE  \/ accessed' \in {accessed, NoAccess}
           \/ \E base \in Registers :
                 /\ prog[pc] \in Inst
                 /\ Accessible(prog[pc], base) /\ Accesses(prog[pc], base)
<1>1. CASE \/ Enter \/ RunsOffTheEnd \/ LimitExceeded \/ ShadowRejects \/ UnknownOpcode
           \/ AccessRefused \/ DepthExceeded
  BY <1>1, Zenon DEF Enter, RunsOffTheEnd, LimitExceeded, ShadowRejects, UnknownOpcode, AccessRefused,
              DepthExceeded, Fails, locals
<1>2. CASE Alu \/ Lddw \/ Jump \/ CallHelper \/ CallLocal \/ ExitLocal \/ ExitProgram
  <2>1. CASE Alu \/ Lddw
    BY <2>1, Zenon DEF Alu, Lddw, Plain
  <2>2. CASE Jump \/ CallHelper
    BY <2>2, Zenon DEF Jump, CallHelper, Plain
  <2>3. CASE CallLocal \/ ExitLocal
    BY <2>3, Zenon DEF CallLocal, ExitLocal
  <2>4. CASE ExitProgram
    BY <2>4, Zenon DEF ExitProgram, Plain
  <2> QED
    BY <1>2, <2>1, <2>2, <2>3, <2>4, Zenon
<1>3. CASE Load
  <2>1. prog[pc] \in Inst /\ prog[pc].src \in Registers
    BY <1>3, FetchedInstruction, Zenon DEF Load, Executes, Inside
  <2> QED
    BY <1>3, <2>1, Zenon DEF Load
<1>4. CASE Store \/ Atomic
  <2>1. prog[pc] \in Inst /\ prog[pc].dst \in Registers
    BY <1>4, FetchedInstruction, Zenon DEF Store, Atomic, Executes, Inside
  <2> QED
    BY <1>4, <2>1, Zenon DEF Store, Atomic
<1> QED
  BY <1>1, <1>2, <1>3, <1>4, Zenon DEF Next

\* An access bounds_check allows touches only bytes it may touch.
LEMMA AllowedIsConfined ==
    ASSUME TypeOK, NEW base \in Registers, NEW x \in Inst, Accessible(x, base), set.bounds
    PROVE  LET a == reg[base] + x.off
               bytes == a .. a + x.sz - 1
               Region(start, len) == {b \in Word : start <= b /\ b < start + len}
           IN \/ bytes \subseteq Region(set.mem, set.mem_len)
              \/ bytes \subseteq Region(set.stack, set.stack_len)
              \/ bytes \subseteq Word /\ UserBounds(a, x.sz)
<1> DEFINE a == reg[base] + x.off
           bytes == a .. a + x.sz - 1
           Region(start, len) == {b \in Word : start <= b /\ b < start + len}
<1>1. a \in Word /\ bounds_check(a, x.sz)
  BY Zenon DEF Accessible, AddressOverflows
<1>2. x.sz \in Nat /\ a \in Int /\ 0 <= a /\ AddressSpace \in Nat
  BY <1>1, InterpAssumption DEF Inst, Word
<1>3. a + x.sz <= AddressSpace - 1
  BY <1>1, Zenon DEF bounds_check
<1>4. bytes \subseteq Word
  BY <1>2, <1>3 DEF Word
<1>5. ASSUME NEW start \in Word, NEW len \in Word, RegionContains(start, len, a, x.sz)
      PROVE  bytes \subseteq Region(start, len)
  BY <1>2, <1>4, <1>5 DEF RegionContains, Word
<1>6. set.mem \in Word /\ set.mem_len \in Word /\ set.stack \in Word /\ set.stack_len \in Word
  BY InterpAssumption, Zenon DEF TypeOK, Setting
<1>7. \/ RegionContains(set.mem, set.mem_len, a, x.sz)
      \/ RegionContains(set.stack, set.stack_len, a, x.sz)
      \/ UserBounds(a, x.sz)
  BY <1>1, Zenon DEF bounds_check
<1> QED
  BY <1>4, <1>5, <1>6, <1>7, Zenon

\* With bounds checks on, no program reads or writes outside the two regions of
\* the call and what the callback accepts.
THEOREM MemoryAlwaysConfined == Spec => []MemoryConfined
<1>1. Init => MemoryConfined
  BY Zenon DEF Init, MemoryConfined
<1>2. ASSUME TypeOK, Validated, MemoryConfined, [Next]_vars PROVE MemoryConfined'
  <2>1. CASE UNCHANGED vars
    BY <1>2, <2>1, Zenon DEF vars, locals, MemoryConfined
  <2>2. CASE Next /\ accessed' \in {accessed, NoAccess}
    BY <1>2, <2>2, ProgramFixed, SMTT(20) DEF MemoryConfined
  <2>3. ASSUME Next, NEW base \in Registers, prog[pc] \in Inst,
               Accessible(prog[pc], base), Accesses(prog[pc], base)
        PROVE  MemoryConfined'
    <3>1. set' = set
      BY <2>3, ProgramFixed, Zenon
    <3>2. /\ accessed'.start = reg[base] + prog[pc].off
          /\ accessed'.size = prog[pc].sz
      BY <2>3, Zenon DEF Accesses
    <3> QED
      BY <1>2, <2>3, <3>1, <3>2, AllowedIsConfined DEF MemoryConfined
  <2> QED
    BY <1>2, <2>1, <2>2, <2>3, AccessStep, Zenon
<1>3. Spec => [](TypeOK /\ Validated)
  BY InitTyped, StepTyped, PTL DEF Spec
<1> QED
  BY <1>1, <1>2, <1>3, PTL DEF Spec

=============================================================================
