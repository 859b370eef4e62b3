--------------------------- MODULE UbpfFlowProofs ---------------------------
(***************************************************************************)
(* Where control goes: which instructions a validated program can reach,   *)
(* that its sub-programs are left and entered by calls and exits only, and *)
(* that the frame of a function carries the stack usage of that function.  *)
(***************************************************************************)
EXTENDS UbpfInterpProofs, NaturalOrder

-----------------------------------------------------------------------------
(* The shape of a program.                                                 *)

\* A program that is not empty occupies the positions 0 .. Size(prog) - 1.
LEMMA ProgramExtent ==
    ASSUME Validated, DOMAIN prog # {}
    PROVE  Size(prog) \in Nat \ {0} /\ DOMAIN prog = 0 .. Size(prog) - 1
<1> DEFINE D == DOMAIN prog
           last == CHOOSE n \in D : n + 1 \notin D
<1>1. /\ D \subseteq Nat /\ \E i \in D : i + 1 \notin D
      /\ \A i \in D : i > 0 => i - 1 \in D
  BY InterpAssumption, Zenon DEF Validated
<1>2. last \in D /\ last + 1 \notin D
  BY <1>1, Zenon
<1>3. Size(prog) = last + 1
  BY Zenon DEF Size
<1>4. D = 0 .. last
  BY <1>1, <1>2, InitialSegment, Zenon
<1>5. last \in Nat
  BY <1>1, <1>2, Zenon
<1> HIDE DEF last
<1> QED
  BY <1>3, <1>4, <1>5

\* Sub-programs start inside the program.
LEMMA StartsInside ==
    ASSUME Validated
    PROVE  Starts(prog) \subseteq DOMAIN prog \cup {0} /\ Starts(prog) \subseteq Nat
<1>1. ASSUME NEW i \in DOMAIN prog, IsLocalCall(prog, i)
      PROVE  CallTarget(prog, i) \in DOMAIN prog
  <2>1. InstructionAllowed(prog, i)
    BY <1>1, Zenon DEF Validated, validate, IsLocalCall
  <2> QED
    BY <1>1, <2>1 DEF InstructionAllowed, IsLocalCall, CallAllowed
<1>2. Starts(prog) \subseteq DOMAIN prog \cup {0}
  BY <1>1, Zenon DEF Starts
<1> QED
  BY <1>2, ProgramCounters

\* The sub-program of an instruction is the last one that starts at or before it.
LEMMA SubprogramFacts ==
    ASSUME Validated, NEW i \in Nat
    PROVE  /\ SubprogramOf(i) \in Starts(prog) /\ SubprogramOf(i) <= i
           /\ \A t \in Starts(prog) : t <= i => t <= SubprogramOf(i)
<1> DEFINE Before == {t \in Starts(prog) : t <= i}
<1>1. Before \in SUBSET (0 .. i) /\ 0 \in Before
  BY StartsInside DEF Starts
<1>2. \E s \in Before : \A t \in Before : t <= s
  BY <1>1, GreatestElement, Zenon
<1> QED
  BY <1>2, Zenon DEF SubprogramOf

\* That description identifies it.
LEMMA SubprogramUnique ==
    ASSUME Validated, NEW i \in Nat, NEW s \in Starts(prog), s <= i,
           \A t \in Starts(prog) : t <= i => t <= s
    PROVE  SubprogramOf(i) = s
<1>1. SubprogramOf(i) <= s /\ s <= SubprogramOf(i)
  BY SubprogramFacts, Zenon
<1>2. s \in Nat /\ SubprogramOf(i) \in Nat
  BY StartsInside, SubprogramFacts, Zenon
<1> QED
  BY <1>1, <1>2

\* A sub-program ends after its start, inside the program, and no other one
\* starts in between.
LEMMA EndFacts ==
    ASSUME Validated, DOMAIN prog # {}, NEW s \in Starts(prog)
    PROVE  /\ EndOf(prog, s) \in Nat /\ s < EndOf(prog, s) /\ EndOf(prog, s) <= Size(prog)
           /\ EndOf(prog, s) \in Starts(prog) \/ EndOf(prog, s) = Size(prog)
           /\ \A t \in Starts(prog) : t > s => EndOf(prog, s) <= t
<1> DEFINE Later == {t \in Starts(prog) : t > s}
<1>1. Later \in SUBSET Nat /\ s \in Nat
  BY StartsInside, Zenon
<1>2. \A t \in Starts(prog) : t < Size(prog)
  BY ProgramExtent, StartsInside
<1>3. Size(prog) \in Nat
  BY ProgramExtent, Zenon
<1>4. CASE Later = {}
  <2>1. EndOf(prog, s) = Size(prog)
    BY <1>4, Zenon DEF EndOf
  <2> QED
    BY <1>2, <1>3, <1>4, <2>1
<1>5. CASE Later # {}
  <2>1. \E t \in Later : \A u \in Later : t <= u
    BY <1>1, <1>5, LeastElement, Zenon
  <2>2. \E t \in Starts(prog) : t > s
    BY <1>5, Zenon
  <2>3. EndOf(prog, s) =
          CHOOSE t \in Starts(prog) : t > s /\ \A u \in Starts(prog) : u > s => t <= u
    BY <2>2, Zenon DEF EndOf
  <2>4. /\ EndOf(prog, s) \in Starts(prog) /\ EndOf(prog, s) > s
        /\ \A u \in Starts(prog) : u > s => EndOf(prog, s) <= u
    BY <2>1, <2>3, Zenon
  <2> QED
    BY <1>1, <1>2, <1>3, <2>4, StartsInside
<1> QED
  BY <1>4, <1>5, Zenon

\* The instructions of a sub-program are those from its start to its end.
LEMMA SubprogramExtent ==
    ASSUME Validated, NEW i \in DOMAIN prog
    PROVE  LET s == SubprogramOf(i) IN
           /\ s \in Starts(prog) /\ i \in s .. EndOf(prog, s) - 1
           /\ \A j \in s .. EndOf(prog, s) - 1 : j \in DOMAIN prog /\ SubprogramOf(j) = s
<1> DEFINE s == SubprogramOf(i)
           e == EndOf(prog, s)
<1>1. i \in Nat /\ DOMAIN prog # {}
  BY ProgramCounters, Zenon
<1>2. s \in Starts(prog) /\ s <= i /\ s \in Nat /\ \A t \in Starts(prog) : t <= i => t <= s
  BY <1>1, SubprogramFacts, StartsInside, Zenon
<1> HIDE DEF s
<1>3. /\ e \in Nat /\ s < e /\ e <= Size(prog) /\ (e \in Starts(prog) \/ e = Size(prog))
      /\ \A t \in Starts(prog) : t > s => e <= t
  BY <1>1, <1>2, EndFacts, Zenon
<1> HIDE DEF e
<1>4. Size(prog) \in Nat /\ DOMAIN prog = 0 .. Size(prog) - 1
  BY <1>1, ProgramExtent, Zenon
<1>5. i < e
  BY <1>1, <1>2, <1>3, <1>4
<1>6. ASSUME NEW j \in s .. e - 1 PROVE j \in DOMAIN prog /\ SubprogramOf(j) = s
  <2>1. j \in Nat /\ s <= j /\ j < e /\ j \in DOMAIN prog
    BY <1>2, <1>3, <1>4, <1>6
  <2>2. \A t \in Starts(prog) : t <= j => t <= s
    BY <1>2, <1>3, <2>1, StartsInside
  <2> QED
    BY <1>2, <2>1, <2>2, SubprogramUnique, Zenon
<1> QED
  BY <1>1, <1>2, <1>3, <1>5, <1>6 DEF s, e

\* An instruction that starts no sub-program belongs to that of the one before it.
LEMMA SubprogramContinues ==
    ASSUME Validated, NEW i \in Nat, i + 1 \notin Starts(prog)
    PROVE  SubprogramOf(i + 1) = SubprogramOf(i)
<1>1. /\ SubprogramOf(i) \in Starts(prog) /\ SubprogramOf(i) <= i
      /\ \A t \in Starts(prog) : t <= i => t <= SubprogramOf(i)
  BY SubprogramFacts, Zenon
<1>2. \A t \in Starts(prog) : t <= i + 1 => t <= i
  BY StartsInside
<1>3. SubprogramOf(i) <= i + 1
  BY <1>1, StartsInside
<1> QED
  BY <1>1, <1>2, <1>3, SubprogramUnique

-----------------------------------------------------------------------------
(* What a turn of the loop does to control.                                *)

\* The position holds no opcode 0.
Decodable(i) == i \in DOMAIN prog => prog[i].op # "zero"

\* No local call of the program goes to the second half of an LDDW.
NoStartInside == \A s \in Starts(prog) : ~SecondHalf(prog, s)

\* Opcode 0 is in a program only as the second half of an LDDW, so execution
\* meets it neither by falling through, nor by jumping, nor at a start.
LEMMA SuccessorsDecodable ==
    ASSUME Validated, NEW i \in DOMAIN prog, prog[i].op # "zero"
    PROVE  /\ prog[i].op # "lddw" => Decodable(i + 1)
           /\ prog[i].op = "lddw" => i + 1 \in DOMAIN prog /\ Decodable(i + 2)
           /\ prog[i].op \in JumpOps => Decodable(JumpTarget(prog, i))
<1>1. \A j \in DOMAIN prog : prog[j].op = "zero" => SecondHalf(prog, j)
  BY Zenon DEF Validated, validate, InstructionAllowed
<1>2. i \in Nat
  BY ProgramCounters, Zenon
<1>3. InstructionAllowed(prog, i)
  BY Zenon DEF Validated, validate
<1>4. prog[i].op # "lddw" => Decodable(i + 1)
  BY <1>1, <1>2 DEF Decodable, SecondHalf
<1>5. prog[i].op = "lddw" => i + 1 \in DOMAIN prog /\ prog[i + 1].op = "zero"
  BY <1>3, Zenon DEF InstructionAllowed, LddwPaired
<1>6. prog[i].op = "lddw" => Decodable(i + 2)
  <2> SUFFICES ASSUME prog[i].op = "lddw", i + 2 \in DOMAIN prog, prog[i + 2].op = "zero"
               PROVE  FALSE
    BY Zenon DEF Decodable
  <2>1. prog[(i + 2) - 1].op = "lddw"
    BY <1>1, Zenon DEF SecondHalf
  <2>2. (i + 2) - 1 = i + 1
    BY <1>2
  <2> QED
    BY <1>5, <2>1, <2>2, Zenon
<1>7. prog[i].op \in JumpOps => Decodable(JumpTarget(prog, i))
  BY <1>3, Zenon DEF InstructionAllowed, JumpAllowed, Decodable
<1> QED
  BY <1>4, <1>5, <1>6, <1>7, Zenon

\* The same for the start of a sub-program.
LEMMA StartsDecodable ==
    ASSUME Validated, NEW s \in Starts(prog), ~SecondHalf(prog, s)
    PROVE  Decodable(s)
BY Zenon DEF Validated, validate, InstructionAllowed, Decodable

\* The instruction at pc was executed and is not a local call or an exit.
Moves ==
    LET x == prog[pc] IN
    /\ pc \in DOMAIN prog /\ x.op # "zero"
    /\ stack_frame_index' = stack_frame_index /\ stack_frames' = HeadFrames
    /\ \/ x.op \notin {"lddw", "ja", "ja32", "exit"} /\ pc' = pc + 1
       \/ x.op = "lddw" /\ pc' = pc + 2
       \/ x.op \in JumpOps /\ pc' = JumpTarget(prog, pc)

\* Control stays where it is: the call of ubpf_exec_ex begins or ends.
Stays ==
    /\ pc' = pc /\ stack_frame_index' = stack_frame_index
    /\ stack_frames' = stack_frames \/ (pc \in DOMAIN prog /\ stack_frames' = HeadFrames)

\* Every turn of the loop is one of these, a local call or a local exit.
LEMMA ControlSteps == Next => Stays \/ Moves \/ CallLocal \/ ExitLocal
<1>1. ASSUME \/ Enter \/ RunsOffTheEnd \/ LimitExceeded \/ ShadowRejects \/ UnknownOpcode
             \/ AccessRefused \/ DepthExceeded
      PROVE  Stays
  BY <1>1, Zenon DEF Enter, RunsOffTheEnd, LimitExceeded, ShadowRejects, UnknownOpcode, AccessRefused,
              DepthExceeded, Fails, locals, Stays
<1>2. ASSUME ExitProgram PROVE Stays
  BY <1>2, Zenon DEF ExitProgram, Executes, Inside, Plain, Stays
<1>3. ASSUME Alu PROVE Moves
  BY <1>3, Zenon DEF Alu, Executes, Inside, Plain, Moves, AluOps, ImmOps, RegOps
<1>4. ASSUME Lddw PROVE Moves
  BY <1>4, Zenon DEF Lddw, Executes, Inside, Plain, Moves
<1>5. ASSUME Load PROVE Moves
  BY <1>5, Zenon DEF Load, Executes, Inside, Moves
<1>6. ASSUME Store PROVE Moves
  BY <1>6, Zenon DEF Store, Executes, Inside, Moves
<1>7. ASSUME Atomic PROVE Moves
  BY <1>7, Zenon DEF Atomic, Executes, Inside, Moves
<1>8. ASSUME Jump PROVE Moves
  BY <1>8, Zenon DEF Jump, Executes, Inside, Plain, Moves, JumpOps
<1>9. ASSUME CallHelper PROVE Moves
  BY <1>9, Zenon DEF CallHelper, Executes, Inside, Plain, Moves
<1> QED
  BY <1>1, <1>2, <1>3, <1>4, <1>5, <1>6, <1>7, <1>8, <1>9, Zenon DEF Next

\* The head of the loop leaves the frames of pending calls alone.
LEMMA PendingKept ==
    ASSUME TypeOK, Validated, pc \in DOMAIN prog, NEW k \in 0 .. stack_frame_index - 1
    PROVE  HeadFrames[k] = stack_frames[k]
<1>1. k \in 0 .. MaxCallDepth - 1 /\ k # stack_frame_index
  BY InterpAssumption DEF TypeOK
<1> QED
  BY <1>1, HeadKeepsFrames, Zenon

\* What a local call does to control and to the frames.
LEMMA CallFacts ==
    ASSUME TypeOK, Validated, CallLocal
    PROVE  /\ pc \in DOMAIN prog /\ prog[pc].op = "call"
           /\ stack_frame_index \in 0 .. MaxCallDepth - 1
           /\ stack_frame_index' = stack_frame_index + 1
           /\ pc' \in Starts(prog)
           /\ stack_frames'[stack_frame_index].return_address = pc + 1
           /\ stack_frames'[stack_frame_index].stack_usage
                 = HeadFrames[stack_frame_index].stack_usage
           /\ \A k \in 0 .. stack_frame_index - 1 : stack_frames'[k] = stack_frames[k]
<1>1. /\ pc \in DOMAIN prog /\ prog[pc].op = "call" /\ IsLocalCall(prog, pc)
      /\ stack_frame_index < MaxCallDepth /\ stack_frame_index' = stack_frame_index + 1
      /\ pc' = CallTarget(prog, pc)
  BY Zenon DEF CallLocal, Executes, Inside
<1>2. stack_frame_index \in 0 .. MaxCallDepth - 1
  BY <1>1, InterpAssumption DEF TypeOK
<1>3. pc' \in Starts(prog)
  BY <1>1, Zenon DEF Starts
<1>4. HeadFrames \in [0 .. MaxCallDepth - 1 -> Frame]
  BY <1>1, HeadKeepsFrames, Zenon
<1>5. stack_frames' = [HeadFrames EXCEPT ![stack_frame_index] =
                          [return_address |-> pc + 1, saved_registers |-> [r \in Saved |-> reg[r]],
                           stack_usage |-> HeadFrames[stack_frame_index].stack_usage]]
  BY Zenon DEF CallLocal
<1>6. /\ stack_frames'[stack_frame_index].return_address = pc + 1
      /\ stack_frames'[stack_frame_index].stack_usage = HeadFrames[stack_frame_index].stack_usage
  BY <1>2, <1>4, <1>5, Zenon
<1>7. ASSUME NEW k \in 0 .. stack_frame_index - 1 PROVE stack_frames'[k] = stack_frames[k]
  <2>1. k \in 0 .. MaxCallDepth - 1 /\ k # stack_frame_index
    BY <1>2, InterpAssumption
  <2>2. stack_frames'[k] = HeadFrames[k]
    BY <1>4, <1>5, <2>1, Zenon
  <2> QED
    BY <1>1, <2>2, PendingKept, Zenon
<1> QED
  BY <1>1, <1>2, <1>3, <1>6, <1>7, Zenon

\* What a local exit does to control and to the frames.
LEMMA ReturnFacts ==
    ASSUME TypeOK, Validated, ExitLocal
    PROVE  /\ pc \in DOMAIN prog /\ stack_frame_index \in 1 .. MaxCallDepth
           /\ stack_frame_index' = stack_frame_index - 1
           /\ pc' = stack_frames[stack_frame_index - 1].return_address
           /\ \A k \in 0 .. stack_frame_index - 1 : stack_frames'[k] = stack_frames[k]
<1>1. /\ pc \in DOMAIN prog /\ stack_frame_index > 0
      /\ stack_frame_index' = stack_frame_index - 1 /\ stack_frames' = HeadFrames
      /\ pc' = HeadFrames[stack_frame_index - 1].return_address
  BY ExitFacts, Zenon
<1>2. stack_frame_index \in 1 .. MaxCallDepth /\ stack_frame_index - 1 \in 0 .. stack_frame_index - 1
  BY <1>1, InterpAssumption DEF TypeOK
<1> QED
  BY <1>1, <1>2, PendingKept, Zenon

-----------------------------------------------------------------------------
(* No unknown opcode.                                                      *)

\* Neither pc nor a return address is at an opcode 0.
ReturnsDecodable ==
    NoStartInside =>
        /\ Decodable(pc)
        /\ \A k \in 0 .. stack_frame_index - 1 : Decodable(stack_frames[k].return_address)

\* Every turn of the loop goes on to an instruction that can be decoded.
LEMMA DecodableStep == TypeOK /\ Validated /\ ReturnsDecodable /\ [Next]_vars => ReturnsDecodable'
<1> SUFFICES ASSUME TypeOK, Validated, ReturnsDecodable, [Next]_vars PROVE ReturnsDecodable'
  BY Zenon
<1>0. prog' = prog
  BY ProgramFixed, Zenon DEF vars
<1> SUFFICES ASSUME NoStartInside
             PROVE  /\ Decodable(pc')
                    /\ \A k \in 0 .. stack_frame_index' - 1 : Decodable(stack_frames'[k].return_address)
  BY <1>0, Zenon DEF ReturnsDecodable, NoStartInside, Decodable
<1>1. /\ Decodable(pc)
      /\ \A k \in 0 .. stack_frame_index - 1 : Decodable(stack_frames[k].return_address)
  BY Zenon DEF ReturnsDecodable
<1>2. CASE UNCHANGED vars
  BY <1>1, <1>2, Zenon DEF vars, locals
<1>3. ASSUME pc \in DOMAIN prog, NEW k \in 0 .. stack_frame_index - 1
      PROVE  Decodable(HeadFrames[k].return_address)
  BY <1>1, <1>3, PendingKept, Zenon
<1>4. CASE Stays
  BY <1>1, <1>3, <1>4, Zenon DEF Stays
<1>5. CASE Moves
  <2>1. /\ pc \in DOMAIN prog /\ prog[pc].op # "zero"
        /\ stack_frame_index' = stack_frame_index /\ stack_frames' = HeadFrames
    BY <1>5, Zenon DEF Moves
  <2>2. Decodable(pc')
    BY <1>5, <2>1, SuccessorsDecodable, Zenon DEF Moves
  <2> QED
    BY <1>3, <2>1, <2>2, Zenon
<1>6. CASE CallLocal
  <2>1. Decodable(pc')
    BY <1>6, CallFacts, StartsDecodable, Zenon DEF NoStartInside
  <2>2. Decodable(pc + 1)
    BY <1>6, CallFacts, SuccessorsDecodable, Zenon
  <2>3. ASSUME NEW k \in 0 .. stack_frame_index' - 1 PROVE Decodable(stack_frames'[k].return_address)
    <3>1. CASE k = stack_frame_index
      BY <1>6, <2>2, <3>1, CallFacts, Zenon
    <3>2. CASE k # stack_frame_index
      <4>1. k \in 0 .. stack_frame_index - 1
        BY <1>6, <3>2, CallFacts
      <4> QED
        BY <1>1, <1>6, <4>1, CallFacts, Zenon
    <3> QED
      BY <3>1, <3>2, Zenon
  <2> QED
    BY <2>1, <2>3, Zenon
<1>7. CASE ExitLocal
  <2>1. stack_frame_index \in Nat /\ stack_frame_index - 1 \in 0 .. stack_frame_index - 1
    BY <1>7, InterpAssumption, ReturnFacts
  <2>2. Decodable(pc')
    BY <1>1, <1>7, <2>1, ReturnFacts, Zenon
  <2>3. ASSUME NEW k \in 0 .. stack_frame_index' - 1 PROVE Decodable(stack_frames'[k].return_address)
    <3>1. k \in 0 .. stack_frame_index - 1
      BY <1>7, <2>1, ReturnFacts
    <3> QED
      BY <1>1, <1>7, <3>1, ReturnFacts, Zenon
  <2> QED
    BY <2>2, <2>3
<1> QED
  BY <1>2, <1>4, <1>5, <1>6, <1>7, ControlSteps, Zenon

\* The interpreter meets an unknown opcode only in a program one of whose local
\* calls goes to the second half of an LDDW.
THEOREM OpcodesAlwaysKnown == Spec => OpcodesKnown
<1>1. Init => ReturnsDecodable
  <2> SUFFICES ASSUME Init, NoStartInside
               PROVE  Decodable(pc) /\ 0 .. stack_frame_index - 1 = {}
    BY Zenon DEF ReturnsDecodable
  <2>1. Validated /\ pc = 0 /\ stack_frame_index = 0
    BY InitTyped, Zenon DEF Init
  <2>2. 0 \in Starts(prog)
    BY Zenon DEF Starts
  <2> QED
    BY <2>1, <2>2, StartsDecodable DEF NoStartInside
<1>2. ReturnsDecodable => (UnknownOpcode => \E s \in Starts(prog) : SecondHalf(prog, s))
  BY Zenon DEF ReturnsDecodable, NoStartInside, Decodable, UnknownOpcode, Inside
<1>3. Spec => [](TypeOK /\ Validated)
  BY InitTyped, StepTyped, PTL DEF Spec
<1> QED
  BY <1>1, <1>2, <1>3, DecodableStep, PTL DEF Spec, OpcodesKnown

-----------------------------------------------------------------------------
(* Sub-programs.                                                           *)

\* A jump stays in its sub-program.
LEMMA JumpInside ==
    ASSUME Validated, NEW i \in DOMAIN prog, prog[i].op \in JumpOps
    PROVE  /\ JumpTarget(prog, i) \in DOMAIN prog
           /\ SubprogramOf(JumpTarget(prog, i)) = SubprogramOf(i)
<1> DEFINE target == JumpTarget(prog, i)
           s == SubprogramOf(i)
<1>1. target \in DOMAIN prog
  <2>1. InstructionAllowed(prog, i)
    BY Zenon DEF Validated, validate, JumpOps
  <2> QED
    BY <2>1, Zenon DEF InstructionAllowed, JumpAllowed
<1>2. i \in Nat /\ target \in Nat
  BY <1>1, ProgramCounters, Zenon
<1>3. CASE \A j \in DOMAIN prog : ~IsLocalCall(prog, j)
  <2>1. Starts(prog) = {0}
    BY <1>3, Zenon DEF Starts
  <2> QED
    BY <1>1, <1>2, <2>1, SubprogramFacts, Zenon
<1>4. CASE ~\A j \in DOMAIN prog : ~IsLocalCall(prog, j)
  <2>1. /\ s \in Starts(prog) /\ i \in s .. EndOf(prog, s) - 1
        /\ \A j \in s .. EndOf(prog, s) - 1 : j \in DOMAIN prog /\ SubprogramOf(j) = s
    BY SubprogramExtent, Zenon
  <2>2. target \in s .. EndOf(prog, s) - 1
    BY <1>4, <2>1, Zenon DEF Validated, validate, check_for_self_contained_sub_programs
  <2> QED
    BY <1>1, <2>1, <2>2, Zenon
<1> QED
  BY <1>3, <1>4, Zenon

\* When every sub-program ends with EXIT or an unconditional jump, what follows
\* any other instruction is in the same sub-program.
LEMMA FallInside ==
    ASSUME Validated, EndsItself(prog), NEW i \in DOMAIN prog,
           prog[i].op \notin {"exit", "ja", "ja32"}
    PROVE  i + 1 \in DOMAIN prog /\ SubprogramOf(i + 1) = SubprogramOf(i)
<1> DEFINE s == SubprogramOf(i)
           e == EndOf(prog, s)
<1>1. /\ s \in Starts(prog) /\ i \in s .. e - 1
      /\ \A j \in s .. e - 1 : j \in DOMAIN prog /\ SubprogramOf(j) = s
  BY SubprogramExtent, Zenon
<1>2. prog[e - 1].op \in {"exit", "ja", "ja32"}
  BY <1>1, Zenon DEF EndsItself
<1>3. e \in Nat /\ s \in Nat /\ i \in Nat
  BY <1>1, EndFacts, StartsInside, ProgramCounters, Zenon
<1> HIDE DEF s, e
<1>4. i # e - 1
  BY <1>2, Zenon
<1>5. i + 1 \in s .. e - 1
  BY <1>1, <1>3, <1>4
<1> QED
  BY <1>1, <1>5, Zenon DEF s

\* Execution leaves a sub-program only by a local call or an exit, when every
\* sub-program ends with EXIT or an unconditional jump.
THEOREM SubprogramsAlwaysIsolated == Spec => SubprogramsIsolated
<1>1. ASSUME TypeOK, Validated, Next, EndsItself(prog), pc \in DOMAIN prog,
             stack_frame_index' = stack_frame_index
      PROVE  pc' \in DOMAIN prog /\ SubprogramOf(pc') = SubprogramOf(pc)
  <2>1. CASE Stays
    BY <1>1, <2>1, Zenon DEF Stays
  <2>2. CASE Moves
    <3>1. CASE prog[pc].op \notin {"lddw", "ja", "ja32", "exit"} /\ pc' = pc + 1
      BY <1>1, <3>1, FallInside, Zenon
    <3>2. CASE prog[pc].op = "lddw" /\ pc' = pc + 2
      <4>1. pc + 1 \in DOMAIN prog /\ SubprogramOf(pc + 1) = SubprogramOf(pc)
        BY <1>1, <3>2, FallInside, Zenon
      <4>2. prog[pc + 1].op = "zero"
        BY <1>1, <3>2, Zenon DEF Validated, validate, InstructionAllowed, LddwPaired
      <4>3. (pc + 1) + 1 = pc + 2
        BY <1>1 DEF TypeOK
      <4> QED
        BY <1>1, <3>2, <4>1, <4>2, <4>3, FallInside, Zenon
    <3>3. CASE prog[pc].op \in JumpOps /\ pc' = JumpTarget(prog, pc)
      BY <1>1, <3>3, JumpInside, Zenon
    <3> QED
      BY <2>2, <3>1, <3>2, <3>3, Zenon DEF Moves
  <2>3. stack_frame_index \in Int
    BY <1>1 DEF TypeOK
  <2>4. ~CallLocal /\ ~ExitLocal
    BY <1>1, <2>3 DEF CallLocal, ExitLocal
  <2> QED
    BY <1>1, <2>1, <2>2, <2>4, ControlSteps, Zenon
<1>2. Spec => [](TypeOK /\ Validated)
  BY InitTyped, StepTyped, PTL DEF Spec
<1> QED
  BY <1>1, <1>2, PTL DEF Spec, SubprogramsIsolated

-----------------------------------------------------------------------------
(* The stack usage of the frames.                                          *)

\* The current frame, and the frame of every pending call, carry the stack usage
\* of the function they belong to; a call returns to the function it was made in.
UsageTracked ==
    NoStartInside =>
        /\ (pc \in DOMAIN prog /\ pc \notin Starts(prog) /\ stack_frame_index < MaxCallDepth)
              => stack_frames[stack_frame_index].stack_usage = UsageOf(SubprogramOf(pc))
        /\ \A k \in 0 .. stack_frame_index - 1 :
              LET back == stack_frames[k].return_address IN
              /\ back \in Nat \ {0}
              /\ stack_frames[k].stack_usage = UsageOf(SubprogramOf(back - 1))

\* At a start the head of the loop stores the usage, elsewhere it is there already.
LEMMA HeadUsage ==
    ASSUME TypeOK, Validated, UsageTracked, NoStartInside, pc \in DOMAIN prog,
           stack_frame_index < MaxCallDepth
    PROVE  HeadFrames[stack_frame_index].stack_usage = UsageOf(SubprogramOf(pc))
<1>1. stack_frame_index \in 0 .. MaxCallDepth - 1 /\ pc \in Nat
  BY InterpAssumption DEF TypeOK
<1>2. CASE pc \in Starts(prog)
  <2>1. SubprogramOf(pc) = pc
    BY <1>1, <1>2, SubprogramUnique
  <2>2. HeadFrames = [stack_frames EXCEPT ![stack_frame_index].stack_usage = UsageOf(pc)]
    BY <1>2, Zenon DEF HeadFrames
  <2>3. stack_frames[stack_frame_index] \in Frame
    BY <1>1, Zenon DEF TypeOK
  <2>4. HeadFrames[stack_frame_index].stack_usage = UsageOf(pc)
    BY <1>1, <2>2, <2>3, Zenon DEF TypeOK, Frame
  <2> QED
    BY <2>1, <2>4, Zenon
<1>3. CASE pc \notin Starts(prog)
  BY <1>3, Zenon DEF HeadFrames, UsageTracked
<1> QED
  BY <1>2, <1>3, Zenon

\* An instruction that starts no function is in the function control came from.
LEMMA MovesInside ==
    ASSUME TypeOK, Validated, NoStartInside, Moves, pc' \notin Starts(prog)
    PROVE  SubprogramOf(pc') = SubprogramOf(pc)
<1>1. pc \in Nat /\ pc \in DOMAIN prog
  BY Zenon DEF TypeOK, Moves
<1>2. CASE pc' = pc + 1
  BY <1>1, <1>2, SubprogramContinues, Zenon
<1>3. CASE prog[pc].op = "lddw" /\ pc' = pc + 2
  <2>1. (pc + 1) - 1 = pc /\ (pc + 1) + 1 = pc + 2 /\ pc + 1 \in Nat
    BY <1>1
  <2>2. SecondHalf(prog, pc + 1)
    BY <1>1, <1>3, <2>1, Zenon DEF SecondHalf
  <2>3. SubprogramOf(pc + 1) = SubprogramOf(pc)
    BY <1>1, <2>2, SubprogramContinues, Zenon DEF NoStartInside
  <2>4. SubprogramOf(pc + 2) = SubprogramOf(pc + 1)
    BY <1>3, <2>1, SubprogramContinues, Zenon
  <2> QED
    BY <1>3, <2>3, <2>4, Zenon
<1>4. CASE prog[pc].op \in JumpOps /\ pc' = JumpTarget(prog, pc)
  BY <1>1, <1>4, JumpInside, Zenon
<1> QED
  BY <1>2, <1>3, <1>4, Zenon DEF Moves

\* Calls, exits and everything between them keep the usage in step.
LEMMA UsageStep == TypeOK /\ Validated /\ UsageTracked /\ [Next]_vars => UsageTracked'
<1> SUFFICES ASSUME TypeOK, Validated, UsageTracked, [Next]_vars PROVE UsageTracked'
  OBVIOUS
<1> DEFINE Current(i, k, frames) ==
             (i \in DOMAIN prog /\ i \notin Starts(prog) /\ k < MaxCallDepth)
                => frames[k].stack_usage = UsageOf(SubprogramOf(i))
           Pending(frame) ==
             /\ frame.return_address \in Nat \ {0}
             /\ frame.stack_usage = UsageOf(SubprogramOf(frame.return_address - 1))
<1>0. prog' = prog
  BY ProgramFixed DEF vars
<1> SUFFICES ASSUME NoStartInside
             PROVE  /\ Current(pc', stack_frame_index', stack_frames')
                    /\ \A k \in 0 .. stack_frame_index' - 1 : Pending(stack_frames'[k])
  BY <1>0 DEF UsageTracked, NoStartInside, SubprogramOf
<1>2. /\ Current(pc, stack_frame_index, stack_frames)
      /\ \A k \in 0 .. stack_frame_index - 1 : Pending(stack_frames[k])
  BY Zenon DEF UsageTracked
<1>3. CASE UNCHANGED vars
  BY <1>2, <1>3, Zenon DEF vars, locals
<1>4. pc \in Nat /\ stack_frame_index \in Nat /\ MaxCallDepth \in Nat
  BY InterpAssumption DEF TypeOK
<1>5. pc \in DOMAIN prog => \A k \in 0 .. stack_frame_index - 1 : Pending(HeadFrames[k])
  BY <1>2, PendingKept, Zenon
<1>6. CASE Stays
  <2>1. stack_frames' = stack_frames \/ (pc \in DOMAIN prog /\ stack_frames' = HeadFrames)
    BY <1>6, Zenon DEF Stays
  <2>2. Current(pc, stack_frame_index, stack_frames')
    BY <1>2, <2>1, Zenon DEF HeadFrames
  <2> QED
    BY <1>2, <1>5, <1>6, <2>1, <2>2, Zenon DEF Stays
<1>7. CASE Moves
  <2>1. pc \in DOMAIN prog /\ stack_frame_index' = stack_frame_index /\ stack_frames' = HeadFrames
    BY <1>7, Zenon DEF Moves
  <2>2. Current(pc', stack_frame_index', stack_frames')
    BY <1>7, <2>1, HeadUsage, MovesInside, Zenon
  <2> QED
    BY <1>5, <2>1, <2>2, Zenon
<1>8. CASE CallLocal
  <2>1. pc \in DOMAIN prog /\ pc' \in Starts(prog) /\ stack_frame_index' = stack_frame_index + 1
    BY <1>8, CallFacts, Zenon
  <2>2. /\ stack_frames'[stack_frame_index].return_address = pc + 1
        /\ stack_frames'[stack_frame_index].stack_usage = UsageOf(SubprogramOf(pc))
    BY <1>4, <1>8, CallFacts, HeadUsage
  <2>3. pc + 1 \in Nat \ {0} /\ (pc + 1) - 1 = pc
    BY <1>4
  <2>4. Pending(stack_frames'[stack_frame_index])
    BY <2>2, <2>3, Zenon
  <2>5. ASSUME NEW k \in 0 .. stack_frame_index' - 1, k # stack_frame_index
        PROVE  Pending(stack_frames'[k])
    <3>1. k \in 0 .. stack_frame_index - 1
      BY <1>4, <2>1, <2>5
    <3> QED
      BY <1>2, <1>8, <3>1, CallFacts, Zenon
  <2> QED
    BY <2>1, <2>4, <2>5, Zenon
<1>9. CASE ExitLocal
  <2> DEFINE top == stack_frame_index - 1
             back == stack_frames[top].return_address
  <2>1. /\ top \in 0 .. stack_frame_index - 1 /\ stack_frame_index' = top /\ pc' = back
        /\ \A k \in 0 .. stack_frame_index - 1 : stack_frames'[k] = stack_frames[k]
    BY <1>4, <1>9, ReturnFacts
  <2>2. Pending(stack_frames[top]) /\ stack_frames'[top] = stack_frames[top]
    BY <1>2, <2>1, Zenon
  <2>3. pc' \notin Starts(prog) => SubprogramOf(pc') = SubprogramOf(back - 1)
    <3>1. back - 1 \in Nat /\ (back - 1) + 1 = back
      BY <2>2
    <3> QED
      BY <2>1, <3>1, SubprogramContinues, Zenon
  <2>4. Current(pc', stack_frame_index', stack_frames')
    BY <2>1, <2>2, <2>3, Zenon
  <2>5. ASSUME NEW k \in 0 .. stack_frame_index' - 1 PROVE Pending(stack_frames'[k])
    <3>1. k \in 0 .. stack_frame_index - 1
      BY <1>4, <2>1, <2>5
    <3> QED
      BY <1>2, <2>1, <3>1, Zenon
  <2> QED
    BY <2>4, <2>5, Zenon
<1> QED
  BY <1>3, <1>6, <1>7, <1>8, <1>9, ControlSteps, Zenon

\* R10 always moves by the stack usage of the function that is really executing.
THEOREM FrameUsageAlwaysCurrent == Spec => []FrameUsageCurrent
<1>1. Init => UsageTracked
  BY DEF Init, UsageTracked, Starts
<1>2. UsageTracked => FrameUsageCurrent
  BY Zenon DEF UsageTracked, FrameUsageCurrent, NoStartInside
<1>3. Spec => [](TypeOK /\ Validated)
  BY InitTyped, StepTyped, PTL DEF Spec
<1> QED
  BY <1>1, <1>2, <1>3, UsageStep, PTL DEF Spec

=============================================================================
