----------------------------- MODULE UbpfInterp -----------------------------
(***************************************************************************)
(* One call of ubpf_exec_ex on a loaded program: the interpreter loop of   *)
(* the legacy profile.  Every action below is one turn of the loop.        *)
(*                                                                         *)
(* Addresses and register values are the numbers 0 .. AddressSpace - 1.    *)
(* What memory holds is not tracked: a load yields any word of Contents.   *)
(* What an arithmetic instruction computes, and whether a conditional jump *)
(* is taken, are the parameters Compute and Taken.                         *)
(***************************************************************************)
EXTENDS UbpfValidate

CONSTANTS
    Programs,        \* programs handed to ubpf_load
    AddressSpace,    \* 2^64
    IntRange,        \* 2^32: instruction_limit is a uint32_t read into an int
    MaxCallDepth,    \* UBPF_MAX_CALL_DEPTH
    Settings,        \* VM settings and arguments of the call
    Garbage,         \* what an unwritten register may hold
    Contents,        \* what a load may find in memory
    HelperResults,   \* what a helper may return
    Compute(_, _, _),   \* Compute(x, d, s): result of an ALU instruction
    Join(_, _),         \* Join(lo, hi): the 64-bit immediate of an LDDW
    Taken(_, _, _),     \* Taken(x, d, s): a conditional jump is taken
    UserBounds(_, _)    \* UserBounds(a, n): the registered bounds callback

Word == 0 .. AddressSpace - 1
Registers == 0 .. 10
Saved == 6 .. 9

\* bounds, ub: bounds_check_enabled, undefined_behavior_check_enabled;
\* limit: instruction_limit; unwind: unwind_stack_extension_index;
\* mem, mem_len, stack, stack_len: the regions handed to ubpf_exec_ex.
Setting ==
    [bounds : BOOLEAN, ub : BOOLEAN, limit : 0 .. IntRange - 1, unwind : Int,
     mem : Word, mem_len : Word, stack : Word, stack_len : Word]

ImmOps == {"add_imm", "sub_imm", "alu_imm", "div_imm", "mov_imm"}
RegOps == {"add_reg", "sub_reg", "alu_reg", "div_reg", "mov_reg"}
AluOps == ImmOps \cup RegOps \cup {"neg", "endian"}
Instructions == UNION {{p[i] : i \in DOMAIN p} : p \in Programs}

ASSUME InterpAssumption ==
    /\ AddressSpace \in Nat \ {0}
    /\ IntRange \in Nat \ {0}
    /\ MaxCallDepth \in Nat \ {0}
    /\ Settings \subseteq Setting
    /\ \A s \in Settings : s.stack + s.stack_len \in Word
    /\ Garbage \subseteq Word /\ Contents \subseteq Word /\ HelperResults \subseteq Word
    /\ \A p \in Programs :
          /\ \A i \in DOMAIN p : i \in Nat /\ (i > 0 => i - 1 \in DOMAIN p) /\ p[i] \in Inst
          /\ DOMAIN p # {} => \E i \in DOMAIN p : i + 1 \notin DOMAIN p
          /\ \A i \in DOMAIN p : UsageOf(i) \in Word
    /\ \A x \in Instructions :
          /\ x.op \in AluOps => \A d, s \in Word : Compute(x, d, s) \in Word
          /\ \A y \in Instructions : Join(x.imm, y.imm) \in Word

VARIABLES
    prog,               \* the loaded program
    set,                \* the settings, constant during the call
    outcome,            \* "entered", "running", "returned" or "failed"
    pc, reg, shadow_registers, shadow_stack,
    stack_frames, stack_frame_index,
    instruction_limit,  \* what is left of it
    executed,           \* history: instructions executed, when they are limited
    calls,              \* history: R6 - R10 and the next pc at each pending call
    accessed            \* history: the memory access of the last turn, if any

locals == <<pc, reg, shadow_registers, shadow_stack, stack_frames, stack_frame_index,
            instruction_limit, executed, calls, accessed>>
vars == <<prog, set, outcome, locals>>

Frame == [return_address : Nat, saved_registers : [Saved -> Word], stack_usage : Word]
Activation == [at : Nat, kept : [6 .. 10 -> Word]]
NoAccess == [start |-> 0, size |-> 0]

\* Unsigned 64-bit addition and subtraction.
Add(a, u) == IF a + u < AddressSpace THEN a + u ELSE a + u - AddressSpace
\* Mutant: the subtraction does not wrap.
SubUnbounded(a, u) == a - u

Sub(a, u) == IF a >= u THEN a - u ELSE a - u + AddressSpace

\* A uint32_t converted to int.
ToInt(n) == IF 2 * n < IntRange THEN n ELSE n - IntRange

Kept == [r \in 6 .. 10 |-> reg[r]]

Init ==
    /\ prog \in {p \in Programs : validate(p)}
    /\ set \in Settings
    /\ outcome = "entered"
    /\ pc = 0
    /\ \E g \in Garbage :
          reg = [r \in Registers |-> IF r = 1 THEN set.mem
                                     ELSE IF r = 2 THEN set.mem_len
                                     ELSE IF r = 10 THEN set.stack + set.stack_len
                                     ELSE g]
    /\ shadow_registers = {1, 2, 10}
    /\ shadow_stack = {}
    /\ stack_frames = [k \in 0 .. MaxCallDepth - 1 |->
                          [return_address |-> 0, saved_registers |-> [r \in Saved |-> 0],
                           stack_usage |-> 0]]
    /\ stack_frame_index = 0
    /\ instruction_limit = ToInt(set.limit)
    /\ executed = 0
    /\ calls = [k \in 0 .. MaxCallDepth - 1 |-> [at |-> 0, kept |-> Kept]]
    /\ accessed = NoAccess

-----------------------------------------------------------------------------
(* Initialisation tracking.                                                *)

\* ubpf_validate_shadow_register: what must be initialised before x ...
ShadowAccepts(x) ==
    LET Valid(r) == r \in shadow_registers IN
    \/ ~set.ub
    \/ /\ x.op = "ldx" => Valid(x.src)
       /\ x.op = "st"  => x.dst = 10 \/ Valid(x.dst)
       /\ x.op \in {"stx", "atomic"} => x.dst = 10 \/ (Valid(x.src) /\ Valid(x.dst))
       /\ x.op = "jcond_imm" => x.off = 0 \/ Valid(x.dst)
       /\ x.op = "jcond_reg" => x.off = 0 \/ (Valid(x.dst) /\ Valid(x.src))
       /\ x.op = "exit" => Valid(0)

\* ... and what counts as initialised after it.
ShadowAfter(x) ==
    LET Copies == x.op \in RegOps
        Sets == x.op \in ImmOps \cup {"lddw", "zero", "ldx"}
        Helper == x.op = "call" /\ x.src = 0
    IN IF ~set.ub THEN shadow_registers
       ELSE IF Sets \/ (Copies /\ x.src \in shadow_registers) THEN shadow_registers \cup {x.dst}
       ELSE IF Copies THEN shadow_registers \ {x.dst}
       ELSE IF Helper THEN (shadow_registers \cup {0}) \ (1 .. 5)
       ELSE IF x.op = "exit" THEN shadow_registers \ (1 .. 5)
       ELSE shadow_registers

\* The stack bytes of an access that lies wholly in the stack.
StackBytes(a, n) ==
    IF a >= set.stack /\ a + n <= set.stack + set.stack_len THEN a .. a + n - 1 ELSE {}

-----------------------------------------------------------------------------
(* Memory accesses.                                                        *)

\* COMPUTE_EFFECTIVE_ADDR refuses a sum that wraps.
AddressOverflows(base, off) == base + off \notin Word

\* Mutant: only the first byte of the access is compared with the region.
RegionContainsStart(start, len, a, n) ==
    start + len <= AddressSpace - 1 /\ a >= start /\ a < start + len

\* [start, start + len) contains [a, a + n); a region whose end wraps contains nothing.
RegionContains(start, len, a, n) ==
    /\ start + len <= AddressSpace - 1
    /\ a >= start
    /\ a + n <= start + len

bounds_check(a, n) ==
    \/ ~set.bounds
    \/ /\ a + n <= AddressSpace - 1
       /\ \/ set.mem # 0 /\ RegionContains(set.mem, set.mem_len, a, n)
          \/ RegionContains(set.stack, set.stack_len, a, n)
          \/ UserBounds(a, n)

\* The access x makes through the base register is allowed, or it is not.
Accessible(x, base) ==
    ~AddressOverflows(reg[base], x.off) /\ bounds_check(reg[base] + x.off, x.sz)

Accesses(x, base) == accessed' = [start |-> reg[base] + x.off, size |-> x.sz]

-----------------------------------------------------------------------------
(* The head of the loop, and the ways out of it.                           *)

Inside == outcome = "running" /\ pc \in DOMAIN prog

\* Mutants: the limit is compared one too late, one too early.
LimitReachedLate == set.limit # 0 /\ instruction_limit < 0
LimitReachedEarly == set.limit # 0 /\ instruction_limit <= 1

LimitReached == set.limit # 0 /\ instruction_limit <= 0

\* Mutant: jumps do not count towards the limit.
ExecutesUncounted(ops) ==
    /\ Inside /\ ~LimitReached
    /\ prog[pc].op \in ops
    /\ ShadowAccepts(prog[pc])
    /\ UNCHANGED <<prog, set>>
    /\ IF set.limit = 0 \/ prog[pc].op \in JumpOps
       THEN UNCHANGED <<instruction_limit, executed>>
       ELSE instruction_limit' = instruction_limit - 1 /\ executed' = executed + 1

\* The instruction at pc is executed: limit, frame usage, register tracking.
Executes(ops) ==
    /\ Inside /\ ~LimitReached
    /\ prog[pc].op \in ops
    /\ ShadowAccepts(prog[pc])
    /\ UNCHANGED <<prog, set>>
    /\ IF set.limit = 0
       THEN UNCHANGED <<instruction_limit, executed>>
       ELSE instruction_limit' = instruction_limit - 1 /\ executed' = executed + 1

\* Mutant: only the entry point sets its stack usage.
HeadFramesAtEntry ==
    IF pc = 0 /\ stack_frame_index < MaxCallDepth
    THEN [stack_frames EXCEPT ![stack_frame_index].stack_usage = UsageOf(pc)]
    ELSE stack_frames

\* A function that is entered leaves its stack usage in the current frame.
HeadFrames ==
    IF pc \in Starts(prog) /\ stack_frame_index < MaxCallDepth
    THEN [stack_frames EXCEPT ![stack_frame_index].stack_usage = UsageOf(pc)]
    ELSE stack_frames

Continues == outcome' = "running"

\* The instruction touches neither memory nor the frames.
Plain ==
    /\ shadow_registers' = ShadowAfter(prog[pc])
    /\ stack_frames' = HeadFrames
    /\ accessed' = NoAccess
    /\ UNCHANGED <<shadow_stack, stack_frame_index, calls>>

Fails ==
    /\ outcome' = "failed"
    /\ UNCHANGED <<prog, set, locals>>

\* Entry: with tracking enabled, the shadow stack may fail to be allocated.
Enter ==
    /\ outcome = "entered"
    /\ outcome' \in {"running"} \cup (IF set.ub THEN {"failed"} ELSE {})
    /\ UNCHANGED <<prog, set, locals>>

RunsOffTheEnd == outcome = "running" /\ pc \notin DOMAIN prog /\ Fails

LimitExceeded == Inside /\ LimitReached /\ Fails

ShadowRejects == Inside /\ ~LimitReached /\ ~ShadowAccepts(prog[pc]) /\ Fails

UnknownOpcode == Inside /\ ~LimitReached /\ prog[pc].op = "zero" /\ Fails

AccessRefused ==
    LET x == prog[pc] IN
    /\ Inside /\ ~LimitReached /\ ShadowAccepts(x)
    /\ x.op \in {"ldx", "st", "stx", "atomic"}
    /\ ~Accessible(x, IF x.op = "ldx" THEN x.src ELSE x.dst)
    /\ Fails

DepthExceeded ==
    /\ Inside /\ ~LimitReached
    /\ IsLocalCall(prog, pc) /\ stack_frame_index >= MaxCallDepth
    /\ Fails

-----------------------------------------------------------------------------
(* Instructions.                                                           *)

Alu ==
    LET x == prog[pc] IN
    /\ Executes(AluOps)
    /\ reg' = [reg EXCEPT ![x.dst] = Compute(x, reg[x.dst], reg[x.src])]
    /\ pc' = pc + 1
    /\ Continues /\ Plain

Lddw ==
    LET x == prog[pc] IN
    /\ Executes({"lddw"})
    /\ reg' = [reg EXCEPT ![x.dst] = Join(x.imm, prog[pc + 1].imm)]
    /\ pc' = pc + 2
    /\ Continues /\ Plain

Load ==
    LET x == prog[pc]
        bytes == StackBytes(reg[x.src] + x.off, x.sz)
    IN /\ Executes({"ldx"})
       /\ Accessible(x, x.src) /\ Accesses(x, x.src)
       /\ \E v \in Contents : reg' = [reg EXCEPT ![x.dst] = v]
       /\ shadow_registers' = IF set.ub /\ ~(bytes \subseteq shadow_stack)
                              THEN ShadowAfter(x) \ {x.dst}
                              ELSE ShadowAfter(x)
       /\ stack_frames' = HeadFrames
       /\ pc' = pc + 1
       /\ Continues
       /\ UNCHANGED <<shadow_stack, stack_frame_index, calls>>

MarkStored(x) ==
    shadow_stack' = IF set.ub THEN shadow_stack \cup StackBytes(reg[x.dst] + x.off, x.sz)
                    ELSE shadow_stack

Store ==
    LET x == prog[pc] IN
    /\ Executes({"st", "stx"})
    /\ Accessible(x, x.dst) /\ Accesses(x, x.dst) /\ MarkStored(x)
    /\ shadow_registers' = ShadowAfter(x)
    /\ stack_frames' = HeadFrames
    /\ pc' = pc + 1
    /\ Continues
    /\ UNCHANGED <<reg, stack_frame_index, calls>>

\* The register an atomic operation leaves the old value in, if it fetches.
FetchRegisters(x) ==
    IF x.imm = AtomicCmpXchg THEN {0}
    ELSE IF x.imm \in {AtomicFetch, AtomicXchg} THEN {x.src}
    ELSE {}

Atomic ==
    LET x == prog[pc] IN
    /\ Executes({"atomic"})
    /\ Accessible(x, x.dst) /\ Accesses(x, x.dst) /\ MarkStored(x)
    /\ \E v \in Contents :
          reg' = [r \in Registers |-> IF r \in FetchRegisters(x) THEN v ELSE reg[r]]
    /\ shadow_registers' = ShadowAfter(x)
    /\ stack_frames' = HeadFrames
    /\ pc' = pc + 1
    /\ Continues
    /\ UNCHANGED <<stack_frame_index, calls>>

Jump ==
    LET x == prog[pc] IN
    /\ Executes(JumpOps)
    /\ \/ /\ x.op \in {"ja", "ja32"} \/ Taken(x, reg[x.dst], reg[x.src])
          /\ pc' = JumpTarget(prog, pc)
       \/ /\ x.op \in {"jcond_imm", "jcond_reg"} /\ ~Taken(x, reg[x.dst], reg[x.src])
          /\ pc' = pc + 1
    /\ Continues /\ Plain
    /\ UNCHANGED reg

CallHelper ==
    LET x == prog[pc] IN
    /\ Executes({"call"}) /\ x.src = 0
    /\ \E v \in HelperResults :
          /\ reg' = [reg EXCEPT ![0] = v]
          /\ outcome' = IF x.imm = set.unwind /\ v = 0 THEN "returned" ELSE "running"
    /\ pc' = pc + 1
    /\ Plain

\* Mutant: R10 moves by the stack usage of the callee.
CallLocalCalleeUsage ==
    /\ Executes({"call"}) /\ IsLocalCall(prog, pc)
    /\ stack_frame_index < MaxCallDepth
    /\ stack_frames' = [HeadFrames EXCEPT ![stack_frame_index] =
                           [return_address |-> pc + 1, saved_registers |-> [r \in Saved |-> reg[r]],
                            stack_usage |-> HeadFrames[stack_frame_index].stack_usage]]
    /\ reg' = [reg EXCEPT ![10] = Sub(reg[10], UsageOf(CallTarget(prog, pc)))]
    /\ stack_frame_index' = stack_frame_index + 1
    /\ pc' = CallTarget(prog, pc)
    /\ shadow_registers' = ShadowAfter(prog[pc])
    /\ calls' = [calls EXCEPT ![stack_frame_index] = [at |-> pc + 1, kept |-> Kept]]
    /\ accessed' = NoAccess
    /\ Continues
    /\ UNCHANGED shadow_stack

CallLocal ==
    /\ Executes({"call"}) /\ IsLocalCall(prog, pc)
    /\ stack_frame_index < MaxCallDepth
    /\ stack_frames' = [HeadFrames EXCEPT ![stack_frame_index] =
                           [return_address |-> pc + 1, saved_registers |-> [r \in Saved |-> reg[r]],
                            stack_usage |-> HeadFrames[stack_frame_index].stack_usage]]
    /\ reg' = [reg EXCEPT ![10] = Sub(reg[10], HeadFrames[stack_frame_index].stack_usage)]
    /\ stack_frame_index' = stack_frame_index + 1
    /\ pc' = CallTarget(prog, pc)
    /\ shadow_registers' = ShadowAfter(prog[pc])
    /\ calls' = [calls EXCEPT ![stack_frame_index] = [at |-> pc + 1, kept |-> Kept]]
    /\ accessed' = NoAccess
    /\ Continues
    /\ UNCHANGED shadow_stack

\* Mutant: R6 is not restored.
ExitLocalKeepsR6 ==
    LET frame == HeadFrames[stack_frame_index - 1] IN
    /\ Executes({"exit"}) /\ stack_frame_index > 0
    /\ stack_frame_index' = stack_frame_index - 1
    /\ pc' = frame.return_address
    /\ reg' = [r \in Registers |-> IF r \in 7 .. 9 THEN frame.saved_registers[r]
                                   ELSE IF r = 10 THEN Add(reg[10], frame.stack_usage)
                                   ELSE reg[r]]
    /\ stack_frames' = HeadFrames
    /\ shadow_registers' = ShadowAfter(prog[pc])
    /\ accessed' = NoAccess
    /\ Continues
    /\ UNCHANGED <<shadow_stack, calls>>

ExitLocal ==
    LET frame == HeadFrames[stack_frame_index - 1] IN
    /\ Executes({"exit"}) /\ stack_frame_index > 0
    /\ stack_frame_index' = stack_frame_index - 1
    /\ pc' = frame.return_address
    /\ reg' = [r \in Registers |-> IF r \in Saved THEN frame.saved_registers[r]
                                   ELSE IF r = 10 THEN Add(reg[10], frame.stack_usage)
                                   ELSE reg[r]]
    /\ stack_frames' = HeadFrames
    /\ shadow_registers' = ShadowAfter(prog[pc])
    /\ accessed' = NoAccess
    /\ Continues
    /\ UNCHANGED <<shadow_stack, calls>>

ExitProgram ==
    /\ Executes({"exit"}) /\ stack_frame_index = 0
    /\ outcome' = "returned"
    /\ Plain
    /\ UNCHANGED <<pc, reg>>

Next ==
    \/ Enter \/ RunsOffTheEnd \/ LimitExceeded \/ ShadowRejects \/ UnknownOpcode
    \/ AccessRefused \/ DepthExceeded
    \/ Alu \/ Lddw \/ Load \/ Store \/ Atomic \/ Jump
    \/ CallHelper \/ CallLocal \/ ExitLocal \/ ExitProgram

Spec == Init /\ [][Next]_vars

\* The loop runs until it returns.
FairSpec == Spec /\ WF_vars(Next)

-----------------------------------------------------------------------------
(* Properties.                                                             *)

\* Every variable keeps its type: the frames never grow past the call depth,
\* and registers always hold words.
TypeOK ==
    /\ prog \in Programs /\ set \in Settings
    /\ outcome \in {"entered", "running", "returned", "failed"}
    /\ pc \in Nat
    /\ reg \in [Registers -> Word]
    /\ shadow_registers \subseteq Registers
    /\ shadow_stack \subseteq Word
    /\ stack_frames \in [0 .. MaxCallDepth - 1 -> Frame]
    /\ stack_frame_index \in 0 .. MaxCallDepth
    /\ instruction_limit \in Int /\ executed \in Nat
    /\ calls \in [0 .. MaxCallDepth - 1 -> Activation]
    /\ accessed \in [start : Word, size : Nat]

\* No atomic operation of the program fetches into R10.
FramePointerFetched(p) == \E i \in DOMAIN p : p[i].op = "atomic" /\ 10 \in FetchRegisters(p[i])

\* The frame pointer of the activation above the pending call k.
FrameAbove(k) == IF k + 1 = stack_frame_index THEN reg[10] ELSE calls[k + 1].kept[10]

\* Every pending local call can be undone, however deep the nesting and
\* whatever stack usage each function has: the frame at its index still holds
\* the return address and R6 - R9 of the moment of the call, and adding its
\* stack usage to the callee's frame pointer gives back the caller's.
FramesRestorable ==
    FramePointerFetched(prog) \/
    \A k \in 0 .. stack_frame_index - 1 :
        /\ stack_frames[k].return_address = calls[k].at
        /\ \A r \in Saved : stack_frames[k].saved_registers[r] = calls[k].kept[r]
        /\ Add(FrameAbove(k), stack_frames[k].stack_usage) = calls[k].kept[10]

\* The interpreter keeps what CallStack promises of local calls.
Abstract == INSTANCE CallStack WITH
    over <- outcome \in {"returned", "failed"},
    at <- pc, kept <- Kept, depth <- stack_frame_index, saved <- calls

CallsAreRestored == Abstract!Spec

\* The sub-program an instruction belongs to: the last start at or before it.
SubprogramOf(i) ==
    CHOOSE s \in Starts(prog) : s <= i /\ \A t \in Starts(prog) : t <= i => t <= s

\* The stack usage a call or an exit moves R10 by is that of the function the
\* frame is really in, even after loops, returns and a fall into the next
\* function: int_funcs is consulted at every instruction.
FrameUsageCurrent ==
    (/\ outcome = "running" /\ pc \in DOMAIN prog /\ pc \notin Starts(prog)
     /\ stack_frame_index < MaxCallDepth
     /\ \A s \in Starts(prog) : ~SecondHalf(prog, s))
    => stack_frames[stack_frame_index].stack_usage = UsageOf(SubprogramOf(pc))

\* With bounds checks on, every byte read or written lies in one of the two
\* regions of the call or in a range the callback accepted, and no access wraps
\* around the end of the address space.
MemoryConfined ==
    (set.bounds /\ accessed # NoAccess) =>
        LET bytes == accessed.start .. accessed.start + accessed.size - 1
            Region(start, len) == {a \in Word : start <= a /\ a < start + len}
        IN \/ bytes \subseteq Region(set.mem, set.mem_len)
           \/ bytes \subseteq Region(set.stack, set.stack_len)
           \/ bytes \subseteq Word /\ UserBounds(accessed.start, accessed.size)

\* The interpreter never executes more instructions than the limit set by
\* ubpf_set_instruction_limit.
LimitHonoured == set.limit # 0 => executed <= set.limit

\* It gives up because of the limit only once that many have been executed.
LimitExact == [][LimitExceeded => executed = set.limit]_vars

\* A limited program always comes to an end, whatever loops it contains.
Terminates == set.limit # 0 ~> outcome \in {"returned", "failed"}

\* Once every sub-program ends with EXIT or an unconditional jump, execution
\* moves from one to another only by a local call or an exit.
EndsItself(p) ==
    \A s \in Starts(p) : DOMAIN p # {} => p[EndOf(p, s) - 1].op \in {"exit", "ja", "ja32"}

SubprogramsIsolated ==
    [][ (/\ EndsItself(prog) /\ pc \in DOMAIN prog
         /\ stack_frame_index' = stack_frame_index)
        => pc' \in DOMAIN prog /\ SubprogramOf(pc') = SubprogramOf(pc) ]_vars

\* The same, of every program the validator accepts.
SubprogramsEnteredByCall ==
    [][ (pc \in DOMAIN prog /\ pc' \in DOMAIN prog /\ stack_frame_index' = stack_frame_index)
        => SubprogramOf(pc') = SubprogramOf(pc) ]_vars

\* A program the validator accepted reaches opcode 0 only if one of its local
\* calls goes to the second half of an LDDW: no jump, no fall-through, no return
\* does.
OpcodesKnown == [][UnknownOpcode => \E s \in Starts(prog) : SecondHalf(prog, s)]_vars

=============================================================================
