--------------------------- MODULE UbpfSafeProofs ---------------------------
(***************************************************************************)
(* Theorems about the safe profile, for every program the validator        *)
(* accepts, every set of regions and every helper metadata.                *)
(***************************************************************************)
EXTENDS UbpfSafe, UbpfInterpProofs

-----------------------------------------------------------------------------
(* Types.                                                                  *)

\* Every variable of the safe profile keeps its type.
SafeTypeOK ==
    /\ TypeOK
    /\ safe_tags \in [Registers -> Tag]
    /\ safe_frames \in [0 .. MaxCallDepth - 1 -> [Saved -> Tag]]
    /\ safe_spill_slots \in [Slots -> Tag \cup {NoSpill}]
    /\ stack_words \in [Slots -> Word \cup {Unknown}]
    /\ helpers_write \in BOOLEAN
    /\ tagged_calls \in [0 .. MaxCallDepth - 1 -> [6 .. 10 -> Tag]]

\* Division by the size of a slot.
LEMMA Division ==
    ASSUME NEW n \in Int
    PROVE  /\ n \div 8 \in Int /\ n % 8 \in 0 .. 7
           /\ n = 8 * (n \div 8) + (n % 8)
OBVIOUS

\* The numbers of a setting.
LEMMA SettingNumbers ==
    ASSUME TypeOK
    PROVE  /\ set \in Settings
           /\ set.stack \in Nat /\ set.stack_len \in Nat /\ set.mem \in Nat /\ set.mem_len \in Nat
           /\ set.stack \in Word /\ set.stack_len \in Word /\ set.mem \in Word /\ set.mem_len \in Word
           /\ set.stack + set.stack_len \in Word
           /\ set.bounds \in BOOLEAN
<1>1. set \in Setting /\ set \in Settings /\ set.stack + set.stack_len \in Word
  BY InterpAssumption, Zenon DEF TypeOK
<1>2. Word \subseteq Nat
  BY InterpAssumption DEF Word
<1> QED
  BY <1>1, <1>2, Zenon DEF Setting

\* The slots of a stack of n bytes, the last of which may be incomplete.
LEMMA SlotNumbers ==
    ASSUME TypeOK, NEW s \in Int, s >= 0, 8 * s < set.stack_len
    PROVE  s \in Slots
<1>1. set.stack_len \in Nat
  BY SettingNumbers, Zenon
<1>2. set.stack_len + 7 = 8 * SlotCount + ((set.stack_len + 7) % 8) /\ SlotCount \in Int
      /\ (set.stack_len + 7) % 8 \in 0 .. 7
  BY <1>1, Division DEF SlotCount
<1> QED
  BY <1>1, <1>2 DEF Slots

\* A permitted aligned access through a stack pointer covers one complete slot.
LEMMA AlignedSlot ==
    ASSUME TypeOK, NEW t, NEW a \in Int, NEW n, NEW required,
           compute_access(t, a, n, required), is_stack_pointer(t), Aligned(a, n)
    PROVE  /\ SlotAt(a) \in Slots /\ 8 * SlotAt(a) + 8 <= set.stack_len
           /\ a = set.stack + 8 * SlotAt(a)
<1>1. n = 8 /\ a >= set.stack /\ a <= set.stack + set.stack_len - n
  BY Zenon DEF compute_access, is_stack_pointer, Aligned
<1>2. set.stack \in Nat /\ set.stack_len \in Nat
  BY SettingNumbers, Zenon
<1>3. a - set.stack \in Int /\ (a - set.stack) % 8 = 0
  BY <1>2 DEF Aligned
<1>4. SlotAt(a) \in Int /\ a - set.stack = 8 * SlotAt(a)
  BY <1>3, Division DEF SlotAt
<1>5. SlotAt(a) >= 0 /\ 8 * SlotAt(a) + 8 <= set.stack_len
  BY <1>1, <1>2, <1>4
<1> QED
  BY <1>1, <1>2, <1>4, <1>5, SlotNumbers

\* Scalars are tags, and no tag marks a slot as invalid.
LEMMA ScalarTyped == Scalar \in Tag /\ NoSpill \notin Tag /\ Scalar # NoSpill
<1>1. 0 \in Word
  BY InterpAssumption DEF Word
<1> QED
  BY <1>1 DEF Scalar, NoSpill, Tag

\* What is known of a load, a store or an atomic operation that is permitted.
LEMMA AccessFacts ==
    ASSUME TypeOK, Validated, NEW ops \in SUBSET {"ldx", "st", "stx", "atomic"}, Executes(ops),
           Permitted(prog[pc])
    PROVE  /\ pc \in DOMAIN prog /\ prog[pc].op \in ops /\ prog[pc].op # "zero"
           /\ prog[pc] \in Inst
           /\ prog[pc].dst \in Registers /\ prog[pc].src \in Registers
           /\ prog[pc].sz \in Nat /\ prog[pc].off \in Int
           /\ BaseRegister(prog[pc]) \in Registers
           /\ Address(prog[pc]) \in Word /\ Address(prog[pc]) \in Nat
           /\ accessed' = [start |-> Address(prog[pc]), size |-> prog[pc].sz]
                => accessed' \in [start : Word, size : Nat]
<1>1. pc \in DOMAIN prog /\ prog[pc].op \in ops /\ prog[pc].op # "zero"
  BY Zenon DEF Executes, Inside
<1>2. prog[pc] \in Inst /\ prog[pc].dst \in Registers /\ prog[pc].src \in Registers
  BY <1>1, FetchedInstruction, Zenon
<1>3. prog[pc].sz \in Nat /\ prog[pc].off \in Int
  BY <1>2, Zenon DEF Inst
<1>4. BaseRegister(prog[pc]) \in Registers
  BY <1>2, Zenon DEF BaseRegister
<1>5. Address(prog[pc]) \in Word
  BY Zenon DEF Permitted, compute_access
<1>6. Address(prog[pc]) \in Nat
  BY <1>5, InterpAssumption DEF Word
<1> QED
  BY <1>1, <1>2, <1>3, <1>4, <1>5, <1>6

\* The region a helper's metadata name, when it is called.
LEMMA KnownRegion ==
    ASSUME NEW i, HelperKnown(i), SafeHelpers[i].result_kind # "scalar"
    PROVE  LET r == find_region_by_id(SafeHelpers[i].region_id) IN
           r \in Regions /\ r.id = SafeHelpers[i].region_id
BY Zenon DEF HelperKnown, find_region_by_id

\* The tag of a helper's result.
LEMMA ResultTyped ==
    ASSUME NEW i, HelperKnown(i), NEW v \in Word
    PROVE  ResultTag(SafeHelpers[i], v) \in Tag
<1> DEFINE h == SafeHelpers[i]
<1>1. CASE h.result_kind = "scalar"
  BY <1>1, ScalarTyped, Zenon DEF ResultTag
<1>2. CASE h.result_kind # "scalar"
  <2>1. h \in Helper
    BY SafeAssumption, Zenon DEF HelperKnown, HelpersRegistered
  <2>2. find_region_by_id(h.region_id) \in Region
    BY <1>2, KnownRegion, SafeAssumption, Zenon DEF RegionsRegistered
  <2>3. /\ h.result_kind \in {"pointer", "handle"} /\ h.region_id \in Int /\ h.region_size \in Word
    BY <1>2, <2>1 DEF Helper
  <2>4. find_region_by_id(h.region_id).permissions \in SUBSET Permissions
    BY <2>2, Zenon DEF Region
  <2> QED
    BY <1>2, <2>3, <2>4, Zenon DEF ResultTag, Tag
<1> QED
  BY <1>1, <1>2, Zenon

\* The turns of the loop that are turns of the legacy loop.
LEMMA SharedSteps ==
    (\/ SafeStops \/ SafeAlu32 \/ SafeAlu64 \/ SafeLddw \/ SafeJump
     \/ SafeCallLocal \/ SafeExitLocal \/ SafeExitProgram) => Next
BY Zenon DEF SafeStops, SafeAlu32, SafeAlu64, SafeLddw, SafeJump, SafeCallLocal, SafeExitLocal,
       SafeExitProgram, Next

\* The turns that change nothing but the outcome.
LEMMA IdleSteps ==
    ASSUME SafeEnter \/ SafeStops \/ AluRefused \/ SafeAccessRefused \/ HelperRefused
    PROVE  /\ UNCHANGED <<prog, set, locals, provenance>>
           /\ outcome' \in {"running", "failed"}
           /\ outcome' = "running" => outcome = "entered"
BY Zenon DEF SafeEnter, SafeStops, RunsOffTheEnd, LimitExceeded, ShadowRejects, UnknownOpcode,
       DepthExceeded, AluRefused, SafeAccessRefused, HelperRefused, Fails

\* The bytes a store marks are addresses.
LEMMA MarkedTyped ==
    ASSUME TypeOK, NEW x \in Inst, reg[x.dst] + x.off \in Word, MarkStored(x)
    PROVE  shadow_stack' \subseteq Word
<1>1. x.sz \in Nat /\ reg[x.dst] + x.off \in Nat
  BY InterpAssumption DEF Inst, Word
<1>2. StackBytes(reg[x.dst] + x.off, x.sz) \subseteq Word
  BY <1>1, SettingNumbers, InterpAssumption DEF StackBytes, Word
<1> QED
  BY <1>2, Zenon DEF MarkStored, TypeOK

\* Every turn of the safe loop keeps the types of the variables both loops have.
LEMMA BaseTyped ==
    ASSUME SafeTypeOK, Validated, SafeNext PROVE TypeOK' /\ Validated'
<1> DEFINE x == prog[pc]
<1>0. TypeOK /\ stack_words \in [Slots -> Word \cup {Unknown}]
  BY Zenon DEF SafeTypeOK
<1>1. CASE \/ SafeAlu32 \/ SafeAlu64 \/ SafeLddw \/ SafeJump
           \/ SafeCallLocal \/ SafeExitLocal \/ SafeExitProgram
  BY <1>0, <1>1, SharedSteps, StepTyped, Zenon
<1>2. CASE SafeEnter \/ SafeStops \/ AluRefused \/ SafeAccessRefused \/ HelperRefused
  <2>1. UNCHANGED <<prog, set, locals>> /\ outcome' \in {"running", "failed"}
    BY <1>2, IdleSteps, Zenon
  <2> QED
    BY <1>0, <2>1, Zenon DEF TypeOK, Validated, locals
<1>3. ASSUME NEW ops \in SUBSET {"ldx", "st", "stx", "atomic"}, Executes(ops)
      PROVE  /\ Validated' /\ set' \in Settings
             /\ instruction_limit' \in Int /\ executed' \in Nat
             /\ ShadowAfter(x) \subseteq Registers
             /\ HeadFrames \in [0 .. MaxCallDepth - 1 -> Frame]
  BY <1>0, <1>3, ExecutesTyped, Zenon
<1>4. CASE SafeLoad
  <2>0. Executes({"ldx"}) /\ Permitted(x)
    BY <1>4, Zenon DEF SafeLoad
  <2>1. x.op = "ldx" /\ x.dst \in Registers /\ Address(x) \in Nat /\ x.sz \in Nat
    BY <1>0, <2>0, AccessFacts
  <2>2. accessed' \in [start : Word, size : Nat]
    BY <1>0, <1>4, <2>0, <2>1, AccessFacts, Zenon DEF SafeLoad, Accesses, Address, BaseRegister
  <2>3. Found(x) \subseteq Word
    BY <1>0, InterpAssumption, Zenon DEF Found
  <2>4. reg' \in [Registers -> Word]
    BY <1>0, <1>4, <2>1, <2>3, Zenon DEF SafeLoad, TypeOK
  <2>5. /\ shadow_registers' \subseteq Registers /\ stack_frames' = HeadFrames
        /\ pc' \in Nat /\ outcome' = "running"
        /\ UNCHANGED <<shadow_stack, stack_frame_index, calls>>
    BY <1>0, <1>3, <1>4, <2>0 DEF SafeLoad, Continues, TypeOK
  <2> QED
    BY <1>0, <1>3, <2>0, <2>2, <2>4, <2>5, Zenon DEF TypeOK, Validated
<1>5. CASE SafeStore
  <2>0. Executes({"st", "stx"}) /\ Permitted(x)
    BY <1>5, Zenon DEF SafeStore
  <2>1. x.op \in {"st", "stx"} /\ x \in Inst /\ Address(x) \in Word
    BY <1>0, <2>0, AccessFacts, Zenon
  <2>2. Address(x) = reg[x.dst] + x.off
    BY <2>1, Zenon DEF Address, BaseRegister
  <2>3. accessed' \in [start : Word, size : Nat]
    BY <1>0, <1>5, <2>0, <2>2, AccessFacts, Zenon DEF SafeStore, Accesses
  <2>4. shadow_stack' \subseteq Word
    BY <1>0, <1>5, <2>1, <2>2, MarkedTyped, Zenon DEF SafeStore
  <2>5. /\ shadow_registers' \subseteq Registers /\ stack_frames' = HeadFrames
        /\ pc' \in Nat /\ outcome' = "running"
        /\ UNCHANGED <<reg, stack_frame_index, calls>>
    BY <1>0, <1>3, <1>5, <2>0 DEF SafeStore, Continues, TypeOK
  <2> QED
    BY <1>0, <1>3, <2>0, <2>3, <2>4, <2>5, Zenon DEF TypeOK, Validated
<1>6. CASE SafeAtomic
  <2>0. Executes({"atomic"}) /\ Permitted(x)
    BY <1>6, Zenon DEF SafeAtomic
  <2>1. x.op = "atomic" /\ Address(x) = reg[x.dst] + x.off
    BY <1>0, <2>0, AccessFacts DEF Address, BaseRegister
  <2>2. accessed' \in [start : Word, size : Nat]
    BY <1>0, <1>6, <2>0, <2>1, AccessFacts, Zenon DEF SafeAtomic, Accesses
  <2>3. reg' \in [Registers -> Word]
    BY <1>0, <1>6, InterpAssumption, Zenon DEF SafeAtomic, TypeOK
  <2>4. /\ shadow_registers' \subseteq Registers /\ stack_frames' = HeadFrames
        /\ pc' \in Nat /\ outcome' = "running"
        /\ UNCHANGED <<shadow_stack, stack_frame_index, calls>>
    BY <1>0, <1>3, <1>6, <2>0 DEF SafeAtomic, Continues, TypeOK
  <2> QED
    BY <1>0, <1>3, <2>0, <2>2, <2>3, <2>4, Zenon DEF TypeOK, Validated
<1>7. CASE SafeCallHelper
  <2>1. Executes({"call"})
    BY <1>7, Zenon DEF SafeCallHelper
  <2>2. /\ Validated' /\ set' \in Settings
        /\ instruction_limit' \in Int /\ executed' \in Nat
        /\ ShadowAfter(x) \subseteq Registers
        /\ HeadFrames \in [0 .. MaxCallDepth - 1 -> Frame]
    BY <1>0, <2>1, ExecutesTyped, Zenon
  <2>3. PICK v \in HelperResults : reg' = [reg EXCEPT ![0] = v]
    BY <1>7, Zenon DEF SafeCallHelper
  <2>4. reg' \in [Registers -> Word]
    BY <1>0, <2>3, InterpAssumption, Zenon DEF TypeOK, Registers
  <2>5. outcome' \in {"returned", "running", "failed"} /\ pc' = pc + 1 /\ Plain
    BY <1>7, Zenon DEF SafeCallHelper
  <2>6. NoAccess \in [start : Word, size : Nat]
    BY InterpAssumption DEF Word, NoAccess
  <2> QED
    BY <1>0, <2>2, <2>4, <2>5, <2>6 DEF Plain, TypeOK, Validated
<1> QED
  BY <1>1, <1>2, <1>4, <1>5, <1>6, <1>7, Zenon DEF SafeNext

\* No turn of the loop changes the program, the settings or the kind of helpers.
LEMMA SettingFixed ==
    SafeNext => prog' = prog /\ set' = set /\ helpers_write' = helpers_write
<1>1. ASSUME SafeEnter \/ SafeStops \/ AluRefused \/ SafeAccessRefused \/ HelperRefused
      PROVE  prog' = prog /\ set' = set /\ helpers_write' = helpers_write
  BY <1>1, IdleSteps, Zenon DEF provenance
<1>2. ASSUME \/ SafeAlu32 \/ SafeAlu64 \/ SafeLddw \/ SafeJump
             \/ SafeCallLocal \/ SafeExitLocal \/ SafeExitProgram
      PROVE  prog' = prog /\ set' = set /\ helpers_write' = helpers_write
  <2>1. prog' = prog /\ set' = set
    BY <1>2, SharedSteps, ProgramFixed, Zenon
  <2>2. helpers_write' = helpers_write
    BY <1>2, Zenon DEF SafeAlu32, SafeAlu64, SafeLddw, SafeJump, SafeCallLocal, SafeExitLocal,
                SafeExitProgram, provenance, UntrackedMemory
  <2> QED
    BY <2>1, <2>2, Zenon
<1>3. ASSUME SafeLoad \/ SafeStore \/ SafeAtomic \/ SafeCallHelper
      PROVE  prog' = prog /\ set' = set /\ helpers_write' = helpers_write
  BY <1>3, Zenon DEF SafeLoad, SafeStore, SafeAtomic, SafeCallHelper, Executes, UntrackedMemory
<1> QED
  BY <1>1, <1>2, <1>3, Zenon DEF SafeNext

\* The tag of a loaded value is a scalar's or that of a valid spill slot.
LEMMA ReloadedFrom ==
    ASSUME SafeTypeOK, Validated, Executes({"ldx"}), Permitted(prog[pc])
    PROVE  \/ Reloaded(prog[pc]) = Scalar
           \/ LET slot == SlotAt(Address(prog[pc])) IN
              /\ slot \in Slots /\ safe_spill_slots[slot] # NoSpill
              /\ Reloaded(prog[pc]) = safe_spill_slots[slot]
              /\ Aligned(Address(prog[pc]), prog[pc].sz)
<1> DEFINE x == prog[pc]
           slot == SlotAt(Address(x))
<1> SUFFICES ASSUME Reloaded(x) # Scalar
             PROVE  /\ slot \in Slots /\ safe_spill_slots[slot] # NoSpill
                    /\ Reloaded(x) = safe_spill_slots[slot]
                    /\ Aligned(Address(x), x.sz)
  BY Zenon
<1>1. TypeOK
  BY Zenon DEF SafeTypeOK
<1>2. x.op = "ldx" /\ Address(x) \in Nat
  BY <1>1, AccessFacts
<1>3. ~is_stack_pointer(Scalar)
  BY Zenon DEF is_stack_pointer, Scalar
<1>4. /\ is_stack_pointer(safe_tags[x.src]) /\ Aligned(Address(x), x.sz)
      /\ safe_spill_slots[slot] # NoSpill /\ Reloaded(x) = safe_spill_slots[slot]
  BY <1>3, Zenon DEF Reloaded
<1>5. compute_access(safe_tags[x.src], Address(x), x.sz, Required(x))
  BY <1>2, Zenon DEF Permitted, BaseRegister
<1>6. slot \in Slots
  BY <1>1, <1>2, <1>4, <1>5, AlignedSlot
<1> QED
  BY <1>4, <1>6, Zenon

\* What each turn of the loop does to the tags of the registers.
LEMMA RegisterTags ==
    ASSUME SafeTypeOK, Validated, SafeNext, NEW r \in Registers
    PROVE  \/ safe_tags'[r] = Scalar
           \/ \E q \in Registers : safe_tags'[r] = safe_tags[q]
           \/ SafeLoad /\ \E s \in Slots :
                 safe_spill_slots[s] # NoSpill /\ safe_tags'[r] = safe_spill_slots[s]
           \/ SafeExitLocal /\ r \in Saved /\ safe_tags'[r] = safe_frames[stack_frame_index - 1][r]
           \/ SafeCallHelper /\ r = 0 /\ HelperKnown(prog[pc].imm) /\
                 \E v \in HelperResults :
                    /\ ResultAllowed(SafeHelpers[prog[pc].imm], v)
                    /\ safe_tags'[r] = ResultTag(SafeHelpers[prog[pc].imm], v)
<1> DEFINE x == prog[pc]
<1>0. TypeOK /\ safe_tags \in [Registers -> Tag]
  BY Zenon DEF SafeTypeOK
<1>1. CASE UNCHANGED safe_tags
  BY <1>1, Zenon
<1>2. CASE SafeAlu32 \/ SafeAlu64
  <2>1. PICK t \in AluTags(x) : safe_tags' = [safe_tags EXCEPT ![x.dst] = t]
    BY <1>2, Zenon DEF SafeAlu32, SafeAlu64
  <2>2. t \in {Scalar, safe_tags[x.dst], safe_tags[x.src]}
    BY Zenon DEF AluTags
  <2>3. x.dst \in Registers /\ x.src \in Registers
    BY <1>2, FetchedInstruction, Zenon DEF SafeAlu32, SafeAlu64, Alu, Executes, Inside, AluOps, ImmOps, RegOps
  <2> QED
    BY <1>0, <2>1, <2>2, <2>3, Zenon
<1>3. CASE SafeLddw
  BY <1>0, <1>3, Zenon DEF SafeLddw
<1>4. CASE SafeLoad
  <2>1. Executes({"ldx"}) /\ Permitted(x) /\ safe_tags' = [safe_tags EXCEPT ![x.dst] = Reloaded(x)]
    BY <1>4, Zenon DEF SafeLoad
  <2> QED
    BY <1>0, <1>4, <2>1, ReloadedFrom, Zenon
<1>5. CASE SafeAtomic
  BY <1>5, Zenon DEF SafeAtomic
<1>6. CASE SafeCallHelper
  <2>1. HelperKnown(x.imm)
    BY <1>6, Zenon DEF SafeCallHelper
  <2>2. PICK v \in HelperResults :
          \/ UNCHANGED safe_tags
          \/ /\ ResultAllowed(SafeHelpers[x.imm], v)
             /\ safe_tags' = TagsAfterCall(ResultTag(SafeHelpers[x.imm], v))
          \/ safe_tags' = TagsAfterCall(safe_tags[0])
    BY <1>6, Zenon DEF SafeCallHelper
  <2>3. 0 \in Registers
    BY DEF Registers
  <2> QED
    BY <1>6, <2>1, <2>2, <2>3, Zenon DEF TagsAfterCall
<1>7. CASE SafeExitLocal
  BY <1>7, Zenon DEF SafeExitLocal
<1>8. CASE SafeStore \/ SafeJump \/ SafeCallLocal \/ SafeExitProgram
  BY <1>1, <1>8, Zenon DEF SafeStore, SafeJump, SafeCallLocal, SafeExitProgram, provenance
<1>9. CASE SafeEnter \/ SafeStops \/ AluRefused \/ SafeAccessRefused \/ HelperRefused
  BY <1>1, <1>9, IdleSteps, Zenon DEF provenance
<1> QED
  BY <1>2, <1>3, <1>4, <1>5, <1>6, <1>7, <1>8, <1>9, Zenon DEF SafeNext

\* There is always one tag for every register.
LEMMA OneTagEach ==
    ASSUME SafeTypeOK, SafeNext PROVE safe_tags' = [r \in Registers |-> safe_tags'[r]]
<1>0. safe_tags = [r \in Registers |-> safe_tags[r]]
  BY Zenon DEF SafeTypeOK
<1>1. CASE UNCHANGED safe_tags
  BY <1>0, <1>1, Zenon
<1>2. CASE SafeAlu32 \/ SafeAlu64 \/ SafeLddw \/ SafeLoad
  <2>1. PICK d, t : safe_tags' = [safe_tags EXCEPT ![d] = t]
    BY <1>2, Zenon DEF SafeAlu32, SafeAlu64, SafeLddw, SafeLoad
  <2> QED
    BY <1>0, <2>1, Zenon
<1>3. CASE SafeAtomic \/ SafeExitLocal
  BY <1>3, Zenon DEF SafeAtomic, SafeExitLocal
<1>4. CASE SafeCallHelper
  <2>1. UNCHANGED safe_tags \/ \E t : safe_tags' = TagsAfterCall(t)
    BY <1>4, Zenon DEF SafeCallHelper
  <2> QED
    BY <1>1, <2>1, Zenon DEF TagsAfterCall
<1>5. CASE SafeStore \/ SafeJump \/ SafeCallLocal \/ SafeExitProgram
  BY <1>1, <1>5, Zenon DEF SafeStore, SafeJump, SafeCallLocal, SafeExitProgram, provenance
<1>6. CASE SafeEnter \/ SafeStops \/ AluRefused \/ SafeAccessRefused \/ HelperRefused
  BY <1>1, <1>6, IdleSteps, Zenon DEF provenance
<1> QED
  BY <1>2, <1>3, <1>4, <1>5, <1>6, Zenon DEF SafeNext

\* Only a local call changes the tags that are kept in frames.
LEMMA FrameTags ==
    ASSUME SafeNext
    PROVE  UNCHANGED <<safe_frames, tagged_calls>> \/ SafeCallLocal
<1>1. CASE \/ SafeAlu32 \/ SafeAlu64 \/ SafeLddw \/ SafeLoad \/ SafeStore \/ SafeAtomic
           \/ SafeCallHelper \/ SafeExitLocal
  BY <1>1, Zenon DEF SafeAlu32, SafeAlu64, SafeLddw, SafeLoad, SafeStore, SafeAtomic, SafeCallHelper,
              SafeExitLocal, UntrackedCalls
<1>2. CASE SafeJump \/ SafeExitProgram
  BY <1>2, Zenon DEF SafeJump, SafeExitProgram, provenance
<1>3. CASE SafeEnter \/ SafeStops \/ AluRefused \/ SafeAccessRefused \/ HelperRefused
  BY <1>3, IdleSteps, Zenon DEF provenance
<1> QED
  BY <1>1, <1>2, <1>3, Zenon DEF SafeNext

\* Only stores, atomic operations and helpers change the stack and its slots.
LEMMA SlotTags ==
    ASSUME SafeNext
    PROVE  \/ UNCHANGED <<safe_spill_slots, stack_words>>
           \/ SafeStore \/ SafeAtomic
           \/ SafeCallHelper /\ UNCHANGED safe_spill_slots
<1>1. CASE SafeAlu32 \/ SafeAlu64 \/ SafeLddw \/ SafeLoad \/ SafeExitLocal
  BY <1>1, Zenon DEF SafeAlu32, SafeAlu64, SafeLddw, SafeLoad, SafeExitLocal, UntrackedMemory
<1>2. CASE SafeJump \/ SafeExitProgram \/ SafeCallLocal \/ SafeCallHelper
  BY <1>2, Zenon DEF SafeJump, SafeExitProgram, SafeCallLocal, SafeCallHelper, provenance
<1>3. CASE SafeEnter \/ SafeStops \/ AluRefused \/ SafeAccessRefused \/ HelperRefused
  BY <1>3, IdleSteps, Zenon DEF provenance
<1> QED
  BY <1>1, <1>2, <1>3, Zenon DEF SafeNext

\* A store that spills: the slot, and what it gets.
LEMMA SpillFacts ==
    ASSUME SafeTypeOK, Validated, SafeStore, Spills(prog[pc]),
           is_stack_pointer(safe_tags[prog[pc].dst])
    PROVE  LET slot == SlotAt(Address(prog[pc])) IN
           /\ slot \in Slots /\ 8 * slot + 8 <= set.stack_len
           /\ safe_spill_slots'[slot] = safe_tags[prog[pc].src]
           /\ stack_words'[slot] = reg[prog[pc].src]
<1> DEFINE x == prog[pc]
           slot == SlotAt(Address(x))
<1>1. TypeOK /\ Executes({"st", "stx"}) /\ Permitted(x)
  BY Zenon DEF SafeTypeOK, SafeStore
<1>2. x.op \in {"st", "stx"} /\ Address(x) \in Nat
  BY <1>1, AccessFacts, Zenon
<1>3. compute_access(safe_tags[x.dst], Address(x), x.sz, Required(x))
  BY <1>1, <1>2, Zenon DEF Permitted, BaseRegister
<1>4. slot \in Slots /\ 8 * slot + 8 <= set.stack_len
  BY <1>1, <1>2, <1>3, AlignedSlot DEF Spills
<1>5. DOMAIN safe_spill_slots = Slots /\ DOMAIN stack_words = Slots
  BY Zenon DEF SafeTypeOK
<1>6. safe_spill_slots' = [Invalidated(Address(x), x.sz) EXCEPT ![slot] = safe_tags[x.src]]
  BY Zenon DEF SafeStore
<1>7. stack_words' = [s \in DOMAIN stack_words |->
                         IF Spills(x) /\ s = slot THEN reg[x.src] ELSE Overwritten(Address(x), x.sz)[s]]
  BY Zenon DEF SafeStore
<1> QED
  BY <1>4, <1>5, <1>6, <1>7, Zenon DEF Invalidated

\* Any other slot a store or an atomic operation leaves valid is what it was.
LEMMA SlotKept ==
    ASSUME SafeTypeOK, SafeStore \/ SafeAtomic, NEW s \in Slots, safe_spill_slots'[s] # NoSpill,
           SafeStore => ~(/\ Spills(prog[pc]) /\ is_stack_pointer(safe_tags[prog[pc].dst])
                          /\ s = SlotAt(Address(prog[pc])))
    PROVE  /\ safe_spill_slots'[s] = safe_spill_slots[s]
           /\ \/ SafeStore /\ ~is_stack_pointer(safe_tags[prog[pc].dst])
              \/ s \notin SlotsOf(Address(prog[pc]), prog[pc].sz)
<1> DEFINE x == prog[pc]
           a == Address(x)
<1>1. DOMAIN safe_spill_slots = Slots
  BY Zenon DEF SafeTypeOK
<1>2. Invalidated(a, x.sz)[s] = IF s \in SlotsOf(a, x.sz) THEN NoSpill ELSE safe_spill_slots[s]
  BY <1>1, Zenon DEF Invalidated
<1>3. CASE SafeAtomic
  BY <1>2, <1>3, Zenon DEF SafeAtomic
<1>4. CASE SafeStore /\ ~is_stack_pointer(safe_tags[x.dst])
  BY <1>4, Zenon DEF SafeStore
<1>5. CASE SafeStore /\ is_stack_pointer(safe_tags[x.dst])
  <2>1. \/ safe_spill_slots' = Invalidated(a, x.sz)
        \/ Spills(x) /\ safe_spill_slots' = [Invalidated(a, x.sz) EXCEPT ![SlotAt(a)] = safe_tags[x.src]]
    BY <1>5, Zenon DEF SafeStore
  <2>2. safe_spill_slots'[s] = Invalidated(a, x.sz)[s]
    BY <1>1, <1>5, <2>1, Zenon DEF Invalidated
  <2> QED
    BY <1>2, <2>2, Zenon
<1> QED
  BY <1>3, <1>4, <1>5, Zenon

\* A call on a VM in the safe profile starts with the types right.
LEMMA SafeInitTyped == SafeInit => SafeTypeOK /\ Validated
<1> SUFFICES ASSUME SafeInit PROVE SafeTypeOK /\ Validated
  BY Zenon
<1>1. TypeOK /\ Validated
  BY InitTyped, Zenon DEF SafeInit
<1>2. \A id \in Int : /\ Pointer(id, Permissions, set.mem, set.mem_len) \in Tag
                      /\ Pointer(id, Permissions, set.stack, set.stack_len) \in Tag
  BY <1>1, SettingNumbers, Zenon DEF Pointer, Tag
<1>3. InputId \in Int /\ StackId \in Int
  BY DEF InputId, StackId
<1>4. safe_tags \in [Registers -> Tag]
  BY <1>2, <1>3, ScalarTyped, Zenon DEF SafeInit
<1>5. KeptTags \in [6 .. 10 -> Tag]
  BY <1>4 DEF KeptTags, Registers
<1>6. tagged_calls \in [0 .. MaxCallDepth - 1 -> [6 .. 10 -> Tag]]
  BY <1>5, Zenon DEF SafeInit
<1>7. /\ safe_frames \in [0 .. MaxCallDepth - 1 -> [Saved -> Tag]]
      /\ safe_spill_slots \in [Slots -> Tag \cup {NoSpill}]
      /\ stack_words \in [Slots -> Word \cup {Unknown}]
  BY ScalarTyped, Zenon DEF SafeInit
<1>8. helpers_write \in BOOLEAN
  BY Zenon DEF SafeInit
<1> QED
  BY <1>1, <1>4, <1>6, <1>7, <1>8, Zenon DEF SafeTypeOK

\* Every turn of the safe loop keeps the types.
LEMMA SafeStepTyped == SafeTypeOK /\ Validated /\ [SafeNext]_safeVars => SafeTypeOK' /\ Validated'
<1> SUFFICES ASSUME SafeTypeOK, Validated, [SafeNext]_safeVars PROVE SafeTypeOK' /\ Validated'
  BY Zenon
<1>1. CASE UNCHANGED safeVars
  BY <1>1, Zenon DEF safeVars, vars, locals, provenance, SafeTypeOK, TypeOK, Validated, Slots, SlotCount
<1> SUFFICES ASSUME SafeNext PROVE SafeTypeOK' /\ Validated'
  BY <1>1, Zenon
<1> DEFINE x == prog[pc]
<1>2. TypeOK' /\ Validated'
  BY BaseTyped, Zenon
<1>3. TypeOK /\ set' = set /\ helpers_write' \in BOOLEAN
  BY SettingFixed, Zenon DEF SafeTypeOK
<1>4. Slots' = Slots
  BY <1>3, Zenon DEF Slots, SlotCount
<1>5. safe_tags' \in [Registers -> Tag]
  <2>1. ASSUME NEW r \in Registers PROVE safe_tags'[r] \in Tag
    <3>1. \A s \in Slots : safe_spill_slots[s] # NoSpill => safe_spill_slots[s] \in Tag
      BY Zenon DEF SafeTypeOK
    <3>2. ASSUME SafeExitLocal, r \in Saved PROVE safe_frames[stack_frame_index - 1][r] \in Tag
      <4>1. stack_frame_index - 1 \in 0 .. MaxCallDepth - 1
        BY <1>3, <3>2, InterpAssumption DEF SafeExitLocal, ExitLocal, TypeOK
      <4> QED
        BY <3>2, <4>1, Zenon DEF SafeTypeOK
    <3>3. ASSUME NEW v \in HelperResults, HelperKnown(x.imm)
          PROVE  ResultTag(SafeHelpers[x.imm], v) \in Tag
      BY <3>3, ResultTyped, InterpAssumption, Zenon
    <3>4. \A q \in Registers : safe_tags[q] \in Tag
      BY Zenon DEF SafeTypeOK
    <3> QED
      BY <3>1, <3>2, <3>3, <3>4, ScalarTyped, RegisterTags, Zenon
  <2> QED
    BY <2>1, OneTagEach, Zenon
<1>6. /\ safe_frames' \in [0 .. MaxCallDepth - 1 -> [Saved -> Tag]]
      /\ tagged_calls' \in [0 .. MaxCallDepth - 1 -> [6 .. 10 -> Tag]]
  <2>1. CASE UNCHANGED <<safe_frames, tagged_calls>>
    BY <2>1, Zenon DEF SafeTypeOK
  <2>2. CASE SafeCallLocal
    <3>1. [r \in Saved |-> safe_tags[r]] \in [Saved -> Tag] /\ KeptTags \in [6 .. 10 -> Tag]
      BY DEF SafeTypeOK, KeptTags, Saved, Registers
    <3> QED
      BY <2>2, <3>1, Zenon DEF SafeCallLocal, SafeTypeOK
  <2> QED
    BY <2>1, <2>2, FrameTags, Zenon
<1>7. /\ safe_spill_slots' \in [Slots -> Tag \cup {NoSpill}]
      /\ stack_words' \in [Slots -> Word \cup {Unknown}]
  <2>1. /\ safe_spill_slots \in [Slots -> Tag \cup {NoSpill}]
        /\ stack_words \in [Slots -> Word \cup {Unknown}]
    BY Zenon DEF SafeTypeOK
  <2>2. ASSUME NEW a, NEW n
        PROVE  /\ Invalidated(a, n) \in [Slots -> Tag \cup {NoSpill}]
               /\ Overwritten(a, n) \in [Slots -> Word \cup {Unknown}]
    BY <2>1, Zenon DEF Invalidated, Overwritten
  <2>3. CASE UNCHANGED <<safe_spill_slots, stack_words>>
    BY <2>1, <2>3, Zenon
  <2>4. CASE SafeStore
    <3>1. x.src \in Registers
      BY <1>3, <2>4, AccessFacts, Zenon DEF SafeStore
    <3>2. safe_tags[x.src] \in Tag /\ reg[x.src] \in Word
      BY <3>1, Zenon DEF SafeTypeOK, TypeOK
    <3>3. safe_spill_slots' \in [Slots -> Tag \cup {NoSpill}]
      BY <2>1, <2>2, <2>4, <3>2, Zenon DEF SafeStore
    <3>4. stack_words' \in [Slots -> Word \cup {Unknown}]
      BY <2>1, <2>2, <2>4, <3>2 DEF SafeStore
    <3> QED
      BY <3>3, <3>4, Zenon
  <2>5. CASE SafeAtomic
    BY <2>2, <2>5, Zenon DEF SafeAtomic
  <2>6. CASE SafeCallHelper /\ UNCHANGED safe_spill_slots
    BY <2>1, <2>6, Zenon DEF SafeCallHelper
  <2> QED
    BY <2>3, <2>4, <2>5, <2>6, SlotTags, Zenon
<1> QED
  BY <1>2, <1>3, <1>4, <1>5, <1>6, <1>7, Zenon DEF SafeTypeOK

\* The types hold throughout every call on a VM in the safe profile.
THEOREM SafeTypeCorrect == SafeSpec => [](SafeTypeOK /\ Validated)
BY SafeInitTyped, SafeStepTyped, PTL DEF SafeSpec

-----------------------------------------------------------------------------
(* Provenance cannot be forged.                                            *)

\* The tag of a result that is allowed describes a part of the region its helper
\* is registered with.
LEMMA ResultGranted ==
    ASSUME TypeOK, NEW i, HelperKnown(i), NEW v \in Word, ResultAllowed(SafeHelpers[i], v)
    PROVE  Granted(ResultTag(SafeHelpers[i], v))
<1> DEFINE h == SafeHelpers[i]
           r == find_region_by_id(h.region_id)
<1>1. CASE h.result_kind = "scalar"
  BY <1>1, Zenon DEF ResultTag, Granted
<1>2. CASE h.result_kind # "scalar"
  <2>1. r \in Regions /\ r.id = h.region_id
    BY <1>2, KnownRegion, Zenon
  <2>2. h \in Helper /\ r \in Region
    BY <2>1, SafeAssumption, Zenon DEF HelperKnown, HelpersRegistered, RegionsRegistered
  <2>3. r.kind = h.result_kind /\ WindowInside(r, v, h.region_size)
    BY <1>2, Zenon DEF ResultAllowed
  <2>4. r.base \in Int /\ r.size \in Int /\ h.region_size \in Int /\ v \in Int
    BY <2>2, InterpAssumption DEF Region, Helper, Word
  <2>5. Within(v, h.region_size, r)
    BY <2>3, <2>4 DEF WindowInside, Within
  <2>6. ResultTag(h, v) = [kind |-> h.result_kind, region_id |-> h.region_id,
                           permissions |-> r.permissions, base |-> v, size |-> h.region_size]
    BY <1>2, Zenon DEF ResultTag
  <2>7. r \in Grants
    BY <2>1, Zenon DEF Grants
  <2> QED
    BY <2>1, <2>3, <2>5, <2>6, <2>7 DEF Granted
<1> QED
  BY <1>1, <1>2, Zenon

\* So does the tag of a whole grant.
LEMMA WholeGranted ==
    ASSUME NEW id, NEW base \in Nat, NEW size \in Nat, Grant(id, base, size) \in Grants
    PROVE  Granted(Pointer(id, Permissions, base, size))
<1> DEFINE g == Grant(id, base, size)
           t == Pointer(id, Permissions, base, size)
<1>1. /\ g.id = t.region_id /\ g.kind = t.kind /\ g.permissions = t.permissions
      /\ t.base = base /\ t.size = size /\ g.base = base /\ g.size = size
  BY Zenon DEF Grant, Pointer
<1>2. Within(t.base, t.size, g)
  BY <1>1 DEF Within
<1> QED
  BY <1>1, <1>2, Zenon DEF Granted

\* The tag of R10 when the call begins.
StackTag == Pointer(StackId, Permissions, set.stack, set.stack_len)

\* A tag describes a part of what was granted, and always the whole stack.
Traced(t) == Granted(t) /\ (t.region_id = StackId => t = StackTag)

\* Every tag does; this is what the turns of the loop preserve.
TagsTraced ==
    /\ \A r \in Registers : Traced(safe_tags[r])
    /\ \A k \in 0 .. MaxCallDepth - 1 : \A r \in Saved : Traced(safe_frames[k][r])
    /\ \A s \in DOMAIN safe_spill_slots :
          safe_spill_slots[s] # NoSpill => Traced(safe_spill_slots[s])

\* The tags that do not come from another tag.
LEMMA ScalarTraced == Traced(Scalar)
BY DEF Traced, Granted, Scalar, StackId

\* The ids of registered regions are not the reserved ones.
LEMMA ResultTraced ==
    ASSUME TypeOK, NEW i, HelperKnown(i), NEW v \in Word, ResultAllowed(SafeHelpers[i], v)
    PROVE  Traced(ResultTag(SafeHelpers[i], v))
<1> DEFINE h == SafeHelpers[i]
<1>1. h \in Helper
  BY SafeAssumption, Zenon DEF HelperKnown, HelpersRegistered
<1>2. ResultTag(h, v).region_id # StackId
  BY <1>1 DEF ResultTag, Scalar, Helper, StackId
<1> QED
  BY <1>2, ResultGranted, Zenon DEF Traced

\* Every turn of the loop copies tags, drops them, or gets one from a helper.
LEMMA TracedStep ==
    SafeTypeOK /\ Validated /\ TagsTraced /\ [SafeNext]_safeVars => TagsTraced'
<1> SUFFICES ASSUME SafeTypeOK, Validated, TagsTraced, [SafeNext]_safeVars PROVE TagsTraced'
  BY Zenon
<1>1. CASE UNCHANGED safeVars
  BY <1>1, ZenonT(60) DEF safeVars, vars, provenance, TagsTraced, Traced, StackTag, Granted, Grants
<1> SUFFICES ASSUME SafeNext PROVE TagsTraced'
  BY <1>1, Zenon
<1> DEFINE x == prog[pc]
<1>2. TypeOK /\ set' = set /\ Slots' = Slots
  BY SettingFixed, Zenon DEF SafeTypeOK, Slots, SlotCount
<1>3. Grants' = Grants
  BY <1>2, Zenon DEF Grants
<1>4. DOMAIN safe_spill_slots = Slots /\ DOMAIN safe_spill_slots' = Slots
  BY <1>2, SafeStepTyped, Zenon DEF SafeTypeOK
<1> SUFFICES /\ \A r \in Registers : Traced(safe_tags'[r])
             /\ \A k \in 0 .. MaxCallDepth - 1 : \A r \in Saved : Traced(safe_frames'[k][r])
             /\ \A s \in Slots : safe_spill_slots'[s] # NoSpill => Traced(safe_spill_slots'[s])
  BY <1>2, <1>3, <1>4, ZenonT(60) DEF TagsTraced, Traced, StackTag, Granted
<1>5. Traced(Scalar)
  BY ScalarTraced, Zenon
<1>6. /\ \A r \in Registers : Traced(safe_tags[r])
      /\ \A k \in 0 .. MaxCallDepth - 1 : \A r \in Saved : Traced(safe_frames[k][r])
      /\ \A s \in Slots : safe_spill_slots[s] # NoSpill => Traced(safe_spill_slots[s])
  BY <1>4, Zenon DEF TagsTraced
<1>7. ASSUME NEW r \in Registers PROVE Traced(safe_tags'[r])
  <2>1. ASSUME SafeExitLocal, r \in Saved PROVE Traced(safe_frames[stack_frame_index - 1][r])
    <3>1. stack_frame_index - 1 \in 0 .. MaxCallDepth - 1
      BY <1>2, <2>1, InterpAssumption DEF SafeExitLocal, ExitLocal, TypeOK
    <3> QED
      BY <1>6, <2>1, <3>1, Zenon
  <2>2. ASSUME NEW v \in HelperResults, HelperKnown(x.imm), ResultAllowed(SafeHelpers[x.imm], v)
        PROVE  Traced(ResultTag(SafeHelpers[x.imm], v))
    BY <1>2, <2>2, ResultTraced, InterpAssumption, Zenon
  <2> QED
    BY <1>5, <1>6, <2>1, <2>2, RegisterTags, Zenon
<1>8. ASSUME NEW k \in 0 .. MaxCallDepth - 1, NEW r \in Saved PROVE Traced(safe_frames'[k][r])
  <2>1. CASE UNCHANGED safe_frames
    BY <1>6, <2>1, Zenon
  <2>2. CASE SafeCallLocal
    <3>1. safe_frames' = [safe_frames EXCEPT ![stack_frame_index] = [q \in Saved |-> safe_tags[q]]]
      BY <2>2, Zenon DEF SafeCallLocal
    <3>2. safe_frames'[k][r] \in {safe_frames[k][r], safe_tags[r]} /\ r \in Registers
      BY <3>1 DEF SafeTypeOK, Saved, Registers
    <3> QED
      BY <1>6, <3>2, Zenon
  <2> QED
    BY <2>1, <2>2, FrameTags, Zenon
<1>9. ASSUME NEW s \in Slots, safe_spill_slots'[s] # NoSpill PROVE Traced(safe_spill_slots'[s])
  <2>1. CASE UNCHANGED safe_spill_slots
    BY <1>6, <1>9, <2>1, Zenon
  <2>2. CASE /\ SafeStore /\ Spills(x) /\ is_stack_pointer(safe_tags[x.dst])
             /\ s = SlotAt(Address(x))
    <3>1. x.src \in Registers
      BY <1>2, <2>2, AccessFacts, Zenon DEF SafeStore
    <3> QED
      BY <1>6, <2>2, <3>1, SpillFacts, Zenon
  <2>3. CASE /\ SafeStore \/ SafeAtomic
             /\ SafeStore => ~(/\ Spills(x) /\ is_stack_pointer(safe_tags[x.dst])
                               /\ s = SlotAt(Address(x)))
    BY <1>6, <1>9, <2>3, SlotKept, Zenon
  <2> QED
    BY <2>1, <2>2, <2>3, SlotTags, Zenon
<1> QED
  BY <1>7, <1>8, <1>9, Zenon

\* Every tag in play is traced throughout.
LEMMA TagsAlwaysTraced == SafeSpec => []TagsTraced
<1>1. SafeInit => TagsTraced
  <2> SUFFICES ASSUME SafeInit PROVE TagsTraced
    BY Zenon
  <2>1. TypeOK
    BY InitTyped, Zenon DEF SafeInit
  <2>2. Traced(StackTag)
    BY <2>1, SettingNumbers, WholeGranted, Zenon DEF Grants, StackTag, Traced
  <2>3. set.mem # 0 => Traced(Pointer(InputId, Permissions, set.mem, set.mem_len))
    <3>1. Pointer(InputId, Permissions, set.mem, set.mem_len).region_id # StackId
      BY DEF Pointer, InputId, StackId
    <3>2. set.mem # 0 => Granted(Pointer(InputId, Permissions, set.mem, set.mem_len))
      BY <2>1, SettingNumbers, WholeGranted, Zenon DEF Grants
    <3> QED
      BY <3>1, <3>2, Zenon DEF Traced
  <2>4. \A r \in Registers : Traced(safe_tags[r])
    BY <2>2, <2>3, ScalarTraced, Zenon DEF SafeInit, StackTag
  <2> QED
    BY <2>4, ScalarTraced, Zenon DEF SafeInit, TagsTraced
<1> QED
  BY <1>1, TracedStep, SafeTypeCorrect, PTL DEF SafeSpec

\* Whatever a program does, and whatever helpers write to the stack, every tag
\* describes a part of one region of the embedder, with its kind and permissions.
THEOREM TagsAlwaysGranted == SafeSpec => []TagsGranted
<1>1. TagsTraced => TagsGranted
  BY Zenon DEF TagsTraced, TagsGranted, Traced
<1> QED
  BY <1>1, TagsAlwaysTraced, PTL

-----------------------------------------------------------------------------
(* Accesses.                                                               *)

\* The turns of the loop that go on, and the access each of them makes.
LEMMA AccessSteps ==
    ASSUME SafeNext
    PROVE  /\ outcome' # "entered"
           /\ \/ accessed' = NoAccess
              \/ accessed' = accessed /\ (outcome' = "running" => outcome = "entered")
              \/ SafeLoad \/ SafeStore \/ SafeAtomic
<1>1. CASE SafeEnter \/ SafeStops \/ AluRefused \/ SafeAccessRefused \/ HelperRefused
  BY <1>1, IdleSteps, Zenon DEF locals
<1>2. CASE SafeAlu32 \/ SafeAlu64
  BY <1>2, Zenon DEF SafeAlu32, SafeAlu64, Alu, Continues, Plain
<1>3. CASE SafeLddw \/ SafeJump
  BY <1>3, Zenon DEF SafeLddw, SafeJump, Lddw, Jump, Continues, Plain
<1>4. CASE SafeCallLocal \/ SafeExitLocal
  BY <1>4, Zenon DEF SafeCallLocal, SafeExitLocal, CallLocal, ExitLocal, Continues
<1>5. CASE SafeExitProgram
  BY <1>5, Zenon DEF SafeExitProgram, ExitProgram, Plain
<1>6. CASE SafeLoad \/ SafeStore \/ SafeAtomic
  BY <1>6, Zenon DEF SafeLoad, SafeStore, SafeAtomic, Continues
<1>7. CASE SafeCallHelper
  BY <1>7, Zenon DEF SafeCallHelper, Plain
<1> QED
  BY <1>1, <1>2, <1>3, <1>4, <1>5, <1>6, <1>7, Zenon DEF SafeNext

\* A permitted access through a tag that was granted lies in the region granted.
LEMMA PermittedGranted ==
    ASSUME SafeTypeOK, Validated, TagsGranted, SafeLoad \/ SafeStore \/ SafeAtomic
    PROVE  \E g \in Grants :
              /\ g.kind = "pointer" /\ Required(prog[pc]) \subseteq g.permissions
              /\ Within(accessed'.start, accessed'.size, g)
<1> DEFINE x == prog[pc]
           t == safe_tags[BaseRegister(x)]
           a == Address(x)
<1>1. PICK ops \in SUBSET {"ldx", "st", "stx", "atomic"} : Executes(ops) /\ Permitted(x)
  BY Zenon DEF SafeLoad, SafeStore, SafeAtomic
<1>2. TypeOK /\ BaseRegister(x) \in Registers /\ a \in Nat /\ x.sz \in Nat
  BY <1>1, AccessFacts, Zenon DEF SafeTypeOK
<1>3. accessed' = [start |-> a, size |-> x.sz]
  <2>1. CASE SafeLoad
    BY <2>1, Zenon DEF SafeLoad, Executes, Accesses, Address, BaseRegister
  <2>2. CASE SafeStore \/ SafeAtomic
    BY <2>2, Zenon DEF SafeStore, SafeAtomic, Executes, Accesses, Address, BaseRegister
  <2> QED
    BY <2>1, <2>2, Zenon
<1>4. /\ t.kind = "pointer" /\ Required(x) \subseteq t.permissions
      /\ a >= t.base /\ a <= t.base + t.size - x.sz
  BY <1>1, Zenon DEF Permitted, compute_access
<1>5. t \in Tag /\ Granted(t)
  BY <1>2, Zenon DEF SafeTypeOK, TagsGranted
<1>6. t.base \in Int /\ t.size \in Int
  BY <1>5, InterpAssumption DEF Tag, Word
<1>7. t # Scalar
  BY <1>4 DEF Scalar
<1>8. PICK g \in Grants : /\ g.id = t.region_id /\ g.kind = t.kind
                          /\ g.permissions = t.permissions /\ Within(t.base, t.size, g)
  BY <1>5, <1>7, Zenon DEF Granted
<1>9. g.base \in Int /\ g.size \in Int
  <2>1. CASE g \in Regions
    BY <2>1, SafeAssumption, InterpAssumption DEF RegionsRegistered, Region, Word
  <2>2. CASE g \notin Regions
    BY <1>2, <2>2, SettingNumbers DEF Grants, Grant
  <2> QED
    BY <2>1, <2>2, Zenon
<1>10. Within(a, x.sz, g)
  BY <1>2, <1>4, <1>6, <1>8, <1>9 DEF Within
<1>11. Within(accessed'.start, accessed'.size, g)
  BY <1>3, <1>10, Zenon
<1> QED
  BY <1>4, <1>8, <1>11, Zenon

\* Every load, store and atomic operation stays inside one region that permits it.
THEOREM AccessesAlwaysGranted == SafeSpec => AccessesGranted
<1> DEFINE Quiet == outcome = "entered" => accessed = NoAccess
           Allowed == (outcome' = "running" /\ accessed' # NoAccess) =>
                         \E g \in Grants :
                            /\ g.kind = "pointer" /\ Required(prog[pc]) \subseteq g.permissions
                            /\ Within(accessed'.start, accessed'.size, g)
<1>1. SafeInit => Quiet
  BY Zenon DEF SafeInit, Init
<1>2. Quiet /\ [SafeNext]_safeVars => Quiet'
  <2>1. ASSUME SafeNext PROVE Quiet'
    BY <2>1, AccessSteps, Zenon
  <2>2. ASSUME Quiet, UNCHANGED safeVars PROVE Quiet'
    BY <2>2, Zenon DEF safeVars, vars, locals
  <2> QED
    BY <2>1, <2>2, Zenon
<1>3. SafeTypeOK /\ Validated /\ TagsGranted /\ Quiet /\ [SafeNext]_safeVars => [Allowed]_safeVars
  <2> SUFFICES ASSUME SafeTypeOK, Validated, TagsGranted, Quiet, SafeNext PROVE Allowed
    BY Zenon
  <2>1. CASE SafeLoad \/ SafeStore \/ SafeAtomic
    BY <2>1, PermittedGranted, Zenon
  <2>2. CASE ~(SafeLoad \/ SafeStore \/ SafeAtomic)
    BY <2>2, AccessSteps, Zenon
  <2> QED
    BY <2>1, <2>2, Zenon
<1> QED
  BY <1>1, <1>2, <1>3, SafeTypeCorrect, TagsAlwaysGranted, PTL DEF SafeSpec, AccessesGranted

\* An access inside the stack touches slots the array has, whatever its size and
\* however the stack ends.
LEMMA SlotsExist ==
    ASSUME TypeOK, NEW a \in Nat, NEW n \in Nat PROVE SlotsOf(a, n) \subseteq Slots
<1> SUFFICES ASSUME a >= set.stack, a + n <= set.stack + set.stack_len,
                    NEW s \in SlotAt(a) .. SlotAt(a + n - 1)
             PROVE  s \in Slots
  BY Zenon DEF SlotsOf
<1>1. set.stack \in Nat /\ set.stack_len \in Nat
  BY SettingNumbers, Zenon
<1> DEFINE b == a - set.stack
           c == a + n - 1 - set.stack
<1>2. b \in Int /\ c \in Int /\ b >= 0 /\ c < set.stack_len
  BY <1>1
<1>3. /\ b \div 8 \in Int /\ b % 8 \in 0 .. 7 /\ b = 8 * (b \div 8) + (b % 8)
      /\ c \div 8 \in Int /\ c % 8 \in 0 .. 7 /\ c = 8 * (c \div 8) + (c % 8)
  BY <1>2, Division, Zenon
<1>4. SlotAt(a) = b \div 8 /\ SlotAt(a + n - 1) = c \div 8
  BY <1>1 DEF SlotAt
<1> HIDE DEF b, c
<1>5. s \in Int /\ s >= b \div 8 /\ s <= c \div 8
  BY <1>3, <1>4
<1>6. s >= 0 /\ 8 * s < set.stack_len
  BY <1>1, <1>2, <1>3, <1>5
<1> QED
  BY <1>5, <1>6, SlotNumbers, Zenon

\* No access computes a slot outside the array of slots.
THEOREM SpillSlotsAlwaysInRange == SafeSpec => []SpillSlotsInRange
<1>1. SafeTypeOK => SpillSlotsInRange
  <2> SUFFICES ASSUME SafeTypeOK
               PROVE  SlotsOf(accessed.start, accessed.size) \subseteq DOMAIN safe_spill_slots
    BY Zenon DEF SpillSlotsInRange
  <2>1. TypeOK /\ DOMAIN safe_spill_slots = Slots
    BY Zenon DEF SafeTypeOK
  <2>2. accessed.start \in Nat /\ accessed.size \in Nat
    BY <2>1, InterpAssumption DEF TypeOK, Word
  <2> QED
    BY <2>1, <2>2, SlotsExist, Zenon
<1> QED
  BY <1>1, SafeTypeCorrect, PTL

-----------------------------------------------------------------------------
(* Spilled words.                                                          *)

\* The bytes from base on and the stack of a call have none in common.
Apart(base, size, c) == base + size <= c.stack \/ base >= c.stack + c.stack_len

\* The embedder grants no part of the stack a second time: neither as the input of
\* the call nor as a region.
StackApart ==
    \A c \in Settings :
        /\ c.mem # 0 => Apart(c.mem, c.mem_len, c)
        /\ \A r \in Regions : Apart(r.base, r.size, c)

\* A write through any other pointer misses every complete word of the stack.
LEMMA OtherWritesMiss ==
    ASSUME StackApart, TypeOK, NEW t \in Tag, NEW a \in Nat, NEW n \in Nat, NEW required,
           Traced(t), compute_access(t, a, n, required), ~is_stack_pointer(t),
           NEW s \in Nat, 8 * s + 8 <= set.stack_len
    PROVE  ~Touches(s, a, n)
<1>1. t.kind = "pointer" /\ a >= t.base /\ a <= t.base + t.size - n
  BY Zenon DEF compute_access
<1>2. t.base \in Nat /\ t.size \in Nat
  BY InterpAssumption DEF Tag, Word
<1>3. t.region_id # StackId
  BY DEF Traced, StackTag, Pointer, is_stack_pointer
<1>4. t # Scalar
  BY <1>1 DEF Scalar
<1>5. PICK g \in Grants : g.id = t.region_id /\ Within(t.base, t.size, g)
  BY <1>4, Zenon DEF Traced, Granted
<1>6. g.base \in Nat /\ g.size \in Nat /\ Apart(g.base, g.size, set)
  <2>1. CASE g \in Regions
    BY <2>1, SafeAssumption, InterpAssumption, SettingNumbers DEF RegionsRegistered, Region, Word, StackApart
  <2>2. CASE g = Grant(InputId, set.mem, set.mem_len) /\ set.mem # 0
    BY <2>2, SettingNumbers, Zenon DEF Grant, StackApart
  <2>3. g # Grant(StackId, set.stack, set.stack_len)
    BY <1>3, <1>5 DEF Grant
  <2> QED
    BY <2>1, <2>2, <2>3, Zenon DEF Grants
<1>7. set.stack \in Nat /\ set.stack_len \in Nat
  BY SettingNumbers, Zenon
<1>8. a >= g.base /\ a + n <= g.base + g.size
  BY <1>1, <1>2, <1>5, <1>6 DEF Within
<1> QED
  BY <1>6, <1>7, <1>8 DEF Apart, Touches

\* A write through a stack pointer invalidates every slot it touches.
LEMMA StackWritesCover ==
    ASSUME TypeOK, NEW t, NEW a \in Nat, NEW n \in Nat, NEW required,
           compute_access(t, a, n, required), is_stack_pointer(t),
           NEW s \in Nat, Touches(s, a, n)
    PROVE  s \in SlotsOf(a, n)
<1>1. set.stack \in Nat /\ set.stack_len \in Nat
  BY SettingNumbers, Zenon
<1>2. a >= set.stack /\ a <= set.stack + set.stack_len - n
  BY Zenon DEF compute_access, is_stack_pointer
<1>3. a + n <= set.stack + set.stack_len
  BY <1>1, <1>2
<1> DEFINE b == a - set.stack
           c == a + n - 1 - set.stack
<1>4. b \in Int /\ c \in Int /\ 8 * s <= c /\ b < 8 * s + 8
  BY <1>1 DEF Touches
<1>5. /\ b \div 8 \in Int /\ b % 8 \in 0 .. 7 /\ b = 8 * (b \div 8) + (b % 8)
      /\ c \div 8 \in Int /\ c % 8 \in 0 .. 7 /\ c = 8 * (c \div 8) + (c % 8)
  BY <1>4, Division, Zenon
<1>6. SlotAt(a) = b \div 8 /\ SlotAt(a + n - 1) = c \div 8
  BY <1>1 DEF SlotAt
<1> HIDE DEF b, c
<1>7. s \in b \div 8 .. c \div 8
  BY <1>4, <1>5
<1> QED
  BY <1>2, <1>3, <1>6, <1>7, Zenon DEF SlotsOf

\* A valid slot is a complete word of the stack.
SpillsComplete ==
    \A s \in Slots : safe_spill_slots[s] # NoSpill => 8 * s + 8 <= set.stack_len

\* A slot that is valid after a write was just spilled, or neither the slot nor the
\* word changed.
LEMMA WriteRespectsSpills ==
    ASSUME StackApart, SafeTypeOK, Validated, TagsTraced, SpillsComplete,
           SafeStore \/ SafeAtomic, NEW s \in Slots, safe_spill_slots'[s] # NoSpill
    PROVE  \/ /\ safe_spill_slots[s] # NoSpill
              /\ safe_spill_slots'[s] = safe_spill_slots[s] /\ stack_words'[s] = stack_words[s]
           \/ /\ prog[pc].src \in Registers /\ 8 * s + 8 <= set.stack_len
              /\ safe_spill_slots'[s] = safe_tags[prog[pc].src]
              /\ stack_words'[s] = reg[prog[pc].src]
<1> DEFINE x == prog[pc]
           a == Address(x)
           t == safe_tags[x.dst]
           Spilled == SafeStore /\ Spills(x) /\ is_stack_pointer(t) /\ s = SlotAt(a)
<1>1. TypeOK /\ DOMAIN safe_spill_slots = Slots /\ DOMAIN stack_words = Slots
  BY Zenon DEF SafeTypeOK
<1>2. PICK ops \in SUBSET {"st", "stx", "atomic"} : Executes(ops) /\ Permitted(x)
  BY Zenon DEF SafeStore, SafeAtomic
<1>3. /\ x.op \in {"st", "stx", "atomic"} /\ a \in Nat /\ x.sz \in Nat
      /\ x.src \in Registers /\ x.dst \in Registers
  BY <1>1, <1>2, AccessFacts, Zenon
<1>4. CASE Spilled
  BY <1>3, <1>4, SpillFacts, Zenon
<1>5. CASE ~Spilled
  <2>1. /\ safe_spill_slots'[s] = safe_spill_slots[s]
        /\ \/ ~is_stack_pointer(t)
           \/ s \notin SlotsOf(a, x.sz)
    BY <1>5, SlotKept, Zenon
  <2>2. t \in Tag /\ Traced(t) /\ compute_access(t, a, x.sz, Required(x))
    BY <1>2, <1>3, Zenon DEF SafeTypeOK, TagsTraced, Permitted, BaseRegister
  <2>3. s \in Nat /\ 8 * s + 8 <= set.stack_len
    BY <2>1 DEF SpillsComplete, Slots
  <2>4. ~Touches(s, a, x.sz)
    BY <1>1, <1>3, <2>1, <2>2, <2>3, OtherWritesMiss, StackWritesCover, Zenon
  <2>5. ~(Aligned(a, x.sz) /\ s = SlotAt(a))
    <3> SUFFICES ASSUME Aligned(a, x.sz), s = SlotAt(a) PROVE FALSE
      BY Zenon
    <3>1. set.stack \in Nat /\ a - set.stack \in Int /\ (a - set.stack) % 8 = 0 /\ x.sz = 8
      BY <1>1, <1>3, SettingNumbers DEF Aligned
    <3>2. a - set.stack = 8 * s
      BY <3>1, Division DEF SlotAt
    <3> QED
      BY <1>3, <2>3, <2>4, <3>1, <3>2 DEF Touches
  <2>6. stack_words'[s] = stack_words[s]
    <3>1. Overwritten(a, x.sz)[s] = stack_words[s]
      BY <1>1, <2>4, Zenon DEF Overwritten
    <3>2. CASE SafeStore
      BY <1>1, <2>5, <3>1, <3>2, Zenon DEF SafeStore, Spills
    <3>3. CASE SafeAtomic
      BY <3>1, <3>3, Zenon DEF SafeAtomic
    <3> QED
      BY <3>2, <3>3, Zenon
  <2> QED
    BY <2>1, <2>6, Zenon
<1> QED
  BY <1>4, <1>5, Zenon

\* Every turn of the loop keeps valid slots and the stack in step.
LEMMA SpillStep ==
    ASSUME StackApart, SafeTypeOK, Validated, TagsTraced, SpillsComplete, SpillsTrackMemory,
           [SafeNext]_safeVars
    PROVE  SpillsComplete' /\ SpillsTrackMemory'
<1>1. CASE UNCHANGED safeVars
  BY <1>1, Zenon DEF safeVars, vars, provenance, SpillsComplete, SpillsTrackMemory, Slots, SlotCount
<1> SUFFICES ASSUME SafeNext PROVE SpillsComplete' /\ SpillsTrackMemory'
  BY <1>1, Zenon
<1>2. set' = set /\ helpers_write' = helpers_write /\ Slots' = Slots
  BY SettingFixed, Zenon DEF Slots, SlotCount
<1>3. DOMAIN safe_spill_slots = Slots /\ DOMAIN safe_spill_slots' = Slots
  BY <1>2, SafeStepTyped, Zenon DEF SafeTypeOK
<1>4. ASSUME NEW s \in Slots, safe_spill_slots'[s] # NoSpill
      PROVE  8 * s + 8 <= set.stack_len /\ (~helpers_write => stack_words'[s] # Unknown)
  <2>1. safe_spill_slots[s] # NoSpill =>
           8 * s + 8 <= set.stack_len /\ (~helpers_write => stack_words[s] # Unknown)
    BY <1>3, Zenon DEF SpillsComplete, SpillsTrackMemory
  <2>2. CASE UNCHANGED <<safe_spill_slots, stack_words>>
    BY <1>4, <2>1, <2>2, Zenon
  <2>3. CASE SafeCallHelper /\ UNCHANGED safe_spill_slots
    BY <1>4, <2>1, <2>3, Zenon DEF SafeCallHelper
  <2>4. CASE SafeStore \/ SafeAtomic
    <3>1. \A q \in Registers : reg[q] # Unknown
      BY InterpAssumption DEF SafeTypeOK, TypeOK, Word, Unknown
    <3> QED
      BY <1>4, <2>1, <2>4, <3>1, WriteRespectsSpills, Zenon
  <2> QED
    BY <2>2, <2>3, <2>4, SlotTags, Zenon
<1> QED
  BY <1>2, <1>3, <1>4, Zenon DEF SpillsComplete, SpillsTrackMemory

\* A valid slot always stands for a word no later write has touched, when no part
\* of the stack is granted twice.
THEOREM SpillsAlwaysTrackMemory ==
    ASSUME StackApart
    PROVE  SafeSpec => [](SpillsComplete /\ SpillsTrackMemory)
<1>1. SafeInit => SpillsComplete /\ SpillsTrackMemory
  BY Zenon DEF SafeInit, SpillsComplete, SpillsTrackMemory
<1>2. /\ SafeTypeOK /\ Validated /\ TagsTraced /\ SpillsComplete /\ SpillsTrackMemory
      /\ [SafeNext]_safeVars
      => SpillsComplete' /\ SpillsTrackMemory'
  BY SpillStep, Zenon
<1> QED
  BY <1>1, <1>2, SafeTypeCorrect, TagsAlwaysTraced, PTL DEF SafeSpec

-----------------------------------------------------------------------------
(* Values and their tags.                                                  *)

\* What each turn of the loop does to the pending calls.
LEMMA SafeFrameStep ==
    ASSUME SafeTypeOK, Validated, SafeNext
    PROVE  \/ SafeCallLocal \/ SafeExitLocal
           \/ /\ stack_frame_index' = stack_frame_index /\ calls' = calls
              /\ \A k \in 0 .. stack_frame_index - 1 : stack_frames'[k] = stack_frames[k]
              /\ ~FramePointerFetched(prog) =>
                    reg'[10] = reg[10] /\ safe_tags'[10] = safe_tags[10]
<1> DEFINE x == prog[pc]
           Same == /\ stack_frame_index' = stack_frame_index /\ calls' = calls
                   /\ \A k \in 0 .. stack_frame_index - 1 : stack_frames'[k] = stack_frames[k]
           Ten == reg'[10] = reg[10] /\ safe_tags'[10] = safe_tags[10]
<1>1. TypeOK /\ safe_tags \in [Registers -> Tag] /\ reg \in [Registers -> Word] /\ 10 \in Registers
  BY DEF SafeTypeOK, TypeOK, Registers
<1>2. CASE SafeEnter \/ SafeStops \/ AluRefused \/ SafeAccessRefused \/ HelperRefused
  BY <1>2, IdleSteps, Zenon DEF locals, provenance
<1>3. ASSUME NEW ops, Executes(ops), stack_frames' = HeadFrames,
             UNCHANGED <<stack_frame_index, calls>>
      PROVE  Same
  <2>1. \A k \in 0 .. stack_frame_index - 1 : k \in 0 .. MaxCallDepth - 1 /\ k # stack_frame_index
    BY <1>1, InterpAssumption, SMTT(20) DEF TypeOK
  <2>2. pc \in DOMAIN prog
    BY <1>3, Zenon DEF Executes, Inside
  <2> QED
    BY <1>1, <1>3, <2>1, <2>2, HeadKeepsFrames, Zenon
<1>4. ASSUME NEW v, NEW t, reg' = [reg EXCEPT ![x.dst] = v],
             safe_tags' = [safe_tags EXCEPT ![x.dst] = t],
             Executes(AluOps \cup {"lddw", "ldx"})
      PROVE  Ten
  <2>1. pc \in DOMAIN prog /\ x.op \in AluOps \cup {"lddw", "ldx"}
    BY <1>4, Zenon DEF Executes, Inside
  <2>2. x.dst \in 0 .. 9
    BY <2>1, FetchedInstruction, Zenon DEF AluOps, ImmOps, RegOps
  <2> QED
    BY <1>1, <1>4, <2>2
<1>5. ASSUME NEW ops, NEW more, ops \subseteq more, Executes(ops) PROVE Executes(more)
  BY <1>5, Zenon DEF Executes
<1>6. CASE SafeAlu32 \/ SafeAlu64
  <2>1. Alu /\ \E t : safe_tags' = [safe_tags EXCEPT ![x.dst] = t]
    BY <1>6, Zenon DEF SafeAlu32, SafeAlu64
  <2>2. /\ Executes(AluOps) /\ stack_frames' = HeadFrames /\ UNCHANGED <<stack_frame_index, calls>>
        /\ \E v : reg' = [reg EXCEPT ![x.dst] = v]
    BY <2>1, Zenon DEF Alu, Plain
  <2> QED
    BY <1>3, <1>4, <1>5, <2>1, <2>2, ZenonT(60)
<1>7. CASE SafeLddw
  <2>1. /\ Executes({"lddw"}) /\ stack_frames' = HeadFrames /\ UNCHANGED <<stack_frame_index, calls>>
        /\ \E v : reg' = [reg EXCEPT ![x.dst] = v]
        /\ \E t : safe_tags' = [safe_tags EXCEPT ![x.dst] = t]
    BY <1>7, Zenon DEF SafeLddw, Lddw, Plain
  <2> QED
    BY <1>3, <1>4, <1>5, <2>1, ZenonT(60)
<1>8. CASE SafeLoad
  <2>1. /\ Executes({"ldx"}) /\ stack_frames' = HeadFrames /\ UNCHANGED <<stack_frame_index, calls>>
        /\ \E v : reg' = [reg EXCEPT ![x.dst] = v]
        /\ \E t : safe_tags' = [safe_tags EXCEPT ![x.dst] = t]
    BY <1>8, Zenon DEF SafeLoad
  <2> QED
    BY <1>3, <1>4, <1>5, <2>1, ZenonT(60)
<1>9. CASE SafeStore \/ SafeJump \/ SafeExitProgram
  <2>1. /\ \E ops : Executes(ops)
        /\ stack_frames' = HeadFrames /\ UNCHANGED <<stack_frame_index, calls, reg, safe_tags>>
    BY <1>9, Zenon DEF SafeStore, SafeJump, SafeExitProgram, Jump, ExitProgram, Plain, provenance
  <2> QED
    BY <1>3, <2>1, Zenon
<1>10. CASE SafeAtomic
  <2>1. Executes({"atomic"}) /\ stack_frames' = HeadFrames /\ UNCHANGED <<stack_frame_index, calls>>
    BY <1>10, Zenon DEF SafeAtomic
  <2>2. ~FramePointerFetched(prog) => 10 \notin FetchRegisters(x)
    BY <2>1, Zenon DEF FramePointerFetched, Executes, Inside
  <2>3. 10 \notin FetchRegisters(x) => Ten
    BY <1>1, <1>10 DEF SafeAtomic
  <2> QED
    BY <1>3, <2>1, <2>2, <2>3, Zenon
<1>11. CASE SafeCallHelper
  <2>1. /\ Executes({"call"}) /\ stack_frames' = HeadFrames /\ UNCHANGED <<stack_frame_index, calls>>
        /\ \E v : reg' = [reg EXCEPT ![0] = v]
    BY <1>11, Zenon DEF SafeCallHelper, Plain
  <2>2. UNCHANGED safe_tags \/ \E t : safe_tags' = TagsAfterCall(t)
    BY <1>11, Zenon DEF SafeCallHelper
  <2>3. Ten
    BY <1>1, <2>1, <2>2 DEF TagsAfterCall
  <2> QED
    BY <1>3, <2>1, <2>3, Zenon
<1> QED
  BY <1>2, <1>6, <1>7, <1>8, <1>9, <1>10, <1>11, Zenon DEF SafeNext

\* R10 is tagged as the stack pointer or, once an atomic operation fetched into it,
\* as a scalar.
FramePointerTagged == safe_tags[10] \in {Scalar, StackTag}

\* The tag of R10 changes only in that way.
LEMMA FramePointerStep ==
    ASSUME SafeTypeOK, Validated, FramePointerTagged, SafeNext
    PROVE  FramePointerTagged'
<1> DEFINE x == prog[pc]
<1>1. TypeOK /\ safe_tags \in [Registers -> Tag] /\ 10 \in Registers /\ 10 \notin Saved
  BY DEF SafeTypeOK, Registers, Saved
<1>2. StackTag' = StackTag
  BY SettingFixed, Zenon DEF StackTag
<1> SUFFICES safe_tags'[10] \in {Scalar, safe_tags[10]}
  BY <1>2, Zenon DEF FramePointerTagged
<1>3. CASE SafeCallLocal
  BY <1>3, Zenon DEF SafeCallLocal
<1>4. CASE SafeExitLocal
  BY <1>1, <1>4, Zenon DEF SafeExitLocal
<1>5. CASE SafeAtomic
  BY <1>1, <1>5, Zenon DEF SafeAtomic
<1>6. CASE SafeAlu32 \/ SafeAlu64 \/ SafeLddw \/ SafeLoad
  <2>1. \E t : safe_tags' = [safe_tags EXCEPT ![x.dst] = t]
    BY <1>6, Zenon DEF SafeAlu32, SafeAlu64, SafeLddw, SafeLoad
  <2>2. pc \in DOMAIN prog /\ x.op \in AluOps \cup {"lddw", "ldx"}
    BY <1>6, Zenon DEF SafeAlu32, SafeAlu64, SafeLddw, SafeLoad, Alu, Lddw, Executes, Inside
  <2>3. x.dst \in 0 .. 9
    BY <2>2, FetchedInstruction, Zenon DEF AluOps, ImmOps, RegOps
  <2> QED
    BY <1>1, <2>1, <2>3
<1>7. CASE SafeCallHelper
  <2>1. UNCHANGED safe_tags \/ \E t : safe_tags' = TagsAfterCall(t)
    BY <1>7, Zenon DEF SafeCallHelper
  <2> QED
    BY <1>1, <2>1 DEF TagsAfterCall
<1>8. CASE SafeStore \/ SafeJump \/ SafeExitProgram
  BY <1>8, Zenon DEF SafeStore, SafeJump, SafeExitProgram, provenance
<1>9. CASE SafeEnter \/ SafeStops \/ AluRefused \/ SafeAccessRefused \/ HelperRefused
  BY <1>9, IdleSteps, Zenon DEF provenance
<1> QED
  BY <1>3, <1>4, <1>5, <1>6, <1>7, <1>8, <1>9, Zenon DEF SafeNext

\* A value is one its tag stands for.
ValueFits(t, v) ==
    /\ t.kind = "pointer" /\ t.region_id # StackId => v >= t.base /\ v <= t.base + t.size
    /\ t.kind = "handle" => v = t.base

\* While the call is in progress and helpers leave the stack alone, this is true of
\* the registers, of what pending calls saved, and of the spilled words.
RegistersFit == \A r \in Registers : ValueFits(safe_tags[r], reg[r])
FramesFit ==
    \A k \in 0 .. stack_frame_index - 1 : \A r \in Saved :
        ValueFits(safe_frames[k][r], stack_frames[k].saved_registers[r])
SlotsFit ==
    \A s \in Slots : safe_spill_slots[s] # NoSpill => ValueFits(safe_spill_slots[s], stack_words[s])
ValuesFit ==
    (outcome \in {"entered", "running"} /\ ~helpers_write) => RegistersFit /\ FramesFit /\ SlotsFit

\* Any value fits a scalar and the stack pointer.
LEMMA AnyValueFits == \A v : ValueFits(Scalar, v) /\ ValueFits(StackTag, v)
BY Zenon DEF ValueFits, Scalar, StackTag, Pointer

\* A value a helper returned fits the tag it gets.
LEMMA ResultFits ==
    ASSUME NEW i, HelperKnown(i), NEW v \in Word
    PROVE  ValueFits(ResultTag(SafeHelpers[i], v), v)
<1> DEFINE h == SafeHelpers[i]
<1>1. CASE h.result_kind = "scalar"
  BY <1>1, AnyValueFits, Zenon DEF ResultTag
<1>2. CASE h.result_kind # "scalar"
  <2>1. h.region_size \in Nat /\ v \in Nat
    BY SafeAssumption, InterpAssumption DEF HelperKnown, HelpersRegistered, Helper, Word
  <2>2. ResultTag(h, v).base = v /\ ResultTag(h, v).size = h.region_size
    BY <1>2, Zenon DEF ResultTag
  <2> QED
    BY <2>1, <2>2 DEF ValueFits
<1> QED
  BY <1>1, <1>2, Zenon

\* So does the result of an arithmetic instruction that is not refused.
LEMMA ComputedFits ==
    ASSUME NEW x \in Instructions, NEW d, NEW s, NEW vd \in Word, NEW vs \in Word,
           NEW t \in Tag, x.op \in AluOps, ValueFits(s, vs), AluTag(x, d, s, Compute(x, vd, vs), t)
    PROVE  ValueFits(t, Compute(x, vd, vs))
<1> DEFINE v == Compute(x, vd, vs)
<1>1. CASE t = Scalar
  BY <1>1, AnyValueFits, Zenon
<1>2. CASE x.sz = 8 /\ x.op = "mov_reg" /\ x.off = 0 /\ t = s
  BY <1>2, SafeAssumption, Zenon DEF MovesCopy
<1>3. CASE t.kind = "pointer" /\ PointerOffset(t, v)
  <2>1. t.base \in Int /\ t.size \in Int /\ v \in Int
    BY InterpAssumption DEF Tag, Word
  <2> QED
    BY <1>3, <2>1 DEF PointerOffset, ValueFits
<1> QED
  BY <1>1, <1>2, <1>3, Zenon DEF AluTag, Both

\* The value of a register after a turn of the loop that goes on fits its tag.
LEMMA RegistersFitStep ==
    ASSUME SafeTypeOK, Validated, SpillsTrackMemory, FramePointerTagged, ~helpers_write,
           RegistersFit, FramesFit, SlotsFit, SafeNext, outcome' = "running"
    PROVE  \A r \in Registers : ValueFits(safe_tags'[r], reg'[r])
<1> DEFINE x == prog[pc]
<1>1. /\ TypeOK /\ safe_tags \in [Registers -> Tag] /\ reg \in [Registers -> Word]
      /\ DOMAIN stack_words = Slots /\ DOMAIN safe_spill_slots = Slots
      /\ \A r \in Registers : safe_tags[r] \in Tag /\ reg[r] \in Word
  BY Zenon DEF SafeTypeOK, TypeOK
<1>2. \A r \in Registers : ValueFits(safe_tags[r], reg[r])
  BY Zenon DEF RegistersFit
<1>3. \A v : ValueFits(Scalar, v)
  BY AnyValueFits, Zenon
<1>4. CASE UNCHANGED <<safe_tags, reg>>
  BY <1>2, <1>4, Zenon
<1>5. ASSUME NEW v, NEW t, ValueFits(t, v), reg' = [reg EXCEPT ![x.dst] = v],
             safe_tags' = [safe_tags EXCEPT ![x.dst] = t]
      PROVE  \A r \in Registers : ValueFits(safe_tags'[r], reg'[r])
  BY <1>1, <1>2, <1>5, Zenon
<1>6. CASE SafeAlu32 \/ SafeAlu64
  <2>1. Alu /\ \E t \in AluTags(x) : safe_tags' = [safe_tags EXCEPT ![x.dst] = t]
    BY <1>6, Zenon DEF SafeAlu32, SafeAlu64
  <2>2. PICK t \in AluTags(x) : safe_tags' = [safe_tags EXCEPT ![x.dst] = t]
    BY <2>1, Zenon
  <2>3. pc \in DOMAIN prog /\ x.op \in AluOps
    BY <2>1, Zenon DEF Alu, Executes, Inside
  <2>4. x \in Instructions /\ x.src \in Registers /\ x.dst \in Registers
    BY <2>3, FetchedInstruction, Zenon DEF AluOps, ImmOps, RegOps
  <2> DEFINE v == Compute(x, reg[x.dst], reg[x.src])
  <2>5. /\ t \in {Scalar, safe_tags[x.dst], safe_tags[x.src]}
        /\ AluTag(x, safe_tags[x.dst], safe_tags[x.src], v, t)
    BY Zenon DEF AluTags
  <2>6. t \in Tag
    BY <1>1, <2>4, <2>5, ScalarTyped, Zenon
  <2>7. ValueFits(t, v)
    BY <1>1, <1>2, <2>3, <2>4, <2>5, <2>6, ComputedFits, Zenon
  <2>8. reg' = [reg EXCEPT ![x.dst] = v]
    BY <2>1, Zenon DEF Alu
  <2> QED
    BY <1>5, <2>2, <2>7, <2>8, Zenon
<1>7. CASE SafeLddw
  BY <1>3, <1>5, <1>7, Zenon DEF SafeLddw, Lddw
<1>8. CASE SafeLoad
  <2>1. /\ Executes({"ldx"}) /\ Permitted(x)
        /\ safe_tags' = [safe_tags EXCEPT ![x.dst] = Reloaded(x)]
        /\ \E v \in Found(x) : reg' = [reg EXCEPT ![x.dst] = v]
    BY <1>8, Zenon DEF SafeLoad
  <2>2. PICK v \in Found(x) : reg' = [reg EXCEPT ![x.dst] = v]
    BY <2>1, Zenon
  <2> DEFINE slot == SlotAt(Address(x))
  <2>3. CASE Reloaded(x) = Scalar
    BY <1>3, <1>5, <2>1, <2>2, <2>3, Zenon
  <2>4. CASE /\ slot \in Slots /\ safe_spill_slots[slot] # NoSpill
             /\ Reloaded(x) = safe_spill_slots[slot] /\ Aligned(Address(x), x.sz)
    <3>1. stack_words[slot] # Unknown
      BY <1>1, <2>4, Zenon DEF SpillsTrackMemory
    <3>2. v = stack_words[slot]
      BY <1>1, <2>4, <3>1, Zenon DEF Found
    <3>3. ValueFits(Reloaded(x), v)
      BY <2>4, <3>2, Zenon DEF SlotsFit
    <3> QED
      BY <1>5, <2>1, <2>2, <3>3, Zenon
  <2> QED
    BY <2>1, <2>3, <2>4, ReloadedFrom, Zenon
<1>9. CASE SafeAtomic
  BY <1>2, <1>3, <1>9, Zenon DEF SafeAtomic
<1>10. CASE SafeCallHelper
  <2>1. PICK v \in HelperResults :
           /\ reg' = [reg EXCEPT ![0] = v]
           /\ safe_tags' = TagsAfterCall(ResultTag(SafeHelpers[x.imm], v))
    BY <1>10, Zenon DEF SafeCallHelper
  <2>2. HelperKnown(x.imm) /\ v \in Word
    BY <1>10, InterpAssumption, Zenon DEF SafeCallHelper
  <2>3. ValueFits(ResultTag(SafeHelpers[x.imm], v), v)
    BY <2>2, ResultFits, Zenon
  <2> QED
    BY <1>1, <1>2, <1>3, <2>1, <2>3, Zenon DEF TagsAfterCall
<1>11. CASE SafeCallLocal
  <2>1. UNCHANGED safe_tags /\ \E v : reg' = [reg EXCEPT ![10] = v]
    BY <1>11, Zenon DEF SafeCallLocal, CallLocal
  <2>2. \A v : ValueFits(safe_tags[10], v)
    BY AnyValueFits, Zenon DEF FramePointerTagged
  <2> QED
    BY <1>1, <1>2, <2>1, <2>2, Zenon
<1>12. CASE SafeExitLocal
  <2> DEFINE top == stack_frame_index - 1
  <2>1. /\ pc \in DOMAIN prog /\ top \in 0 .. stack_frame_index - 1 /\ top \in 0 .. MaxCallDepth - 1
        /\ top # stack_frame_index
    BY <1>1, <1>12, InterpAssumption DEF SafeExitLocal, ExitLocal, Executes, Inside, TypeOK
  <2>2. HeadFrames[top] = stack_frames[top]
    BY <1>1, <2>1, HeadKeepsFrames, Zenon
  <2>3. /\ \A r \in Saved : reg'[r] = stack_frames[top].saved_registers[r]
        /\ \A r \in Registers : r \in Saved \/ r = 10 \/ reg'[r] = reg[r]
    BY <1>12, <2>2 DEF SafeExitLocal, ExitLocal, Saved, Registers
  <2>4. \A r \in Saved : ValueFits(safe_frames[top][r], stack_frames[top].saved_registers[r])
    BY <2>1, Zenon DEF FramesFit
  <2>5. \A v : ValueFits(safe_tags[10], v)
    BY AnyValueFits DEF FramePointerTagged
  <2>6. \A r \in Registers : safe_tags'[r] = IF r \in 1 .. 5 THEN Scalar
                                             ELSE IF r \in Saved THEN safe_frames[top][r]
                                             ELSE safe_tags[r]
    BY <1>12, Zenon DEF SafeExitLocal
  <2>7. \A r \in Saved : r \notin 1 .. 5
    BY DEF Saved
  <2> QED
    BY <1>2, <1>3, <2>3, <2>4, <2>5, <2>6, <2>7, Zenon
<1>13. CASE SafeStore \/ SafeJump \/ SafeExitProgram
  BY <1>4, <1>13, Zenon DEF SafeStore, SafeJump, Jump, SafeExitProgram, ExitProgram, provenance
<1>14. CASE SafeEnter \/ SafeStops \/ AluRefused \/ SafeAccessRefused \/ HelperRefused
  BY <1>4, <1>14, IdleSteps, Zenon DEF provenance, locals
<1> QED
  BY <1>6, <1>7, <1>8, <1>9, <1>10, <1>11, <1>12, <1>13, <1>14, Zenon DEF SafeNext

\* A call saves values together with their tags; other turns leave both alone.
LEMMA FramesFitStep ==
    ASSUME SafeTypeOK, Validated, RegistersFit, FramesFit, SafeNext,
           NEW k \in 0 .. stack_frame_index' - 1, NEW r \in Saved
    PROVE  ValueFits(safe_frames'[k][r], stack_frames'[k].saved_registers[r])
<1>1. /\ TypeOK /\ stack_frame_index \in 0 .. MaxCallDepth /\ MaxCallDepth \in Nat
      /\ safe_frames \in [0 .. MaxCallDepth - 1 -> [Saved -> Tag]]
  BY InterpAssumption, Zenon DEF SafeTypeOK, TypeOK
<1>2. CASE SafeCallLocal
  <2>1. /\ pc \in DOMAIN prog /\ stack_frame_index \in 0 .. MaxCallDepth - 1
        /\ stack_frame_index' = stack_frame_index + 1
        /\ safe_frames' = [safe_frames EXCEPT ![stack_frame_index] = [q \in Saved |-> safe_tags[q]]]
    BY <1>1, <1>2 DEF SafeCallLocal, CallLocal, Executes, Inside
  <2>2. HeadFrames \in [0 .. MaxCallDepth - 1 -> Frame]
    BY <1>1, <2>1, HeadKeepsFrames, Zenon
  <2>3. CASE k = stack_frame_index
    <3>1. stack_frames'[k].saved_registers = [q \in Saved |-> reg[q]]
      BY <1>2, <2>1, <2>2, <2>3, Zenon DEF SafeCallLocal, CallLocal
    <3>2. safe_frames'[k] = [q \in Saved |-> safe_tags[q]]
      BY <1>1, <2>1, <2>3, Zenon
    <3>3. r \in Registers
      BY DEF Saved, Registers
    <3> QED
      BY <3>1, <3>2, <3>3, Zenon DEF RegistersFit
  <2>4. CASE k # stack_frame_index
    <3>1. k \in 0 .. stack_frame_index - 1 /\ k \in 0 .. MaxCallDepth - 1
      BY <1>1, <2>1, <2>4
    <3>2. stack_frames'[k] = stack_frames[k]
      <4>1. stack_frames'[k] = HeadFrames[k]
        BY <1>2, <2>2, <2>4, <3>1, Zenon DEF SafeCallLocal, CallLocal
      <4>2. HeadFrames[k] = stack_frames[k]
        BY <1>1, <2>1, <2>4, <3>1, HeadKeepsFrames, Zenon
      <4> QED
        BY <4>1, <4>2, Zenon
    <3>3. safe_frames'[k] = safe_frames[k]
      BY <1>1, <2>1, <2>4, <3>1, Zenon
    <3> QED
      BY <3>1, <3>2, <3>3, Zenon DEF FramesFit
  <2> QED
    BY <2>3, <2>4, Zenon
<1>3. CASE SafeExitLocal
  <2>1. /\ pc \in DOMAIN prog /\ stack_frame_index > 0 /\ stack_frame_index' = stack_frame_index - 1
        /\ stack_frames' = HeadFrames /\ safe_frames' = safe_frames
    BY <1>3, ExitFacts, Zenon DEF SafeExitLocal, UntrackedCalls
  <2>2. k \in 0 .. stack_frame_index - 1 /\ k \in 0 .. MaxCallDepth - 1 /\ k # stack_frame_index
    BY <1>1, <2>1
  <2>3. stack_frames'[k] = stack_frames[k]
    BY <1>1, <2>1, <2>2, HeadKeepsFrames, Zenon
  <2> QED
    BY <2>1, <2>2, <2>3, Zenon DEF FramesFit
<1>4. CASE ~SafeCallLocal /\ ~SafeExitLocal
  <2>1. /\ stack_frame_index' = stack_frame_index /\ safe_frames' = safe_frames
        /\ \A j \in 0 .. stack_frame_index - 1 : stack_frames'[j] = stack_frames[j]
    BY <1>4, SafeFrameStep, FrameTags, Zenon
  <2> QED
    BY <2>1, Zenon DEF FramesFit
<1> QED
  BY <1>2, <1>3, <1>4, Zenon

\* The loop takes turns only while the call is in progress.
LEMMA InProgress == SafeNext => outcome \in {"entered", "running"}
<1>1. CASE SafeEnter
  BY <1>1, Zenon DEF SafeEnter
<1>2. CASE SafeStops \/ AluRefused \/ SafeAccessRefused \/ HelperRefused
  BY <1>2, Zenon DEF SafeStops, AluRefused, SafeAccessRefused, HelperRefused, RunsOffTheEnd, LimitExceeded,
              ShadowRejects, UnknownOpcode, DepthExceeded, Inside
<1>3. CASE SafeAlu32 \/ SafeAlu64 \/ SafeLddw \/ SafeLoad \/ SafeStore \/ SafeAtomic
  BY <1>3, Zenon DEF SafeAlu32, SafeAlu64, SafeLddw, SafeLoad, SafeStore, SafeAtomic, Alu, Lddw, Executes,
              Inside
<1>4. CASE SafeJump \/ SafeCallHelper \/ SafeCallLocal \/ SafeExitLocal \/ SafeExitProgram
  BY <1>4, Zenon DEF SafeJump, SafeCallHelper, SafeCallLocal, SafeExitLocal, SafeExitProgram, Jump,
              CallLocal, ExitLocal, ExitProgram, Executes, Inside
<1> QED
  BY <1>1, <1>2, <1>3, <1>4, Zenon DEF SafeNext

\* Every turn of the loop keeps values and their tags together.
LEMMA ValuesStep ==
    ASSUME StackApart, SafeTypeOK, Validated, TagsTraced, SpillsComplete, SpillsTrackMemory,
           FramePointerTagged, ValuesFit, [SafeNext]_safeVars
    PROVE  FramePointerTagged' /\ ValuesFit'
<1>1. CASE UNCHANGED safeVars
  BY <1>1, Zenon DEF safeVars, vars, locals, provenance, ValuesFit, RegistersFit, FramesFit, SlotsFit, Slots,
              SlotCount, FramePointerTagged, StackTag
<1> SUFFICES ASSUME SafeNext PROVE FramePointerTagged' /\ ValuesFit'
  BY <1>1, Zenon
<1>2. FramePointerTagged'
  BY FramePointerStep, Zenon
<1>3. helpers_write' = helpers_write /\ Slots' = Slots /\ outcome' # "entered"
  BY SettingFixed, AccessSteps, Zenon DEF Slots, SlotCount
<1>4. outcome \in {"entered", "running"}
  BY InProgress, Zenon
<1> SUFFICES ASSUME outcome' = "running", ~helpers_write
             PROVE  /\ \A r \in Registers : ValueFits(safe_tags'[r], reg'[r])
                    /\ \A k \in 0 .. stack_frame_index' - 1 : \A r \in Saved :
                          ValueFits(safe_frames'[k][r], stack_frames'[k].saved_registers[r])
                    /\ \A s \in Slots : safe_spill_slots'[s] # NoSpill =>
                          ValueFits(safe_spill_slots'[s], stack_words'[s])
  BY <1>2, <1>3, Zenon DEF ValuesFit, RegistersFit, FramesFit, SlotsFit
<1>5. RegistersFit /\ FramesFit /\ SlotsFit
  BY <1>4, Zenon DEF ValuesFit
<1>6. ASSUME NEW s \in Slots, safe_spill_slots'[s] # NoSpill
      PROVE  ValueFits(safe_spill_slots'[s], stack_words'[s])
  <2>1. CASE UNCHANGED <<safe_spill_slots, stack_words>>
    BY <1>5, <1>6, <2>1, Zenon DEF SlotsFit
  <2>2. CASE SafeCallHelper /\ UNCHANGED safe_spill_slots
    BY <1>5, <1>6, <2>2, Zenon DEF SafeCallHelper, SlotsFit
  <2>3. CASE SafeStore \/ SafeAtomic
    BY <1>5, <1>6, <2>3, WriteRespectsSpills, Zenon DEF SlotsFit, RegistersFit
  <2> QED
    BY <2>1, <2>2, <2>3, SlotTags, Zenon
<1> QED
  BY <1>5, <1>6, RegistersFitStep, FramesFitStep, Zenon

\* While helpers leave the stack alone, neither arithmetic, nor spilling and
\* reloading, nor calls and exits separate a value from its tag.
THEOREM PointersAlwaysInRegion ==
    ASSUME StackApart
    PROVE  SafeSpec => []PointersInRegion
<1>1. SafeInit => FramePointerTagged /\ ValuesFit
  <2> SUFFICES ASSUME SafeInit PROVE FramePointerTagged /\ ValuesFit
    BY Zenon
  <2>1. TypeOK /\ set.mem \in Nat /\ set.mem_len \in Nat
    BY InitTyped, SettingNumbers, Zenon DEF SafeInit
  <2>2. \A r \in Registers :
           \/ safe_tags[r] \in {Scalar, StackTag}
           \/ r = 1 /\ safe_tags[r] = Pointer(InputId, Permissions, set.mem, set.mem_len)
    BY Zenon DEF SafeInit, StackTag
  <2>3. reg[1] = set.mem
    BY DEF SafeInit, Init, Registers
  <2>4. ValueFits(Pointer(InputId, Permissions, set.mem, set.mem_len), set.mem)
    BY <2>1 DEF ValueFits, Pointer
  <2>5. RegistersFit
    BY <2>2, <2>3, <2>4, AnyValueFits, Zenon DEF RegistersFit
  <2>6. FramesFit /\ SlotsFit
    BY DEF SafeInit, Init, FramesFit, SlotsFit
  <2>7. FramePointerTagged
    BY DEF SafeInit, FramePointerTagged, StackTag, Registers
  <2> QED
    BY <2>5, <2>6, <2>7, Zenon DEF ValuesFit
<1>2. /\ SafeTypeOK /\ Validated /\ TagsTraced /\ SpillsComplete /\ SpillsTrackMemory
      /\ FramePointerTagged /\ ValuesFit /\ [SafeNext]_safeVars
      => FramePointerTagged' /\ ValuesFit'
  BY ValuesStep, Zenon
<1>3. ValuesFit => PointersInRegion
  BY Zenon DEF ValuesFit, RegistersFit, ValueFits, PointersInRegion
<1> QED
  BY <1>1, <1>2, <1>3, SafeTypeCorrect, TagsAlwaysTraced, SpillsAlwaysTrackMemory, PTL DEF SafeSpec

-----------------------------------------------------------------------------
(* Calls restore values together with their tags.                          *)

\* Every pending call can be undone for the tags as well.
TagsRestorable ==
    FramePointerFetched(prog) \/
    /\ safe_tags[10] = StackTag
    /\ \A k \in 0 .. stack_frame_index - 1 :
          /\ tagged_calls[k][10] = StackTag
          /\ \A r \in Saved : safe_frames[k][r] = tagged_calls[k][r]

\* Every turn of the safe loop keeps pending calls restorable.
LEMMA SafeFramesStep ==
    ASSUME SafeTypeOK, Validated, FramesRestorable, [SafeNext]_safeVars
    PROVE  FramesRestorable'
<1>1. CASE UNCHANGED safeVars
  BY <1>1, Zenon DEF safeVars, vars, locals, FramesRestorable, FrameAbove
<1>2. CASE SafeNext /\ FramePointerFetched(prog)
  BY <1>2, SettingFixed, Zenon DEF FramesRestorable
<1>3. CASE SafeNext /\ ~FramePointerFetched(prog)
  <2>1. SameFrames \/ CallLocal \/ ExitLocal
    BY <1>3, SafeFrameStep, Zenon DEF SameFrames, SafeCallLocal, SafeExitLocal
  <2>2. TypeOK /\ prog' = prog
    BY <1>3, SettingFixed, Zenon DEF SafeTypeOK
  <2> QED
    BY <1>3, <2>1, <2>2, FramesKept, Zenon
<1> QED
  BY <1>1, <1>2, <1>3, Zenon

\* The same for the tags.
LEMMA TagsRestorableStep ==
    ASSUME SafeTypeOK, Validated, TagsRestorable, [SafeNext]_safeVars
    PROVE  TagsRestorable'
<1>1. CASE UNCHANGED safeVars
  BY <1>1, Zenon DEF safeVars, vars, locals, provenance, TagsRestorable, StackTag
<1>2. CASE SafeNext /\ FramePointerFetched(prog)
  BY <1>2, SettingFixed, Zenon DEF TagsRestorable
<1>3. CASE SafeNext /\ ~FramePointerFetched(prog)
  <2>1. prog' = prog /\ StackTag' = StackTag
    BY <1>3, SettingFixed, Zenon DEF StackTag
  <2>2. /\ safe_tags[10] = StackTag
        /\ \A k \in 0 .. stack_frame_index - 1 :
              /\ tagged_calls[k][10] = StackTag
              /\ \A r \in Saved : safe_frames[k][r] = tagged_calls[k][r]
    BY <1>3, Zenon DEF TagsRestorable
  <2>3. /\ safe_frames \in [0 .. MaxCallDepth - 1 -> [Saved -> Tag]]
        /\ tagged_calls \in [0 .. MaxCallDepth - 1 -> [6 .. 10 -> Tag]]
        /\ stack_frame_index \in 0 .. MaxCallDepth /\ MaxCallDepth \in Nat
    BY InterpAssumption, Zenon DEF SafeTypeOK, TypeOK
  <2> SUFFICES /\ safe_tags'[10] = StackTag
               /\ \A k \in 0 .. stack_frame_index' - 1 :
                     /\ tagged_calls'[k][10] = StackTag
                     /\ \A r \in Saved : safe_frames'[k][r] = tagged_calls'[k][r]
    BY <2>1, Zenon DEF TagsRestorable
  <2>4. CASE SafeCallLocal
    <3>1. /\ safe_tags' = safe_tags /\ stack_frame_index' = stack_frame_index + 1
          /\ stack_frame_index \in 0 .. MaxCallDepth - 1
          /\ safe_frames' = [safe_frames EXCEPT ![stack_frame_index] = [r \in Saved |-> safe_tags[r]]]
          /\ tagged_calls' = [tagged_calls EXCEPT ![stack_frame_index] = KeptTags]
      BY <2>3, <2>4 DEF SafeCallLocal, CallLocal
    <3>2. ASSUME NEW k \in 0 .. stack_frame_index
          PROVE  /\ tagged_calls'[k][10] = StackTag
                 /\ \A r \in Saved : safe_frames'[k][r] = tagged_calls'[k][r]
      <4>1. CASE k = stack_frame_index
        <5>1. tagged_calls'[k] = KeptTags /\ safe_frames'[k] = [r \in Saved |-> safe_tags[r]]
          BY <2>3, <3>1, <4>1, Zenon
        <5> QED
          BY <2>2, <5>1 DEF KeptTags, Saved
      <4>2. CASE k # stack_frame_index
        <5>1. k \in 0 .. stack_frame_index - 1 /\ k \in 0 .. MaxCallDepth - 1
          BY <2>3, <4>2
        <5>2. tagged_calls'[k] = tagged_calls[k] /\ safe_frames'[k] = safe_frames[k]
          BY <2>3, <3>1, <4>2, <5>1, Zenon
        <5> QED
          BY <2>2, <5>1, <5>2
      <4> QED
        BY <4>1, <4>2, Zenon
    <3>3. stack_frame_index' - 1 = stack_frame_index
      BY <2>3, <3>1
    <3> QED
      BY <2>2, <3>1, <3>2, <3>3, Zenon
  <2>5. CASE SafeExitLocal
    <3>1. stack_frame_index' = stack_frame_index - 1 /\ UNCHANGED <<safe_frames, tagged_calls>>
      BY <2>5, ExitFacts, Zenon DEF SafeExitLocal, UntrackedCalls
    <3>2. \A k \in 0 .. stack_frame_index' - 1 : k \in 0 .. stack_frame_index - 1
      BY <2>3, <3>1
    <3>3. safe_tags'[10] = safe_tags[10]
      BY <2>5 DEF SafeExitLocal, Saved, Registers
    <3> QED
      BY <2>2, <3>1, <3>2, <3>3, Zenon
  <2>6. CASE ~SafeCallLocal /\ ~SafeExitLocal
    BY <1>3, <2>2, <2>6, SafeFrameStep, FrameTags
  <2> QED
    BY <2>4, <2>5, <2>6, Zenon
<1> QED
  BY <1>1, <1>2, <1>3, Zenon

\* R6 - R10 with their tags, now and at each pending call.
TaggedKept == [r \in 6 .. 10 |-> <<reg[r], safe_tags[r]>>]
TaggedCalls ==
    [k \in 0 .. MaxCallDepth - 1 |->
        [at |-> calls[k].at, kept |-> [r \in 6 .. 10 |-> <<calls[k].kept[r], tagged_calls[k][r]>>]]]

\* They are what CallStack keeps.
LEMMA TaggedTyped ==
    ASSUME SafeTypeOK
    PROVE  /\ TaggedKept \in [6 .. 10 -> Word \X Tag]
           /\ TaggedCalls \in [0 .. MaxCallDepth - 1 -> [at : Nat, kept : [6 .. 10 -> Word \X Tag]]]
<1>1. \A r \in 6 .. 10 : reg[r] \in Word /\ safe_tags[r] \in Tag
  BY DEF SafeTypeOK, TypeOK, Registers
<1>2. ASSUME NEW k \in 0 .. MaxCallDepth - 1
      PROVE  /\ calls[k].at \in Nat
             /\ [r \in 6 .. 10 |-> <<calls[k].kept[r], tagged_calls[k][r]>>] \in [6 .. 10 -> Word \X Tag]
  <2>1. calls[k] \in Activation /\ tagged_calls[k] \in [6 .. 10 -> Tag]
    BY Zenon DEF SafeTypeOK, TypeOK
  <2>2. calls[k].at \in Nat /\ calls[k].kept \in [6 .. 10 -> Word]
    BY <2>1, Zenon DEF Activation
  <2> QED
    BY <2>1, <2>2, Zenon
<1>3. TaggedKept \in [6 .. 10 -> Word \X Tag]
  BY <1>1, Zenon DEF TaggedKept
<1> QED
  BY <1>2, <1>3, Zenon DEF TaggedCalls

\* A call pushes R6 - R10 and their tags, and the callee finds R6 - R9 as they were.
LEMMA CallPushesTagged ==
    ASSUME SafeTypeOK, Validated, SafeCallLocal
    PROVE  /\ TaggedCalls' = [TaggedCalls EXCEPT ![stack_frame_index] = [at |-> pc + 1, kept |-> TaggedKept]]
           /\ \A r \in 6 .. 9 : TaggedKept'[r] = TaggedKept[r]
<1>1. /\ calls' = [calls EXCEPT ![stack_frame_index] = [at |-> pc + 1, kept |-> Kept]]
      /\ tagged_calls' = [tagged_calls EXCEPT ![stack_frame_index] = KeptTags]
      /\ safe_tags' = safe_tags /\ \E v : reg' = [reg EXCEPT ![10] = v]
  BY Zenon DEF SafeCallLocal, CallLocal
<1>2. /\ DOMAIN calls = 0 .. MaxCallDepth - 1 /\ DOMAIN tagged_calls = 0 .. MaxCallDepth - 1
      /\ DOMAIN reg = Registers
  BY Zenon DEF SafeTypeOK, TypeOK
<1>3. \A r \in 6 .. 9 : reg'[r] = reg[r]
  BY <1>1, <1>2, SMTT(20) DEF Registers
<1>4. \A r \in 6 .. 9 : TaggedKept'[r] = TaggedKept[r]
  BY <1>1, <1>3 DEF TaggedKept
<1>5. ASSUME NEW k \in 0 .. MaxCallDepth - 1
      PROVE  TaggedCalls'[k] = IF k = stack_frame_index THEN [at |-> pc + 1, kept |-> TaggedKept]
                               ELSE TaggedCalls[k]
  <2>1. CASE k = stack_frame_index
    <3>1. calls'[k].at = pc + 1 /\ calls'[k].kept = Kept /\ tagged_calls'[k] = KeptTags
      BY <1>1, <1>2, <2>1, Zenon
    <3>2. [r \in 6 .. 10 |-> <<Kept[r], KeptTags[r]>>] = TaggedKept
      BY Zenon DEF Kept, KeptTags, TaggedKept
    <3> QED
      BY <2>1, <3>1, <3>2, Zenon DEF TaggedCalls
  <2>2. CASE k # stack_frame_index
    <3>1. calls'[k] = calls[k] /\ tagged_calls'[k] = tagged_calls[k]
      BY <1>1, <1>2, <2>2, Zenon
    <3> QED
      BY <2>2, <3>1, Zenon DEF TaggedCalls
  <2> QED
    BY <2>1, <2>2, Zenon
<1>6. TaggedCalls' = [k \in 0 .. MaxCallDepth - 1 |-> TaggedCalls'[k]]
  BY Zenon DEF TaggedCalls
<1>7. DOMAIN TaggedCalls = 0 .. MaxCallDepth - 1
  BY Zenon DEF TaggedCalls
<1>8. TaggedCalls' = [TaggedCalls EXCEPT ![stack_frame_index] = [at |-> pc + 1, kept |-> TaggedKept]]
  BY <1>5, <1>6, <1>7, Zenon
<1> QED
  BY <1>4, <1>8, Zenon

\* An exit gives all of that back.
LEMMA ExitRestoresTagged ==
    ASSUME SafeTypeOK, Validated, FramesRestorable, TagsRestorable, ~FramePointerFetched(prog),
           SafeExitLocal
    PROVE  /\ pc' = TaggedCalls[stack_frame_index - 1].at
           /\ TaggedKept' = TaggedCalls[stack_frame_index - 1].kept
<1> DEFINE top == stack_frame_index - 1
<1>1. TypeOK /\ ExitLocal
  BY Zenon DEF SafeTypeOK, SafeExitLocal
<1>2. pc' = calls[top].at /\ Kept' = calls[top].kept
  BY <1>1, ExitRestores, Zenon
<1>3. top \in 0 .. stack_frame_index - 1 /\ top \in 0 .. MaxCallDepth - 1
  BY <1>1, InterpAssumption, ExitFacts DEF TypeOK
<1>4. \A r \in 6 .. 10 : reg'[r] = calls[top].kept[r]
  BY <1>2, Zenon DEF Kept
<1>5. \A r \in 6 .. 10 : safe_tags'[r] = tagged_calls[top][r]
  <2>1. \A r \in Saved : safe_tags'[r] = safe_frames[top][r]
    BY DEF SafeExitLocal, Saved, Registers
  <2>2. safe_tags'[10] = safe_tags[10]
    BY DEF SafeExitLocal, Saved, Registers
  <2> QED
    BY <1>3, <2>1, <2>2 DEF TagsRestorable, Saved
<1>6. TaggedKept' = [r \in 6 .. 10 |-> <<calls[top].kept[r], tagged_calls[top][r]>>]
  BY <1>4, <1>5, Zenon DEF TaggedKept
<1>7. /\ TaggedCalls[top].at = calls[top].at
      /\ TaggedCalls[top].kept = [r \in 6 .. 10 |-> <<calls[top].kept[r], tagged_calls[top][r]>>]
  BY <1>3, Zenon DEF TaggedCalls
<1> QED
  BY <1>2, <1>6, <1>7, Zenon

\* A turn of the loop that ends the call leaves R6 - R10 and their tags alone.
LEMMA LastTurnKeeps ==
    ASSUME SafeTypeOK, SafeNext, outcome' \in {"returned", "failed"}
    PROVE  TaggedKept' = TaggedKept
<1>1. CASE SafeEnter \/ SafeStops \/ AluRefused \/ SafeAccessRefused \/ HelperRefused
  BY <1>1, IdleSteps, Zenon DEF locals, provenance, TaggedKept
<1>2. CASE SafeExitProgram
  BY <1>2, Zenon DEF SafeExitProgram, ExitProgram, provenance, TaggedKept
<1>3. CASE SafeCallHelper
  <2>1. \E v : reg' = [reg EXCEPT ![0] = v]
    BY <1>3, Zenon DEF SafeCallHelper
  <2>2. UNCHANGED safe_tags \/ \E t : safe_tags' = TagsAfterCall(t)
    BY <1>3, Zenon DEF SafeCallHelper
  <2>3. \A r \in 6 .. 10 : reg'[r] = reg[r]
    BY <2>1, SMTT(20) DEF SafeTypeOK, TypeOK, Registers
  <2>4. \A r \in 6 .. 10 : safe_tags'[r] = safe_tags[r]
    BY <2>2 DEF TagsAfterCall, Registers
  <2> QED
    BY <2>3, <2>4, Zenon DEF TaggedKept
<1>4. ~(\/ SafeAlu32 \/ SafeAlu64 \/ SafeLddw \/ SafeLoad \/ SafeStore \/ SafeAtomic \/ SafeJump
        \/ SafeCallLocal \/ SafeExitLocal)
  BY Zenon DEF SafeAlu32, SafeAlu64, SafeLddw, SafeLoad, SafeStore, SafeAtomic, SafeJump, SafeCallLocal,
         SafeExitLocal, Alu, Lddw, Jump, CallLocal, ExitLocal, Continues
<1> QED
  BY <1>1, <1>2, <1>3, <1>4, Zenon DEF SafeNext

\* One turn of the safe loop is a step of CallStack on values with tags, or changes
\* nothing it sees.
LEMMA ProvenanceStep ==
    ASSUME SafeTypeOK, Validated, SafeTypeOK', FramesRestorable, TagsRestorable,
           ~FramePointerFetched(prog), [SafeNext]_safeVars
    PROVE  [Provenance!Next]_(Provenance!vars)
<1> USE DEF Provenance!Kept
<1> DEFINE over == outcome \in {"returned", "failed"}
<1>1. CASE UNCHANGED safeVars
  BY <1>1, Zenon DEF safeVars, vars, locals, provenance, Provenance!vars
<1> SUFFICES ASSUME SafeNext PROVE Provenance!Next
  BY <1>1, Zenon
<1>2. TaggedKept \in [6 .. 10 -> Word \X Tag] /\ TaggedKept' \in [6 .. 10 -> Word \X Tag] /\ pc' \in Nat
  <2>1. (SafeTypeOK => TaggedKept \in [6 .. 10 -> Word \X Tag])'
    BY TaggedTyped, PTL
  <2> QED
    BY <2>1, TaggedTyped, Zenon DEF SafeTypeOK, TypeOK
<1>3. ~over
  BY InProgress, Zenon
<1>4. CASE SafeCallLocal
  <2>1. over' = over /\ stack_frame_index < MaxCallDepth /\ stack_frame_index' = stack_frame_index + 1
    BY <1>3, <1>4 DEF SafeCallLocal, CallLocal, Continues
  <2>2. /\ TaggedCalls' = [TaggedCalls EXCEPT ![stack_frame_index] = [at |-> pc + 1, kept |-> TaggedKept]]
        /\ \A r \in 6 .. 9 : TaggedKept'[r] = TaggedKept[r]
    BY <1>4, CallPushesTagged, Zenon
  <2>3. Provenance!Call
    BY <1>2, <1>3, <2>1, <2>2, Zenon DEF Provenance!Call, TaggedKept, TaggedCalls
  <2> QED
    BY <2>3, Zenon DEF Provenance!Next
<1>5. CASE SafeExitLocal
  <2>1. /\ over' = over /\ stack_frame_index > 0 /\ stack_frame_index' = stack_frame_index - 1
        /\ calls' = calls /\ tagged_calls' = tagged_calls
    BY <1>3, <1>5, ExitFacts, Zenon DEF SafeExitLocal, UntrackedCalls
  <2>2. TaggedCalls' = TaggedCalls
    BY <2>1, Zenon DEF TaggedCalls
  <2>3. /\ pc' = TaggedCalls[stack_frame_index - 1].at
        /\ TaggedKept' = TaggedCalls[stack_frame_index - 1].kept
    BY <1>5, ExitRestoresTagged, Zenon
  <2>4. Provenance!Return
    BY <1>3, <2>1, <2>2, <2>3, Zenon DEF Provenance!Return, TaggedKept, TaggedCalls
  <2> QED
    BY <2>4, Zenon DEF Provenance!Next
<1>6. CASE ~SafeCallLocal /\ ~SafeExitLocal
  <2>1. /\ stack_frame_index' = stack_frame_index /\ calls' = calls /\ tagged_calls' = tagged_calls
        /\ reg'[10] = reg[10] /\ safe_tags'[10] = safe_tags[10]
    BY <1>6, SafeFrameStep, FrameTags, Zenon
  <2>2. TaggedCalls' = TaggedCalls
    BY <2>1, Zenon DEF TaggedCalls
  <2>3. TaggedKept'[10] = TaggedKept[10]
    BY <2>1 DEF TaggedKept
  <2>4. CASE ~over'
    <3>1. over' = over
      BY <1>3, <2>4, SMT
    <3>2. Provenance!Step
      BY <1>2, <1>3, <2>1, <2>2, <2>3, <3>1, Zenon DEF Provenance!Step, TaggedKept, TaggedCalls
    <3> QED
      BY <3>2, Zenon DEF Provenance!Next
  <2>5. CASE over'
    <3>1. TaggedKept' = TaggedKept
      BY <2>5, LastTurnKeeps, Zenon
    <3>2. over' = TRUE
      BY <2>5, Zenon
    <3>3. Provenance!Stop
      BY <1>2, <2>1, <2>2, <3>1, <3>2, Zenon DEF Provenance!Stop, TaggedKept, TaggedCalls
    <3> QED
      BY <3>3, Zenon DEF Provenance!Next
  <2> QED
    BY <2>4, <2>5, Zenon
<1> QED
  BY <1>4, <1>5, <1>6, Zenon

\* The safe interpreter implements CallStack for values together with their tags,
\* for every program in which no atomic operation fetches into R10.
THEOREM ProvenanceImplementsCallStack ==
    SafeSpec /\ []~FramePointerFetched(prog) => ProvenanceRestored
<1>1. SafeInit => Provenance!Init /\ FramesRestorable /\ TagsRestorable
  <2> SUFFICES ASSUME SafeInit PROVE Provenance!Init /\ FramesRestorable /\ TagsRestorable
    BY Zenon
  <2>1. /\ TaggedKept \in [6 .. 10 -> Word \X Tag]
        /\ TaggedCalls \in [0 .. MaxCallDepth - 1 -> [at : Nat, kept : [6 .. 10 -> Word \X Tag]]]
    BY SafeInitTyped, TaggedTyped, Zenon
  <2>2. outcome = "entered" /\ pc = 0 /\ stack_frame_index = 0
    BY Zenon DEF SafeInit, Init
  <2>3. FramesRestorable
    BY <2>2 DEF FramesRestorable
  <2>4. TagsRestorable
    BY <2>2 DEF SafeInit, TagsRestorable, StackTag, Registers
  <2>5. (outcome \in {"returned", "failed"}) = FALSE
    BY <2>2
  <2>6. Provenance!Init
    BY <2>1, <2>2, <2>5, Zenon
       DEF Provenance!Init, Provenance!Kept, Provenance!Activation, TaggedKept, TaggedCalls
  <2> QED
    BY <2>3, <2>4, <2>6, Zenon
<1>2. /\ SafeTypeOK /\ Validated /\ FramesRestorable /\ TagsRestorable /\ [SafeNext]_safeVars
      => FramesRestorable' /\ TagsRestorable'
  BY SafeFramesStep, TagsRestorableStep, Zenon
<1>3. /\ SafeTypeOK /\ Validated /\ SafeTypeOK' /\ FramesRestorable /\ TagsRestorable
      /\ ~FramePointerFetched(prog) /\ [SafeNext]_safeVars
      => [Provenance!Next]_(Provenance!vars)
  BY ProvenanceStep, Zenon
<1> QED
  BY <1>1, <1>2, <1>3, SafeTypeCorrect, PTL DEF SafeSpec, ProvenanceRestored, Provenance!Spec

=============================================================================
