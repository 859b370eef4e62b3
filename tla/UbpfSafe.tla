------------------------------ MODULE UbpfSafe ------------------------------
(***************************************************************************)
(* One call of ubpf_exec_ex on a VM in the safe profile, which is          *)
(* ubpf_exec_ex_safe: the loop of the legacy profile with a provenance tag *)
(* beside every register, every saved register and every spilled word.     *)
(* Memory is reached through tags only.                                    *)
(*                                                                         *)
(* The parts of the loop that both interpreters share are the actions and  *)
(* operators of UbpfInterp.  Unlike there, the contents of the aligned     *)
(* words of the stack are tracked, because spilled pointers live in them.  *)
(***************************************************************************)
EXTENDS UbpfInterp

CONSTANTS
    Regions,       \* the safe_regions in use
    SafeHelpers,   \* safe_helpers: index -> metadata, for the entries in use
    StackSlack     \* UBPF_SAFE_STACK_ADDRESS_SLACK

VARIABLES
    safe_tags,         \* provenance of the registers
    safe_frames,       \* provenance of R6 - R9 at each pending call
    safe_spill_slots,  \* provenance of the stack words, NoSpill when not valid
    stack_words,       \* what memory holds there, Unknown when not tracked
    helpers_write,     \* whether the helpers of this call write to the stack
    tagged_calls       \* history: provenance of R6 - R10 at each pending call

provenance == <<safe_tags, safe_frames, safe_spill_slots, stack_words, helpers_write, tagged_calls>>
safeVars == <<vars, provenance>>

\* The reserved region ids 0xfffffffe and 0xffffffff.
InputId == -2
StackId == -1

Permissions == {"read", "write", "atomic"}
Tag ==
    [kind : {"scalar", "pointer", "handle"}, region_id : Int, permissions : SUBSET Permissions,
     base : Word, size : Word]
Region ==
    [id : Nat, kind : {"pointer", "handle"}, permissions : SUBSET Permissions, base : Word,
     size : Word]
Helper == [result_kind : {"scalar", "pointer", "handle"}, region_id : Nat, region_size : Word]

\* What the registration functions make sure of: regions do not wrap, and a
\* region registered under an id that is in use replaces the one before.
RegionsRegistered ==
    /\ Regions \subseteq Region
    /\ \A r \in Regions : r.base # 0 /\ r.size # 0 /\ r.base + r.size \in Word
    /\ \A r, s \in Regions : r.id = s.id => r = s
HelpersRegistered ==
    /\ DOMAIN SafeHelpers \subseteq Nat
    /\ \A i \in DOMAIN SafeHelpers :
          SafeHelpers[i] \in Helper
          /\ (SafeHelpers[i].result_kind # "scalar" => SafeHelpers[i].region_size # 0)

\* A 64-bit move copies its source.
MovesCopy ==
    \A x \in Instructions :
        x.op = "mov_reg" /\ x.sz = 8 /\ x.off = 0 => \A d, s \in Word : Compute(x, d, s) = s

ASSUME SafeAssumption ==
    RegionsRegistered /\ HelpersRegistered /\ MovesCopy /\ StackSlack \in Nat

Scalar == [kind |-> "scalar", region_id |-> 0, permissions |-> {}, base |-> 0, size |-> 0]
Pointer(id, permissions, base, size) ==
    [kind |-> "pointer", region_id |-> id, permissions |-> permissions, base |-> base, size |-> size]
NoSpill == [Scalar EXCEPT !.kind = "none"]
Unknown == -1

\* Mutant: the number of slots is rounded down.
SlotCountRoundedDown == set.stack_len \div 8

SlotCount == (set.stack_len + 7) \div 8
Slots == 0 .. SlotCount - 1

KeptTags == [r \in 6 .. 10 |-> safe_tags[r]]

SafeInit ==
    /\ Init
    /\ safe_tags =
          [r \in Registers |->
              IF r = 1 /\ set.mem # 0 /\ set.mem_len > 0
              THEN Pointer(InputId, Permissions, set.mem, set.mem_len)
              ELSE IF r = 10 THEN Pointer(StackId, Permissions, set.stack, set.stack_len)
              ELSE Scalar]
    /\ safe_frames = [k \in 0 .. MaxCallDepth - 1 |-> [r \in Saved |-> Scalar]]
    /\ safe_spill_slots = [s \in Slots |-> NoSpill]
    /\ stack_words = [s \in Slots |-> Unknown]
    /\ helpers_write \in BOOLEAN
    /\ tagged_calls = [k \in 0 .. MaxCallDepth - 1 |-> KeptTags]

-----------------------------------------------------------------------------
(* Memory accesses.                                                        *)

\* Mutant: only the first byte of the access is compared with the region.
AccessStarts(t, a, n, required) ==
    /\ t.kind = "pointer" /\ required \subseteq t.permissions
    /\ a \in Word /\ t.base + t.size \in Word
    /\ a >= t.base /\ a < t.base + t.size

\* ubpf_safe_compute_access: the n bytes at a (an address that did not wrap)
\* may be accessed through a register tagged t.
compute_access(t, a, n, required) ==
    /\ t.kind = "pointer" /\ required \subseteq t.permissions
    /\ a \in Word /\ t.base + t.size \in Word
    /\ a >= t.base /\ a <= t.base + t.size
    /\ n <= t.size /\ a <= t.base + t.size - n

Required(x) ==
    IF x.op = "ldx" THEN {"read"} ELSE IF x.op = "atomic" THEN {"write", "atomic"} ELSE {"write"}
BaseRegister(x) == IF x.op = "ldx" THEN x.src ELSE x.dst
Address(x) == reg[BaseRegister(x)] + x.off
Permitted(x) == compute_access(safe_tags[BaseRegister(x)], Address(x), x.sz, Required(x))

is_stack_pointer(t) ==
    /\ t.kind = "pointer" /\ t.region_id = StackId
    /\ t.base = set.stack /\ t.size = set.stack_len

\* The slot of an access, when it covers exactly one.
Aligned(a, n) == n = 8 /\ (a - set.stack) % 8 = 0
SlotAt(a) == (a - set.stack) \div 8

\* Mutant: only the slot of the first byte is invalidated.
SlotsOfStart(a, n) ==
    IF a >= set.stack /\ a + n <= set.stack + set.stack_len THEN {SlotAt(a)} ELSE {}

\* The slots ubpf_safe_invalidate_stack_spill_tags invalidates.
SlotsOf(a, n) ==
    IF a >= set.stack /\ a + n <= set.stack + set.stack_len
    THEN SlotAt(a) .. SlotAt(a + n - 1) ELSE {}

Invalidated(a, n) ==
    [s \in DOMAIN safe_spill_slots |-> IF s \in SlotsOf(a, n) THEN NoSpill ELSE safe_spill_slots[s]]

\* Memory itself: the words that share a byte with a write become unknown.
Touches(s, a, n) == set.stack + 8 * s < a + n /\ a < set.stack + 8 * s + 8
Overwritten(a, n) ==
    [s \in DOMAIN stack_words |-> IF Touches(s, a, n) THEN Unknown ELSE stack_words[s]]

\* What a load finds.
Found(x) ==
    IF /\ Aligned(Address(x), x.sz) /\ SlotAt(Address(x)) \in DOMAIN stack_words
       /\ stack_words[SlotAt(Address(x))] # Unknown
    THEN {stack_words[SlotAt(Address(x))]} ELSE Contents

-----------------------------------------------------------------------------
(* Arithmetic on tags.                                                     *)

\* Mutant: a pointer may move past the end of its region.
PointerOffsetUpwards(t, v) ==
    LET slack == IF t.region_id = StackId THEN StackSlack ELSE 0
    IN t.base + t.size \in Word /\ v >= t.base - slack

\* ubpf_safe_apply_pointer_offset: v is an address a pointer tagged t may move to.
\* The code's two bounds stop at the ends of the address space, as v does.
PointerOffset(t, v) ==
    LET slack == IF t.region_id = StackId THEN StackSlack ELSE 0
    IN t.base + t.size \in Word /\ v >= t.base - slack /\ v <= t.base + t.size + slack

Both(d, s, kd, ks) == d.kind = kd /\ s.kind = ks

\* ubpf_safe_apply_alu: after x computed v from registers tagged d and s, the
\* result has the tag t.  No tag fits when the operation is refused.
AluTag(x, d, s, v, t) ==
    \/ x.sz = 4 /\ t = Scalar
    \/ x.sz = 8 /\ x.op = "mov_imm" /\ t = Scalar
    \/ x.sz = 8 /\ x.op = "mov_reg" /\ x.off = 0 /\ t = s
    \/ x.sz = 8 /\ x.op = "mov_reg" /\ x.off # 0 /\ s.kind = "scalar" /\ t = Scalar
    \/ x.sz = 8 /\ x.op \in {"add_imm", "sub_imm"} /\
          \/ d.kind = "pointer" /\ PointerOffset(d, v) /\ t = d
          \/ d.kind = "scalar" /\ t = Scalar
    \/ x.sz = 8 /\ x.op \in {"add_reg", "sub_reg"} /\
          \/ Both(d, s, "pointer", "scalar") /\ PointerOffset(d, v) /\ t = d
          \/ Both(d, s, "scalar", "scalar") /\ t = Scalar
    \/ x.sz = 8 /\ x.op = "add_reg" /\ Both(d, s, "scalar", "pointer") /\ PointerOffset(s, v) /\ t = s
    \/ x.sz = 8 /\ x.op = "sub_reg" /\ Both(d, s, "pointer", "pointer")
                /\ d.region_id = s.region_id /\ t = Scalar
    \/ x.sz = 8 /\ x.op \in {"alu_imm", "div_imm", "neg", "endian"} /\ d.kind = "scalar" /\ t = Scalar
    \/ x.sz = 8 /\ x.op \in {"alu_reg", "div_reg"} /\ Both(d, s, "scalar", "scalar") /\ t = Scalar

AluTags(x) ==
    LET d == safe_tags[x.dst]
        s == safe_tags[x.src]
    IN {t \in {Scalar, d, s} : AluTag(x, d, s, Compute(x, reg[x.dst], reg[x.src]), t)}

-----------------------------------------------------------------------------
(* Instructions.                                                           *)

UntrackedMemory == UNCHANGED <<safe_spill_slots, stack_words, helpers_write>>
UntrackedCalls == UNCHANGED <<safe_frames, tagged_calls>>

\* Entry: the shadow stack or the spill slots may fail to be allocated.
SafeEnter ==
    /\ outcome = "entered"
    /\ outcome' \in {"running", "failed"}
    /\ UNCHANGED <<prog, set, locals, provenance>>

\* The early returns shared with the legacy loop.
SafeStops ==
    /\ RunsOffTheEnd \/ LimitExceeded \/ ShadowRejects \/ UnknownOpcode \/ DepthExceeded
    /\ UNCHANGED provenance

\* A 32-bit operation makes a scalar of whatever it is applied to.
SafeAlu32 ==
    /\ Alu /\ prog[pc].sz = 4
    /\ \E t \in AluTags(prog[pc]) : safe_tags' = [safe_tags EXCEPT ![prog[pc].dst] = t]
    /\ UntrackedMemory /\ UntrackedCalls

SafeAlu64 ==
    /\ Alu /\ prog[pc].sz = 8
    /\ \E t \in AluTags(prog[pc]) : safe_tags' = [safe_tags EXCEPT ![prog[pc].dst] = t]
    /\ UntrackedMemory /\ UntrackedCalls

AluRefused ==
    /\ Inside /\ ~LimitReached /\ ShadowAccepts(prog[pc])
    /\ prog[pc].op \in AluOps /\ AluTags(prog[pc]) = {}
    /\ Fails
    /\ UNCHANGED provenance

SafeLddw ==
    /\ Lddw
    /\ safe_tags' = [safe_tags EXCEPT ![prog[pc].dst] = Scalar]
    /\ UntrackedMemory /\ UntrackedCalls

\* The tag of a loaded value.  The destination becomes a scalar before the source
\* is examined, so a register that is both never gets a spilled tag.
Reloaded(x) ==
    LET source == IF x.dst = x.src THEN Scalar ELSE safe_tags[x.src]
        slot == SlotAt(Address(x))
    IN IF /\ is_stack_pointer(source) /\ Aligned(Address(x), x.sz)
          /\ safe_spill_slots[slot] # NoSpill
       THEN safe_spill_slots[slot] ELSE Scalar

SafeLoad ==
    LET x == prog[pc] IN
    /\ Executes({"ldx"}) /\ Permitted(x) /\ Accesses(x, x.src)
    /\ \E v \in Found(x) : reg' = [reg EXCEPT ![x.dst] = v]
    /\ safe_tags' = [safe_tags EXCEPT ![x.dst] = Reloaded(x)]
    /\ shadow_registers' = IF set.ub /\ ~(StackBytes(Address(x), x.sz) \subseteq shadow_stack)
                           THEN ShadowAfter(x) \ {x.dst}
                           ELSE ShadowAfter(x)
    /\ stack_frames' = HeadFrames
    /\ pc' = pc + 1
    /\ Continues
    /\ UntrackedMemory /\ UntrackedCalls
    /\ UNCHANGED <<shadow_stack, stack_frame_index, calls>>

\* A full aligned store of a register spills it with its tag.
Spills(x) == x.op = "stx" /\ Aligned(Address(x), x.sz)

SafeStore ==
    LET x == prog[pc]
        a == Address(x)
    IN /\ Executes({"st", "stx"}) /\ Permitted(x) /\ Accesses(x, x.dst) /\ MarkStored(x)
       /\ safe_spill_slots' =
             IF ~is_stack_pointer(safe_tags[x.dst]) THEN safe_spill_slots
             ELSE IF Spills(x) THEN [Invalidated(a, x.sz) EXCEPT ![SlotAt(a)] = safe_tags[x.src]]
             ELSE Invalidated(a, x.sz)
       /\ stack_words' =
             [s \in DOMAIN stack_words |->
                 IF Spills(x) /\ s = SlotAt(a) THEN reg[x.src] ELSE Overwritten(a, x.sz)[s]]
       /\ shadow_registers' = ShadowAfter(x)
       /\ stack_frames' = HeadFrames
       /\ pc' = pc + 1
       /\ Continues
       /\ UntrackedCalls
       /\ UNCHANGED <<reg, stack_frame_index, calls, safe_tags, helpers_write>>

\* Atomic operations do not mark the shadow stack, unlike in the legacy loop.
SafeAtomic ==
    LET x == prog[pc]
        a == Address(x)
    IN /\ Executes({"atomic"}) /\ Permitted(x) /\ Accesses(x, x.dst)
       /\ safe_spill_slots' = Invalidated(a, x.sz)
       /\ stack_words' = Overwritten(a, x.sz)
       /\ \E v \in Contents :
             reg' = [r \in Registers |-> IF r \in FetchRegisters(x) THEN v ELSE reg[r]]
       /\ safe_tags' = [r \in Registers |-> IF r \in FetchRegisters(x) THEN Scalar ELSE safe_tags[r]]
       /\ shadow_registers' = ShadowAfter(x)
       /\ stack_frames' = HeadFrames
       /\ pc' = pc + 1
       /\ Continues
       /\ UntrackedCalls
       /\ UNCHANGED <<shadow_stack, stack_frame_index, calls, helpers_write>>

SafeAccessRefused ==
    /\ Inside /\ ~LimitReached /\ ShadowAccepts(prog[pc])
    /\ prog[pc].op \in {"ldx", "st", "stx", "atomic"} /\ ~Permitted(prog[pc])
    /\ Fails
    /\ UNCHANGED provenance

SafeJump == Jump /\ UNCHANGED provenance

-----------------------------------------------------------------------------
(* Calls.                                                                  *)

\* A helper is called only if its metadata, and the region they name, are known.
HelperKnown(i) ==
    /\ i \in DOMAIN SafeHelpers
    /\ SafeHelpers[i].result_kind # "scalar" => \E r \in Regions : r.id = SafeHelpers[i].region_id

find_region_by_id(id) == CHOOSE r \in Regions : r.id = id

\* Mutant: the size of the window is not compared with what is left of the region.
WindowStarts(r, v, size) == v >= r.base /\ v <= r.base + r.size

\* The window of a returned pointer lies in its region.
WindowInside(r, v, size) ==
    v >= r.base /\ v <= r.base + r.size /\ size <= r.base + r.size - v

ResultAllowed(h, v) ==
    h.result_kind # "scalar" =>
        LET r == find_region_by_id(h.region_id)
        IN r.kind = h.result_kind /\ WindowInside(r, v, h.region_size)

ResultTag(h, v) ==
    IF h.result_kind = "scalar" THEN Scalar
    ELSE [kind |-> h.result_kind, region_id |-> h.region_id,
          permissions |-> find_region_by_id(h.region_id).permissions,
          base |-> v, size |-> h.region_size]

\* R0 gets the tag of the result, R1 - R5 become scalars.
TagsAfterCall(t) ==
    [r \in Registers |-> IF r = 0 THEN t ELSE IF r \in 1 .. 5 THEN Scalar ELSE safe_tags[r]]

HelperRefused ==
    LET x == prog[pc] IN
    /\ Inside /\ ~LimitReached /\ ShadowAccepts(x)
    /\ x.op = "call" /\ x.src = 0 /\ ~HelperKnown(x.imm)
    /\ Fails
    /\ UNCHANGED provenance

\* A helper may return 0 and unwind, return something its metadata allow, or be
\* refused afterwards.  Helpers that write to the stack may change any word of it.
SafeCallHelper ==
    LET x == prog[pc]
        h == SafeHelpers[x.imm]
        Unwinds(v) == x.imm = set.unwind /\ v = 0
    IN /\ Executes({"call"}) /\ x.src = 0 /\ HelperKnown(x.imm)
       /\ \E v \in HelperResults :
             /\ reg' = [reg EXCEPT ![0] = v]
             /\ \/ Unwinds(v) /\ outcome' = "returned" /\ UNCHANGED safe_tags
                \/ /\ ~Unwinds(v) /\ ResultAllowed(h, v)
                   /\ outcome' = "running" /\ safe_tags' = TagsAfterCall(ResultTag(h, v))
                \/ ~Unwinds(v) /\ ~ResultAllowed(h, v) /\ outcome' = "failed"
                   /\ safe_tags' = TagsAfterCall(safe_tags[0])
       /\ stack_words' = IF helpers_write THEN [s \in DOMAIN stack_words |-> Unknown] ELSE stack_words
       /\ pc' = pc + 1
       /\ Plain /\ UntrackedCalls
       /\ UNCHANGED <<safe_spill_slots, helpers_write>>

SafeCallLocal ==
    /\ CallLocal
    /\ safe_frames' = [safe_frames EXCEPT ![stack_frame_index] = [r \in Saved |-> safe_tags[r]]]
    /\ tagged_calls' = [tagged_calls EXCEPT ![stack_frame_index] = KeptTags]
    /\ UNCHANGED <<safe_tags, safe_spill_slots, stack_words, helpers_write>>

\* Mutant: R6 - R9 get their values back, but not their tags.
SafeExitLocalValues ==
    /\ ExitLocal
    /\ safe_tags' = [r \in Registers |-> IF r \in 1 .. 5 THEN Scalar ELSE safe_tags[r]]
    /\ UntrackedMemory /\ UntrackedCalls

SafeExitLocal ==
    /\ ExitLocal
    /\ safe_tags' = [r \in Registers |-> IF r \in 1 .. 5 THEN Scalar
                                         ELSE IF r \in Saved THEN safe_frames[stack_frame_index - 1][r]
                                         ELSE safe_tags[r]]
    /\ UntrackedMemory /\ UntrackedCalls

SafeExitProgram == ExitProgram /\ UNCHANGED provenance

SafeNext ==
    \/ SafeEnter \/ SafeStops \/ AluRefused \/ SafeAccessRefused \/ HelperRefused
    \/ SafeAlu32 \/ SafeAlu64 \/ SafeLddw \/ SafeLoad \/ SafeStore \/ SafeAtomic \/ SafeJump
    \/ SafeCallHelper \/ SafeCallLocal \/ SafeExitLocal \/ SafeExitProgram

SafeSpec == SafeInit /\ [][SafeNext]_safeVars

-----------------------------------------------------------------------------
(* Properties.                                                             *)

\* What the embedder grants to the program for the duration of the call.
Grant(id, base, size) ==
    [id |-> id, kind |-> "pointer", permissions |-> Permissions, base |-> base, size |-> size]
Grants ==
    Regions \cup {Grant(StackId, set.stack, set.stack_len)}
            \cup (IF set.mem # 0 THEN {Grant(InputId, set.mem, set.mem_len)} ELSE {})

Within(a, n, g) == a >= g.base /\ a + n <= g.base + g.size

Granted(t) ==
    \/ t = Scalar
    \/ \E g \in Grants :
          /\ g.id = t.region_id /\ g.kind = t.kind /\ g.permissions = t.permissions
          /\ Within(t.base, t.size, g)

\* Provenance cannot be forged: whatever a program does, and whatever helpers
\* write to the stack, the tag of every register, saved register and spill slot
\* describes a part of one region of the embedder, with that region's permissions
\* and kind.
TagsGranted ==
    /\ \A r \in Registers : Granted(safe_tags[r])
    /\ \A k \in 0 .. MaxCallDepth - 1 : \A r \in Saved : Granted(safe_frames[k][r])
    /\ \A s \in DOMAIN safe_spill_slots :
          safe_spill_slots[s] # NoSpill => Granted(safe_spill_slots[s])

\* Every load, store and atomic operation stays inside one dereferenceable region
\* that permits it: never in an opaque handle, never across two regions, whatever
\* the registers hold.
AccessesGranted ==
    [][ (outcome' = "running" /\ accessed' # NoAccess) =>
          \E g \in Grants :
             /\ g.kind = "pointer" /\ Required(prog[pc]) \subseteq g.permissions
             /\ Within(accessed'.start, accessed'.size, g) ]_safeVars

\* While helpers leave the stack alone, a pointer register holds an address of its
\* window or the one after it, and a handle is exactly what the helper returned:
\* neither arithmetic, nor spilling and reloading, nor calls and exits separate a
\* value from its tag.  (Stack pointers may leave the stack, R10 does on calls.)
PointersInRegion ==
    (outcome = "running" /\ ~helpers_write) =>
        \A r \in Registers :
            LET t == safe_tags[r] IN
            /\ t.kind = "pointer" /\ t.region_id # StackId =>
                  reg[r] >= t.base /\ reg[r] <= t.base + t.size
            /\ t.kind = "handle" => reg[r] = t.base

\* A valid spill slot is a word no later write of the program has touched, neither
\* partly, nor unaligned, nor by an atomic operation.
SpillsTrackMemory ==
    ~helpers_write =>
        \A s \in DOMAIN safe_spill_slots :
            safe_spill_slots[s] # NoSpill => stack_words[s] # Unknown

\* No access to the stack computes a slot outside the array of slots, even in the
\* last, incomplete word of a stack whose length is no multiple of 8.
SpillSlotsInRange ==
    accessed # NoAccess => SlotsOf(accessed.start, accessed.size) \subseteq DOMAIN safe_spill_slots

\* Local calls keep the promise of CallStack for values together with their tags:
\* what comes back in R6 - R10 is a pointer exactly if it was one at the call.
Provenance == INSTANCE CallStack WITH
    Word <- Word \X Tag,
    over <- outcome \in {"returned", "failed"},
    at <- pc,
    kept <- [r \in 6 .. 10 |-> <<reg[r], safe_tags[r]>>],
    depth <- stack_frame_index,
    saved <- [k \in 0 .. MaxCallDepth - 1 |->
                 [at |-> calls[k].at,
                  kept |-> [r \in 6 .. 10 |-> <<calls[k].kept[r], tagged_calls[k][r]>>]]]

ProvenanceRestored == Provenance!Spec

\* Spilling a pointer to the stack and reloading it restores its provenance when
\* no overlapping write invalidated the slot.
ReloadRestores ==
    [][ LET x == prog[pc]
            slot == SlotAt(Address(x))
        IN (/\ SafeLoad /\ is_stack_pointer(safe_tags[x.src]) /\ Aligned(Address(x), x.sz)
            /\ safe_spill_slots[slot] # NoSpill)
           => safe_tags'[x.dst] = safe_spill_slots[slot] ]_safeVars

=============================================================================
