------------------------------- MODULE UbpfVm -------------------------------
(***************************************************************************)
(* The life of one struct ubpf_vm: creation, configuration, loading,      *)
(* compilation to native code, re-registration of helpers in code that is *)
(* already compiled, execution, unloading and destruction.                 *)
(*                                                                         *)
(* One action per API function; a call is atomic because a VM is used by   *)
(* one thread at a time.  Allocation and page-protection failures are      *)
(* alternatives of the call they happen in, where the client meets them.   *)
(* Native code is a function from word offsets to words: the words of the  *)
(* instructions and the epilogue, then the dispatcher's address, then the  *)
(* table of helper addresses (a word stands for 8 bytes).                  *)
(***************************************************************************)
EXTENDS Integers, Sequences, FiniteSets

CONSTANTS
    Programs,          \* bytecode images, each a sequence of Instruction
    Pcs,               \* program counters of local functions, 0 included
    Helpers,           \* addresses of external helper functions
    MaxExtFuncs,       \* UBPF_MAX_EXT_FUNCS
    SafeRegions,       \* descriptors of safe-profile regions: [id, base, size]
    MaxSafeRegions,    \* UBPF_MAX_SAFE_REGIONS
    AddressSpace,      \* number of addresses
    Dispatchers,       \* addresses of external dispatchers
    Validates,         \* Validates[d]: the indices d's validator accepts, NULL if d has none
    Calculators,       \* stack usage calculators: functions from Pcs to Int
    DefaultUsage,      \* UBPF_EBPF_LOCAL_FUNCTION_STACK_SIZE
    Secrets,           \* values for the pointer secret, 0 included
    BufferSizes,       \* values for jitter_buffer_size, in words
    DefaultBufferSize, \* DEFAULT_JITTER_BUFFER_SIZE
    BodySize(_, _, _), \* BodySize(p, m, b): words emitted for the instructions
    EpilogueSize,      \* words of the epilogue and the retpoline
    Clients,           \* the embedders considered, see IsClient
    NULL

Idx == 0 .. MaxExtFuncs - 1
UnwindIdx == 0 .. MaxExtFuncs   \* any unsigned number is taken, also one out of range
Modes == {"Basic", "Extended"}
Profiles == {"LEGACY", "SAFE"}
Unknown == -1
UsageWidth == 65536             \* values of uint16_t
UsageRange == 0 .. UsageWidth - 1

Instruction ==
    [op : {"other", "invalid"}] \cup [op : {"call"}, idx : Nat]
                                \cup [op : {"local"}, pc : Pcs]

\* An embedder: the API functions it calls, the programs it loads, whether it
\* registers NULL for a helper or for the dispatcher, and what may fail around it:
\* "calloc", "mmap", "mprotect", "translate".
IsClient(c) == c.programs \subseteq Programs /\ c.withdraws \in BOOLEAN

Resources == {"vm", "ext_funcs", "ext_func_names", "usage",
              "insts", "int_funcs", "jitted", "buffer"}

ASSUME ConstantsAssumption ==
    /\ Programs \subseteq Seq(Instruction)
    /\ Pcs \subseteq Nat /\ 0 \in Pcs
    /\ MaxExtFuncs \in Nat \ {0}
    /\ SafeRegions \subseteq [id : Nat, base : 0 .. AddressSpace - 1, size : 0 .. AddressSpace - 1]
    /\ MaxSafeRegions \in Nat /\ AddressSpace \in Nat
    /\ DOMAIN Validates = Dispatchers
    /\ \A d \in Dispatchers : Validates[d] = NULL \/ Validates[d] \subseteq Nat
    /\ Calculators \subseteq [Pcs -> Int]
    /\ DefaultUsage \in UsageRange /\ DefaultUsage % 16 = 0
    /\ 0 \in Secrets
    /\ BufferSizes \subseteq Nat /\ DefaultBufferSize \in BufferSizes
    /\ EpilogueSize \in Nat
    /\ \A p \in Programs \cup {NULL}, m \in Modes, b \in BOOLEAN :
           BodySize(p, m, b) \in Nat
    /\ \A c \in Clients : IsClient(c)

StoredCode == [prog : Programs, alloc : {"mmap", "malloc"}, secret : Secrets]
UsageTable == [Pcs -> UsageRange \cup {Unknown}]
Word == {"insn"} \cup Helpers \cup Dispatchers \cup {NULL}

\* Mappings of native code of n words, at most a buffer's worth.
CodeSizes == UNION {0 .. b : b \in BufferSizes}
NativeCodes(n) ==
    [prog : Programs, mode : Modes, unwind : UnwindIdx \cup {NULL}, doff : Nat, hoff : Nat,
     size : {n}, missing : Nat, code : [0 .. n - 1 -> Word], prot : {"RX", "RW"}]

ASSUME NullAssumption ==
    /\ NULL \notin SafeRegions /\ NULL \notin UnwindIdx
    /\ NULL \notin Programs /\ NULL \notin Helpers /\ NULL \notin Dispatchers
    /\ NULL \notin Calculators /\ NULL \notin [Pcs -> BOOLEAN]
    /\ NULL \notin UsageTable /\ NULL \notin StoredCode
    /\ \A n \in CodeSizes : NULL \notin NativeCodes(n)

VARIABLES
    status,       \* "none" (no VM), "live", or "crashed" (by a pointer it may not use)
    insts,        \* vm->insts: NULL or the stored program
    int_funcs,    \* vm->int_funcs: NULL or a mark per pc
    usage,        \* vm->local_func_stack_usage: NULL or one entry per pc
    jitted,       \* vm->jitted: NULL or the mapping that holds native code
    jitted_result,\* vm->jitted_result
    ext_funcs,    \* vm->ext_funcs
    safe_helpers, \* vm->safe_helpers: the function each entry describes, or NULL
    safe_regions, \* vm->safe_regions: the region in each slot, or NULL
    dispatcher,   \* vm->dispatcher (and its validator)
    config,       \* the remaining settings of the VM
    heap,         \* allocations not passed to a release function yet, by resource
    misfreed,     \* was bytecode ever given to another allocator than its own?
    reported,     \* slots whose registration failed since the code was compiled
    client,       \* the embedder
    ret           \* did the last call succeed?

code_vars == <<insts, int_funcs, usage>>
jit_vars == <<jitted, jitted_result>>
reg_vars == <<ext_funcs, safe_helpers, safe_regions, dispatcher>>
aux_vars == <<heap, misfreed>>
vars == <<status, code_vars, jit_vars, reg_vars, config, aux_vars, reported, client, ret>>

Configs ==
    [readonly : BOOLEAN, blinding : BOOLEAN, secret : Secrets, bufsize : BufferSizes,
     calculator : Calculators \cup {NULL}, profile : Profiles, started : BOOLEAN,
     unwind : UnwindIdx \cup {NULL}]

DefaultConfig ==
    [readonly |-> TRUE, blinding |-> FALSE, secret |-> 0, bufsize |-> DefaultBufferSize,
     calculator |-> NULL, profile |-> "LEGACY", started |-> FALSE,
     unwind |-> NULL]

NoResult == [result |-> "FAILURE", mode |-> "Extended", doff |-> 0, hoff |-> 0]
RegionSlots == 1 .. MaxSafeRegions
NoRegions == [k \in RegionSlots |-> NULL]
UnknownUsage == [f \in Pcs |-> Unknown]

Acquire(h, S) == [r \in Resources |-> IF r \in S THEN h[r] + 1 ELSE h[r]]
Release(h, S) == [r \in Resources |-> IF r \in S THEN h[r] - 1 ELSE h[r]]

\* The client calls API function op, and is told ok.
Calls(op) == status = "live" /\ op \in client.calls
Returns(ok) == ret' = ok /\ UNCHANGED client
\* It may pass this pointer to a function.
Passes(fn) == fn # NULL \/ client.withdraws

\* The outcomes of a system call: it may fail when the fault is enabled.
Outcomes(fault) == IF fault \in client.faults THEN BOOLEAN ELSE {TRUE}

-----------------------------------------------------------------------------
(* Creation and destruction.                                               *)

Init ==
    /\ status = "none"
    /\ insts = NULL /\ int_funcs = NULL /\ usage = NULL
    /\ jitted = NULL /\ jitted_result = NoResult
    /\ ext_funcs = [i \in Idx |-> NULL]
    /\ safe_helpers = [i \in Idx |-> NULL] /\ safe_regions = NoRegions
    /\ dispatcher = NULL
    /\ config = DefaultConfig
    /\ heap = [r \in Resources |-> 0]
    /\ misfreed = FALSE /\ reported = {}
    /\ client \in Clients /\ ret = TRUE

\* The allocations of ubpf_create, in order.
CreateAllocations == <<"vm", "ext_funcs", "ext_func_names", "usage">>

\* What ubpf_unload_code gives back: everything but the tables of the VM.
Unloaded == {"usage", "jitted", "insts", "int_funcs"}
UnloadFrees ==
    {r \in Unloaded :
        CASE r = "usage"     -> usage # NULL
          [] r = "jitted"    -> jitted # NULL
          [] r = "insts"     -> insts # NULL
          [] r = "int_funcs" -> int_funcs # NULL}

\* The bytecode is released the way the current flag says, not the way it was
\* allocated.  munmap refuses memory of malloc, which is then lost; what free does
\* with a mapping is undefined: it may end the process.
Misfrees == insts # NULL /\ config.readonly # (insts.alloc = "mmap")
FreesMapping == Misfrees /\ insts.alloc = "mmap"
UnloadCrashes ==
    /\ FreesMapping
    /\ status' = "crashed" /\ misfreed' = TRUE
    /\ UNCHANGED <<code_vars, jit_vars, reg_vars, config, heap, reported, client, ret>>

\* The heap after ubpf_destroy of a VM that holds the allocations held:
\* ubpf_unload_code allocates a fresh usage table, unless calloc fails.
Destroyed(h, held, fresh) ==
    LET table == IF fresh THEN {"usage"} ELSE {}
    IN Release(Acquire(Release(h, held \cap Unloaded), table), (held \ Unloaded) \cup table)

\* calloc fails after n allocations: ubpf_destroy runs on the partial VM.
CreateFails(n) ==
    LET got == {CreateAllocations[k] : k \in 1 .. n} IN
    /\ \E fresh \in BOOLEAN : heap' = IF n = 0 THEN heap ELSE Destroyed(Acquire(heap, got), got, fresh)
    /\ UNCHANGED <<status, code_vars, jit_vars, reg_vars, config, misfreed, reported>>
    /\ Returns(FALSE)

ubpf_create ==
    /\ status = "none"
    /\ "ubpf_create" \in client.calls
    /\ \/ /\ status' = "live"
          /\ insts' = NULL /\ int_funcs' = NULL /\ usage' = UnknownUsage
          /\ jitted' = NULL /\ jitted_result' = NoResult
          /\ ext_funcs' = [i \in Idx |-> NULL]
          /\ safe_helpers' = [i \in Idx |-> NULL] /\ safe_regions' = NoRegions
          /\ dispatcher' = NULL
          /\ config' = DefaultConfig
          /\ heap' = Acquire(heap, {CreateAllocations[k] : k \in 1 .. 4})
          /\ reported' = {}
          /\ Returns(TRUE)
          /\ UNCHANGED misfreed
       \/ "calloc" \in client.faults /\ \E n \in 0 .. 3 : CreateFails(n)

\* ubpf_unload_code, then the tables of the VM and the VM.
ubpf_destroy ==
    /\ Calls("ubpf_destroy")
    /\ \/ UnloadCrashes
       \/ /\ \E fresh \in Outcomes("calloc") :
                heap' = Destroyed(heap, UnloadFrees \cup {"ext_funcs", "ext_func_names", "vm"}, fresh)
          /\ misfreed' = (misfreed \/ Misfrees)
          /\ status' = "none"
          /\ insts' = NULL /\ int_funcs' = NULL /\ usage' = NULL
          /\ jitted' = NULL /\ jitted_result' = NoResult
          /\ ext_funcs' = [i \in Idx |-> NULL]
          /\ safe_helpers' = [i \in Idx |-> NULL] /\ safe_regions' = NoRegions
          /\ dispatcher' = NULL
          /\ config' = DefaultConfig
          /\ reported' = {}
          /\ Returns(TRUE)

-----------------------------------------------------------------------------
(* Settings.                                                               *)

Sets(field, value) ==
    /\ config' = [config EXCEPT ![field] = value]
    /\ UNCHANGED <<status, code_vars, jit_vars, reg_vars, aux_vars, reported>>
    /\ Returns(TRUE)

Refuses ==
    /\ UNCHANGED <<status, code_vars, jit_vars, reg_vars, config, aux_vars, reported>>
    /\ Returns(FALSE)

ubpf_toggle_readonly_bytecode(enable) ==
    /\ Calls("ubpf_toggle_readonly_bytecode")
    /\ Sets("readonly", enable)

ubpf_toggle_constant_blinding(enable) ==
    /\ Calls("ubpf_toggle_constant_blinding")
    /\ Sets("blinding", enable)

ubpf_set_jit_code_size(size) ==
    /\ Calls("ubpf_set_jit_code_size")
    /\ Sets("bufsize", size)

ubpf_register_stack_usage_calculator(calc) ==
    /\ Calls("ubpf_register_stack_usage_calculator")
    /\ Sets("calculator", calc)

\* Mutant: the secret may change while code is loaded.
SetSecretAlways(secret) ==
    /\ Calls("ubpf_set_pointer_secret")
    /\ Sets("secret", secret)

\* Refused while code is loaded: stored instructions are encoded with it.
ubpf_set_pointer_secret(secret) ==
    /\ Calls("ubpf_set_pointer_secret")
    /\ IF insts # NULL
       THEN Refuses
       ELSE Sets("secret", secret)

\* Mutant: only a started execution fixes the profile.
SetProfileUntilStarted(profile) ==
    /\ Calls("ubpf_set_execution_profile")
    /\ IF config.started
       THEN Refuses
       ELSE Sets("profile", profile)

ubpf_set_execution_profile(profile) ==
    /\ Calls("ubpf_set_execution_profile")
    /\ IF insts # NULL \/ jitted # NULL \/ config.started
       THEN Refuses
       ELSE Sets("profile", profile)

\* Mutant: the index may be set again.
SetUnwindAlways(idx) ==
    /\ Calls("ubpf_set_unwind_function_index")
    /\ Sets("unwind", idx)

\* Set once in the life of a VM; NULL is 2^32 - 1, which is stored as -1: none.
ubpf_set_unwind_function_index(idx) ==
    /\ Calls("ubpf_set_unwind_function_index")
    /\ IF config.unwind # NULL
       THEN Refuses
       ELSE Sets("unwind", idx)

-----------------------------------------------------------------------------
(* Registration of helpers, of the dispatcher and of regions.              *)

\* jit_update_helper / jit_update_dispatcher: the slot's end must lie strictly
\* below the end of the native code.
SlotInBounds(slot) == jitted # NULL /\ slot + 1 < jitted.size

WriteSlot(slot, w) ==
    IF SlotInBounds(slot) THEN [jitted EXCEPT !.code[slot] = w] ELSE jitted

Protected(j, prot) == IF j = NULL THEN NULL ELSE [j EXCEPT !.prot = prot]

\* Mutant: the result of the update is ignored.
UpdateNativeUnchecked(slot, w, ok) ==
    \/ jitted_result.result = "FAILURE" /\ ok = TRUE /\ UNCHANGED jitted
    \/ jitted_result.result = "SUCCESS" /\ "mprotect" \in client.faults /\ ok = FALSE /\ UNCHANGED jitted
    \/ /\ jitted_result.result = "SUCCESS"
       /\ \E again \in Outcomes("mprotect") :
             /\ ok = again
             /\ jitted' = Protected(WriteSlot(slot, w), IF again THEN "RX" ELSE "RW")

\* Make the code writable, update the slot, make it executable again.
UpdateNative(slot, w, ok) ==
    \/ /\ jitted_result.result = "FAILURE"
       /\ ok = TRUE
       /\ UNCHANGED jitted
    \/ /\ jitted_result.result = "SUCCESS"
       /\ "mprotect" \in client.faults
       /\ ok = FALSE
       /\ UNCHANGED jitted
    \/ /\ jitted_result.result = "SUCCESS"
       /\ \E again \in Outcomes("mprotect") :
             /\ ok = (again /\ SlotInBounds(slot))
             /\ jitted' = Protected(WriteSlot(slot, w), IF again THEN "RX" ELSE "RW")

Reports(slot, ok) == reported' = IF ok THEN reported \ {slot} ELSE reported \cup {slot}

\* ubpf_register, returning ok.
Register(idx, fn, ok) ==
    /\ ext_funcs' = [ext_funcs EXCEPT ![idx] = fn]
    /\ UpdateNative(jitted_result.hoff + idx, fn, ok)
    /\ Reports(idx, ok)
    /\ UNCHANGED <<status, code_vars, jitted_result, safe_regions, dispatcher, config, aux_vars>>

ubpf_register(idx, fn) ==
    /\ Calls("ubpf_register") /\ Passes(fn)
    /\ \/ idx \notin Idx /\ Refuses
       \/ /\ idx \in Idx
          /\ \E ok \in BOOLEAN : Register(idx, fn, ok) /\ Returns(ok)
          /\ UNCHANGED safe_helpers

\* The result's metadata is recorded only when ubpf_register succeeded.
ubpf_register_safe_helper(idx, fn) ==
    /\ Calls("ubpf_register_safe_helper")
    /\ \/ Refuses     \* a malformed descriptor
       \/ /\ idx \in Idx /\ fn # NULL
          /\ \E ok \in BOOLEAN :
                /\ Register(idx, fn, ok)
                /\ safe_helpers' = IF ok THEN [safe_helpers EXCEPT ![idx] = fn]
                                         ELSE safe_helpers
                /\ Returns(ok)

DispatcherSlot == -1

ubpf_register_external_dispatcher(d) ==
    /\ Calls("ubpf_register_external_dispatcher") /\ Passes(d)
    /\ dispatcher' = d
    /\ \E ok \in BOOLEAN :
          /\ UpdateNative(jitted_result.doff, d, ok)
          /\ Reports(DispatcherSlot, ok)
          /\ Returns(ok)
    /\ UNCHANGED <<status, code_vars, jitted_result, ext_funcs, safe_helpers, safe_regions, config,
                   aux_vars>>

\* Mutant: a region may reach past the end of the address space.
RegionAcceptedWrapping(r) == r.size # 0 /\ r.base # 0

\* A region is not empty, not at address 0, and its end does not wrap.
RegionAccepted(r) ==
    /\ r.size # 0 /\ r.base # 0
    /\ (r.base + r.size) % AddressSpace >= r.base

InUse(k) == safe_regions[k] # NULL
FirstSlot(S) == CHOOSE k \in S : \A l \in S : k <= l

\* ubpf_safe_find_region_by_id, over the table t.
ubpf_safe_find_region_by_id(t, id) ==
    LET found == {k \in RegionSlots : t[k] # NULL /\ t[k].id = id}
    IN IF found = {} THEN NULL ELSE t[FirstSlot(found)]

\* Mutant: when the table is full, the first slot is taken.
RegionSlotEvicting(id) ==
    LET same == {k \in RegionSlots : InUse(k) /\ safe_regions[k].id = id}
        free == {k \in RegionSlots : ~InUse(k)}
    IN IF same # {} THEN same ELSE IF free # {} THEN free ELSE RegionSlots

\* The slots that qualify: the one that has the id already, or else the free ones.
RegionSlot(id) ==
    LET same == {k \in RegionSlots : InUse(k) /\ safe_regions[k].id = id}
    IN IF same # {} THEN same ELSE {k \in RegionSlots : ~InUse(k)}

ubpf_register_safe_region(r) ==
    /\ Calls("ubpf_register_safe_region")
    /\ \/ Refuses   \* no descriptor, or a kind, a reserved id or permissions it may not have
       \/ /\ LET ok == RegionAccepted(r) /\ RegionSlot(r.id) # {}
             IN /\ safe_regions' = IF ok THEN [safe_regions EXCEPT ![FirstSlot(RegionSlot(r.id))] = r]
                                   ELSE safe_regions
                /\ Returns(ok)
          /\ UNCHANGED <<status, code_vars, jit_vars, ext_funcs, safe_helpers, dispatcher, config, aux_vars,
                         reported>>

-----------------------------------------------------------------------------
(* Loading and unloading.                                                  *)

\* Mutant: the calculator's result is not cut to 16 bits.
CalculateWide(table, fs) ==
    [f \in Pcs |->
        IF f \in fs /\ table[f] = Unknown
        THEN IF config.calculator = NULL THEN DefaultUsage ELSE config.calculator[f]
        ELSE table[f]]

\* ubpf_calculate_stack_usage_for_local_func, for every pc of fs: entries that
\* are already known are kept.
Calculate(table, fs) ==
    [f \in Pcs |->
        IF f \in fs /\ table[f] = Unknown
        THEN IF config.calculator = NULL THEN DefaultUsage
             ELSE config.calculator[f] % UsageWidth
        ELSE table[f]]

LocalTargets(p) == {p[k].pc : k \in {j \in DOMAIN p : p[j].op = "local"}}
HelperCalls(p) == {p[k].idx : k \in {j \in DOMAIN p : p[j].op = "call"}}

\* Mutant: an index in range counts as registered.
CallResolvesInRange(idx) ==
    IF dispatcher # NULL THEN idx \in Validates[dispatcher] ELSE idx \in Idx

CallResolves(idx) ==
    IF dispatcher # NULL THEN idx \in Validates[dispatcher]
    ELSE idx \in Idx /\ ext_funcs[idx] # NULL

\* Does instruction k of p fail validation, given the completed usage table?
Fails(p, k, table) ==
    \/ p[k].op = "invalid"
    \/ p[k].op = "call" /\ ~CallResolves(p[k].idx)
    \/ p[k].op = "local" /\ table[p[k].pc] % 16 # 0

\* Mutant: the stack usage of the entry point is not calculated.
VisitedCallsOnly(p, table) ==
    {p[k].pc : k \in {j \in DOMAIN p :
        p[j].op = "local" /\ \A i \in 1 .. j - 1 : ~Fails(p, i, table)}}

\* The entry point and the call targets met up to the first failure.
Visited(p, table) ==
    {0} \cup (IF table[0] % 16 # 0 THEN {}
              ELSE {p[k].pc : k \in {j \in DOMAIN p :
                       p[j].op = "local" /\ \A i \in 1 .. j - 1 : ~Fails(p, i, table)}})

Valid(p, table) ==
    table[0] % 16 = 0 /\ \A k \in DOMAIN p : ~Fails(p, k, table)

\* validate dereferences NULL: there is no usage table, or the first helper call
\* it comes to is to be judged by a dispatcher registered without a validator.
DereferencesNull(p) ==
    \/ usage = NULL
    \/ /\ usage # NULL /\ dispatcher # NULL /\ Validates[dispatcher] = NULL
       /\ LET table == Calculate(usage, Pcs) IN
          /\ table[0] % 16 = 0
          /\ \E k \in DOMAIN p :
                /\ p[k].op = "call"
                /\ \A i \in 1 .. k - 1 : p[i].op # "call" /\ ~Fails(p, i, table)

\* The stack usage table validate leaves behind, whether it accepts p or not.
UsageAfterValidate(p) ==
    Calculate(usage, Visited(p, Calculate(usage, Pcs)))

LoadFails(p) ==
    /\ usage' = UsageAfterValidate(p)
    /\ UNCHANGED <<status, insts, int_funcs, jit_vars, reg_vars, config, misfreed, reported>>
    /\ Returns(FALSE)

LoadStores(p) ==
    /\ insts' = [prog |-> p, alloc |-> IF config.readonly THEN "mmap" ELSE "malloc",
                 secret |-> config.secret]
    /\ int_funcs' = [f \in Pcs |-> f \in LocalTargets(p)]
    /\ usage' = UsageAfterValidate(p)
    /\ heap' = Acquire(heap, {"insts", "int_funcs"})
    /\ UNCHANGED <<status, jit_vars, reg_vars, config, misfreed, reported>>
    /\ Returns(TRUE)

\* Mutant: bytecode is lost when int_funcs cannot be allocated.
LoadFaultsLosing(p) ==
    {f \in {[why |-> IF config.readonly THEN "mmap" ELSE "calloc", got |-> {}, freed |-> {}],
            [why |-> "calloc", got |-> {"insts"}, freed |-> {}],
            [why |-> IF config.readonly THEN "mprotect" ELSE "none",
             got |-> {"insts", "int_funcs"}, freed |-> {"insts", "int_funcs"}]} :
        f.why \in client.faults}

\* The failures of loading a valid p, with what was allocated and given back: no
\* memory for the indices of its sub-programs; none for the bytecode; none for
\* int_funcs; protection refused.
LoadFaults(p) ==
    {f \in {[why |-> IF LocalTargets(p) # {} THEN "calloc" ELSE "none", got |-> {}, freed |-> {}],
            [why |-> IF config.readonly THEN "mmap" ELSE "calloc", got |-> {}, freed |-> {}],
            [why |-> "calloc", got |-> {"insts"}, freed |-> {"insts"}],
            [why |-> IF config.readonly THEN "mprotect" ELSE "none",
             got |-> {"insts", "int_funcs"}, freed |-> {"insts", "int_funcs"}]} :
        f.why \in client.faults}

LoadFault(p) ==
    /\ \E f \in LoadFaults(p) : heap' = Release(Acquire(heap, f.got), f.freed)
    /\ LoadFails(p)

ubpf_load(p) ==
    /\ Calls("ubpf_load") /\ p \in client.programs
    /\ \/ Refuses       \* code_len not a multiple of 8, or too long
       \/ insts # NULL /\ Refuses
       \/ /\ insts = NULL /\ DereferencesNull(p)
          /\ status' = "crashed"
          /\ UNCHANGED <<code_vars, jit_vars, reg_vars, config, aux_vars, reported, client, ret>>
       \/ /\ insts = NULL /\ ~DereferencesNull(p)
          /\ IF Valid(p, Calculate(usage, Pcs))
             THEN LoadStores(p) \/ LoadFault(p)
             ELSE LoadFails(p) /\ UNCHANGED heap

\* jitted_result keeps its value although jitted is gone.
ubpf_unload_code ==
    /\ Calls("ubpf_unload_code")
    /\ \/ UnloadCrashes
       \/ /\ \E fresh \in Outcomes("calloc") :
                /\ usage' = IF fresh THEN UnknownUsage ELSE NULL
                /\ heap' = Acquire(Release(heap, UnloadFrees), IF fresh THEN {"usage"} ELSE {})
          /\ misfreed' = (misfreed \/ Misfrees)
          /\ insts' = NULL /\ int_funcs' = NULL /\ jitted' = NULL
          /\ UNCHANGED <<status, jitted_result, reg_vars, config, reported>>
          /\ Returns(TRUE)

-----------------------------------------------------------------------------
(* Native code.                                                            *)

Least(a, b) == IF a < b THEN a ELSE b

LoadedProgram == IF insts = NULL THEN NULL ELSE insts.prog

\* Words of the complete translation: body, epilogue, dispatcher, helper table.
NativeSize(m) ==
    BodySize(LoadedProgram, m, config.blinding) + EpilogueSize + 1 + MaxExtFuncs

\* jit_translate into a buffer of size words.  Running out of space is noticed
\* at the end of the instructions only: what follows is cut off silently.
Translation(m, size, ok) ==
    LET body == BodySize(LoadedProgram, m, config.blinding) IN
    IF ~ok \/ body > size
    THEN [result |-> "FAILURE", mode |-> m, doff |-> 0, hoff |-> 0]
    ELSE [result |-> "SUCCESS", mode |-> m,
          doff |-> Least(body + EpilogueSize, size),
          hoff |-> Least(body + EpilogueSize + 1, size)]

\* The words a successful translation res leaves in the buffer.
Emitted(res, m, size) ==
    [w \in 0 .. Least(NativeSize(m), size) - 1 |->
        IF w < res.doff THEN "insn"
        ELSE IF w < res.hoff THEN dispatcher
        ELSE ext_funcs[w - res.hoff]]

ubpf_translate_ex(m, size) ==
    /\ Calls("ubpf_translate_ex")
    /\ \/ config.profile = "SAFE" /\ Refuses
       \/ /\ config.profile = "LEGACY"
          /\ \E ok \in Outcomes("translate") :
                /\ jitted_result' = Translation(m, size, ok)
                /\ Returns(jitted_result'.result = "SUCCESS")
          /\ UNCHANGED <<status, code_vars, jitted, reg_vars, config, aux_vars, reported>>

\* The copy of the native code, once mapped and executable.
NativeCode(res, m) ==
    [prog |-> insts.prog, mode |-> m, unwind |-> config.unwind, doff |-> res.doff, hoff |-> res.hoff,
     size |-> Least(NativeSize(m), config.bufsize),
     missing |-> NativeSize(m) - Least(NativeSize(m), config.bufsize),
     code |-> Emitted(res, m, config.bufsize), prot |-> "RX"]

\* Old native code is unmapped first.
HeapWithoutNative == Release(heap, IF jitted = NULL THEN {} ELSE {"jitted"})

\* No code is loaded, or calloc of the buffer fails.
CompileNothing ==
    /\ insts = NULL \/ "calloc" \in client.faults
    /\ heap' = HeapWithoutNative
    /\ jitted' = NULL
    /\ UNCHANGED <<jitted_result, reported>>

\* The buffer is released on every path; the new mapping unless it is kept.
CompileAttempt(m) ==
    /\ insts # NULL
    /\ \E ok \in Outcomes("translate"), mapped \in Outcomes("mmap"), prot \in Outcomes("mprotect") :
          LET res == Translation(m, config.bufsize, ok)
              got == res.result = "SUCCESS" /\ mapped
              kept == got /\ prot
          IN /\ jitted_result' = res
             /\ jitted' = IF kept THEN NativeCode(res, m) ELSE NULL
             /\ reported' = IF kept THEN {} ELSE reported
             /\ heap' = Release(Acquire(HeapWithoutNative,
                                        {"buffer"} \cup (IF got THEN {"jitted"} ELSE {})),
                                {"buffer"} \cup (IF got /\ ~kept THEN {"jitted"} ELSE {}))

\* Code of the requested mode, by jitted_result's account, is returned as it is.
CompileCached(m) ==
    jitted # NULL /\ jitted_result.result = "SUCCESS" /\ jitted_result.mode = m

ubpf_compile_ex(m) ==
    /\ Calls("ubpf_compile_ex")
    /\ \/ config.profile = "SAFE" /\ Refuses
       \/ /\ config.profile = "LEGACY"
          /\ \/ CompileCached(m) /\ UNCHANGED <<jit_vars, heap, reported>>
             \/ ~CompileCached(m) /\ (CompileNothing \/ CompileAttempt(m))
          /\ Returns(jitted' # NULL)
          /\ UNCHANGED <<status, code_vars, reg_vars, config, misfreed>>

\* ubpf_exec_ex up to its main loop: refused without code.
ubpf_exec_ex ==
    /\ Calls("ubpf_exec_ex")
    /\ IF insts = NULL THEN Refuses
       ELSE Sets("started", TRUE)

Next ==
    \/ ubpf_create \/ ubpf_destroy \/ ubpf_unload_code \/ ubpf_exec_ex
    \/ \E b \in BOOLEAN : ubpf_toggle_readonly_bytecode(b) \/ ubpf_toggle_constant_blinding(b)
    \/ \E n \in BufferSizes : ubpf_set_jit_code_size(n)
    \/ \E c \in Calculators \cup {NULL} : ubpf_register_stack_usage_calculator(c)
    \/ \E k \in Secrets : ubpf_set_pointer_secret(k)
    \/ \E pr \in Profiles : ubpf_set_execution_profile(pr)
    \/ \E i \in 0 .. MaxExtFuncs, fn \in Helpers \cup {NULL} :
          ubpf_register(i, fn) \/ ubpf_register_safe_helper(i, fn)
    \/ \E i \in UnwindIdx \cup {NULL} : ubpf_set_unwind_function_index(i)
    \/ \E r \in SafeRegions : ubpf_register_safe_region(r)
    \/ \E d \in Dispatchers \cup {NULL} : ubpf_register_external_dispatcher(d)
    \/ \E p \in Programs : ubpf_load(p)
    \/ \E m \in Modes : ubpf_compile_ex(m) \/ \E n \in BufferSizes : ubpf_translate_ex(m, n)

Spec == Init /\ [][Next]_vars

-----------------------------------------------------------------------------
(* Properties.                                                             *)

\* Every variable keeps the shape of the field of struct ubpf_vm it stands for.
TypeOK ==
    /\ status \in {"none", "live", "crashed"}
    /\ insts = NULL \/ insts \in StoredCode
    /\ int_funcs = NULL \/ int_funcs \in [Pcs -> BOOLEAN]
    /\ usage = NULL \/ usage \in UsageTable
    /\ jitted_result \in [result : {"SUCCESS", "FAILURE"}, mode : Modes, doff : Nat, hoff : Nat]
    /\ ext_funcs \in [Idx -> Helpers \cup {NULL}]
    /\ safe_helpers \in [Idx -> Helpers \cup {NULL}]
    /\ dispatcher \in Dispatchers \cup {NULL}
    /\ config \in Configs
    /\ safe_regions \in [RegionSlots -> SafeRegions \cup {NULL}]
    /\ heap \in [Resources -> Int]
    /\ misfreed \in BOOLEAN /\ client \in Clients /\ ret \in BOOLEAN
    /\ reported \subseteq Idx \cup {DispatcherSlot}
    /\ jitted = NULL \/ \E n \in CodeSizes : jitted \in NativeCodes(n)

Holds(r) ==
    CASE r \in {"vm", "ext_funcs", "ext_func_names"} -> status # "none"
      [] r = "usage"     -> usage # NULL
      [] r = "insts"     -> insts # NULL
      [] r = "int_funcs" -> int_funcs # NULL
      [] r = "jitted"    -> jitted # NULL
      [] r = "buffer"    -> FALSE

\* Whatever allocation or protection fails in ubpf_create, ubpf_load or
\* ubpf_compile_ex, and however often code is loaded, compiled and unloaded,
\* exactly the allocations the VM still points to have not been given back: none
\* is forgotten and none is released twice.
NoLeak == \A r \in Resources : heap[r] = IF Holds(r) THEN 1 ELSE 0

\* Native code in the VM is always the translation of the bytecode loaded now,
\* never of a program unloaded earlier, and never exists in the safe profile.
NativeMatchesBytecode ==
    jitted # NULL =>
        insts # NULL /\ jitted.prog = insts.prog /\ config.profile = "LEGACY"

\* ubpf_fetch_instruction decodes what ubpf_load encoded: the secret in force
\* is the one the stored instructions were encoded with.
FetchDecodes == insts # NULL => insts.secret = config.secret

\* The assertion of ubpf_stack_usage_for_local_func: the entry point and every
\* marked local function of the loaded program have a known, aligned usage.
LoadedUsageKnown ==
    insts # NULL =>
        /\ usage # NULL /\ int_funcs # NULL
        /\ \A f \in Pcs : f = 0 \/ int_funcs[f] => usage[f] # Unknown /\ usage[f] % 16 = 0

\* The check of helper indices made by validate at load time still holds
\* whenever the program may run: no call goes through a NULL pointer, as long as
\* the embedder does not withdraw a helper or the dispatcher.
CallsResolvable ==
    insts # NULL /\ ~client.withdraws =>
        \A i \in HelperCalls(insts.prog) :
            dispatcher # NULL \/ (i \in Idx /\ ext_funcs[i] # NULL)

\* The addresses embedded in native code are those registered in the VM, and the
\* code is executable, except where a registration since the code was compiled
\* returned an error: whichever of its steps failed, the embedder was told.  This
\* needs jitted_result to describe the code that is mapped, which is lost when
\* ubpf_translate_ex translates into a buffer of the embedder.
NativeTablesCoherent ==
    jitted # NULL /\ jitted.missing = 0 /\ "ubpf_translate_ex" \notin client.calls =>
        /\ jitted.prot # "RX" => reported # {}
        /\ \A i \in Idx \ reported : jitted.code[jitted.hoff + i] = ext_funcs[i]
        /\ DispatcherSlot \notin reported => jitted.code[jitted.doff] = dispatcher

\* Native code comes to lack the unwind index of the VM in one way only: it was
\* there, compiled without an index, when the first index was set.  Whatever
\* ubpf_compile_ex makes, on any path, has the index the interpreter uses, and
\* code that has an index keeps agreeing with the VM.
UnwindCompiled ==
    [][jitted' # NULL /\ jitted'.unwind # config'.unwind =>
          /\ jitted # NULL /\ jitted'.mode = jitted.mode
          /\ jitted.unwind = NULL /\ jitted'.unwind = NULL]_vars

\* What the safe-profile interpreter relies on (SafeAssumption in UbpfSafe): the
\* regions in use have distinct ids, none is empty, at address 0 or wraps.
RegionsRegistered ==
    LET used == {k \in RegionSlots : InUse(k)}
    IN /\ \A k \in used : /\ safe_regions[k].base # 0 /\ safe_regions[k].size # 0
                          /\ safe_regions[k].base + safe_regions[k].size < AddressSpace
       /\ \A k, l \in used : safe_regions[k].id = safe_regions[l].id => k = l

\* Looking up an id finds what was last registered under it: a registration,
\* whether it takes a new slot, replaces a region or is refused because the
\* table is full, changes what is found under no other id.
RegionsFoundAsRegistered ==
    [][\A r \in SafeRegions : ubpf_register_safe_region(r) =>
        \A id \in {s.id : s \in SafeRegions} :
            ubpf_safe_find_region_by_id(safe_regions', id) =
                IF ret' /\ r.id = id THEN r
                ELSE ubpf_safe_find_region_by_id(safe_regions, id)]_vars

(* What the documentation says and the code does not do.                   *)

\* Registering a helper at any valid index succeeds in a VM with native code.
RegisterUpdatesNative == jitted # NULL /\ client.faults = {} => reported \cap Idx = {}

\* Toggling read-only storage has no effect on code that is loaded:
\* ubpf_unload_code gives bytecode back to the allocator it came from.
ReleasedAsAllocated == ~misfreed

\* Once the unwind index is set, a call of that helper that returns 0 ends the
\* program: the native code of the VM tests for the index the VM has.
NativeUnwindCurrent == jitted # NULL => jitted.unwind = config.unwind

=============================================================================
