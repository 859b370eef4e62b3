---------------------------- MODULE UbpfVmProofs ----------------------------
(***************************************************************************)
(* Theorems about the life of a VM, for every set of programs, helpers,    *)
(* dispatchers, regions and calculators, every table and buffer size, and  *)
(* every set of failing system calls.                                      *)
(***************************************************************************)
EXTENDS UbpfVm, NaturalOrder, TLAPS

\* The numbers among the constants.
LEMMA Numbers ==
    /\ MaxExtFuncs \in Nat \ {0} /\ EpilogueSize \in Nat /\ AddressSpace \in Nat
    /\ BufferSizes \subseteq Nat
BY ConstantsAssumption, Zenon

\* Helpers, dispatchers and NULL are words of native code.
LEMMA Words ==
    /\ \A fn \in Helpers \cup {NULL} : fn \in Word
    /\ \A d \in Dispatchers \cup {NULL} : d \in Word
BY Zenon DEF Word

\* The offsets of the last compilation are numbers.
LEMMA ResultTyped ==
    ASSUME TypeOK
    PROVE  jitted_result.doff \in Nat /\ jitted_result.hoff \in Nat
<1>1. jitted_result \in [result : {"SUCCESS", "FAILURE"}, mode : Modes, doff : Nat, hoff : Nat]
  BY Zenon DEF TypeOK
<1> QED
  BY <1>1, Zenon

\* The configured size of the buffer is one of the sizes.
LEMMA BufferTyped ==
    ASSUME TypeOK
    PROVE  config.bufsize \in BufferSizes /\ config.bufsize \in Nat
<1>1. config \in Configs
  BY Zenon DEF TypeOK
<1> QED
  BY <1>1, Numbers, Zenon DEF Configs

\* A new VM is configured with values of the right types.
LEMMA DefaultsTyped == DefaultConfig \in Configs
BY ConstantsAssumption, Zenon DEF DefaultConfig, Configs, Profiles

\* Setting a field of the configuration to a value of its type keeps the type.
LEMMA SettingTyped ==
    ASSUME config \in Configs
    PROVE  /\ \A v \in BOOLEAN : [config EXCEPT !["readonly"] = v] \in Configs
           /\ \A v \in BOOLEAN : [config EXCEPT !["blinding"] = v] \in Configs
           /\ \A v \in BufferSizes : [config EXCEPT !["bufsize"] = v] \in Configs
           /\ \A v \in Calculators \cup {NULL} : [config EXCEPT !["calculator"] = v] \in Configs
           /\ \A v \in Secrets : [config EXCEPT !["secret"] = v] \in Configs
           /\ \A v \in Profiles : [config EXCEPT !["profile"] = v] \in Configs
           /\ \A v \in UnwindIdx \cup {NULL} : [config EXCEPT !["unwind"] = v] \in Configs
           /\ [config EXCEPT !["started"] = TRUE] \in Configs
BY Zenon DEF Configs

\* No VM, and no native code: everything is absent or has its default.
LEMMA InitTyped == Init => TypeOK
<1> SUFFICES ASSUME Init PROVE TypeOK
  BY Zenon
<1>1. /\ misfreed \in BOOLEAN /\ client \in Clients /\ ret \in BOOLEAN /\ config \in Configs
      /\ jitted = NULL /\ insts = NULL /\ int_funcs = NULL /\ usage = NULL
      /\ dispatcher \in Dispatchers \cup {NULL} /\ reported \subseteq Idx \cup {DispatcherSlot}
  BY DefaultsTyped, Zenon DEF Init
<1>2. /\ status \in {"none", "live", "crashed"} /\ heap \in [Resources -> Int]
      /\ jitted_result \in [result : {"SUCCESS", "FAILURE"}, mode : Modes, doff : Nat, hoff : Nat]
      /\ ext_funcs \in [Idx -> Helpers \cup {NULL}] /\ safe_helpers \in [Idx -> Helpers \cup {NULL}]
      /\ safe_regions \in [RegionSlots -> SafeRegions \cup {NULL}]
  BY DEF Init, NoResult, Modes, NoRegions
<1> QED
  BY <1>1, <1>2, Zenon DEF TypeOK

\* Acquiring and releasing only counts.
LEMMA HeapTyped ==
    ASSUME NEW h \in [Resources -> Int], NEW S
    PROVE  Acquire(h, S) \in [Resources -> Int] /\ Release(h, S) \in [Resources -> Int]
BY DEF Acquire, Release

\* So does destroying.
LEMMA DestroyedTyped ==
    ASSUME NEW h \in [Resources -> Int], NEW held, NEW fresh
    PROVE  Destroyed(h, held, fresh) \in [Resources -> Int]
BY HeapTyped, Zenon DEF Destroyed

\* The stack usage of local functions is a known 16-bit number once calculated.
LEMMA CalculateTyped ==
    ASSUME TypeOK, usage # NULL, NEW fs
    PROVE  /\ Calculate(usage, fs) \in UsageTable
           /\ \A f \in Pcs : f \in fs => Calculate(usage, fs)[f] \in UsageRange
           /\ \A f \in Pcs : f \in fs => Calculate(usage, fs)[f] = Calculate(usage, Pcs)[f]
<1>1. usage \in UsageTable /\ config.calculator \in Calculators \cup {NULL}
  BY Zenon DEF TypeOK, Configs
<1>2. DefaultUsage \in UsageRange /\ Calculators \subseteq [Pcs -> Int]
  BY ConstantsAssumption, Zenon
<1> DEFINE v(f) == IF config.calculator = NULL THEN DefaultUsage
                   ELSE config.calculator[f] % UsageWidth
<1>3. ASSUME NEW f \in Pcs PROVE v(f) \in UsageRange
  <2>1. UsageWidth \in Nat \ {0}
    BY DEF UsageWidth
  <2>2. config.calculator # NULL => config.calculator[f] \in Int
    BY <1>1, <1>2, Zenon
  <2> QED
    BY <1>2, <2>1, <2>2 DEF UsageRange
<1>4. ASSUME NEW S PROVE Calculate(usage, S) = [f \in Pcs |-> IF f \in S /\ usage[f] = Unknown THEN v(f) ELSE usage[f]]
  BY Zenon DEF Calculate
<1>5. \A f \in Pcs : usage[f] \in UsageRange \cup {Unknown}
  BY <1>1, Zenon DEF UsageTable
<1> HIDE DEF v
<1> QED
  BY <1>3, <1>4, <1>5 DEF UsageTable

Results == [result : {"SUCCESS", "FAILURE"}, mode : Modes, doff : Nat, hoff : Nat]

\* The size of a translation is a natural number, whether code is loaded or not.
LEMMA SizesTyped ==
    ASSUME TypeOK, NEW m \in Modes
    PROVE  BodySize(LoadedProgram, m, config.blinding) \in Nat /\ NativeSize(m) \in Nat
<1>1. LoadedProgram \in Programs \cup {NULL} /\ config.blinding \in BOOLEAN
  BY Zenon DEF TypeOK, LoadedProgram, StoredCode, Configs
<1>2. BodySize(LoadedProgram, m, config.blinding) \in Nat
  BY <1>1, ConstantsAssumption, Zenon
<1> QED
  BY <1>2, ConstantsAssumption DEF NativeSize

\* jit_translate reports offsets that lie in the buffer.
LEMMA TranslationTyped ==
    ASSUME TypeOK, NEW m \in Modes, NEW size \in BufferSizes, NEW ok \in BOOLEAN
    PROVE  Translation(m, size, ok) \in Results
BY SizesTyped, ConstantsAssumption DEF Translation, Results, Least

\* Native code is made of instructions, the dispatcher and helper addresses, and
\* fits the buffer it was translated into.
LEMMA NativeCodeTyped ==
    ASSUME TypeOK, insts # NULL, NEW m \in Modes, NEW ok \in BOOLEAN,
           Translation(m, config.bufsize, ok).result = "SUCCESS"
    PROVE  LET n == Least(NativeSize(m), config.bufsize)
           IN n \in CodeSizes
              /\ NativeCode(Translation(m, config.bufsize, ok), m) \in NativeCodes(n)
<1> DEFINE n == Least(NativeSize(m), config.bufsize)
           res == Translation(m, config.bufsize, ok)
           body == BodySize(LoadedProgram, m, config.blinding)
<1>1. config.bufsize \in BufferSizes /\ config.bufsize \in Nat /\ config.unwind \in UnwindIdx \cup {NULL}
  BY BufferTyped, Zenon DEF TypeOK, Configs
<1>2. NativeSize(m) \in Nat /\ body \in Nat
  BY SizesTyped, Zenon
<1>3. n \in 0 .. config.bufsize
  BY <1>1, <1>2 DEF Least
<1>4. n \in CodeSizes
  BY <1>1, <1>3, Zenon DEF CodeSizes
<1>5. res \in Results
  BY <1>1, TranslationTyped, Zenon
<1>6. res.doff = Least(body + EpilogueSize, config.bufsize)
      /\ res.hoff = Least(body + EpilogueSize + 1, config.bufsize)
  BY Zenon DEF Translation
<1>7. ASSUME NEW w \in 0 .. n - 1, ~ w < res.hoff PROVE w - res.hoff \in Idx
  BY <1>1, <1>2, <1>3, <1>6, <1>7, Numbers DEF Least, NativeSize, Idx
<1>8. Emitted(res, m, config.bufsize) \in [0 .. n - 1 -> Word]
  BY <1>7, Zenon DEF Emitted, Word, TypeOK
<1>9. NativeSize(m) - n \in Nat
  BY <1>1, <1>2 DEF Least
<1>10. insts.prog \in Programs
  BY Zenon DEF TypeOK, StoredCode
<1> QED
  BY <1>1, <1>4, <1>5, <1>8, <1>9, <1>10, Zenon DEF NativeCode, NativeCodes, Results

\* Updating a slot of native code keeps it native code.
LEMMA UpdateTyped ==
    ASSUME TypeOK, NEW slot \in Int, NEW w \in Word, NEW ok, UpdateNative(slot, w, ok)
    PROVE  jitted' = NULL \/ \E n \in CodeSizes : jitted' \in NativeCodes(n)
<1>1. CASE UNCHANGED jitted
  BY <1>1, Zenon DEF TypeOK
<1>2. CASE \E again \in BOOLEAN :
              jitted' = Protected(WriteSlot(slot, w), IF again THEN "RX" ELSE "RW")
  <2>1. CASE jitted = NULL
    BY <1>2, <2>1, Zenon DEF Protected, WriteSlot, SlotInBounds
  <2>2. ASSUME NEW n \in CodeSizes, jitted \in NativeCodes(n)
        PROVE  jitted' \in NativeCodes(n)
    <3>1. WriteSlot(slot, w) \in NativeCodes(n)
      BY <2>2, Zenon DEF WriteSlot, SlotInBounds, NativeCodes
    <3> QED
      BY <1>2, <3>1, NullAssumption DEF Protected, NativeCodes
  <2> QED
    BY <2>1, <2>2, Zenon DEF TypeOK
<1> QED
  BY <1>1, <1>2, Zenon DEF UpdateNative, Outcomes

\* The types of the fields of the VM and of what is recorded about them.
VmTyped ==
    /\ status \in {"none", "live", "crashed"}
    /\ insts = NULL \/ insts \in StoredCode
    /\ int_funcs = NULL \/ int_funcs \in [Pcs -> BOOLEAN]
    /\ usage = NULL \/ usage \in UsageTable
    /\ jitted_result \in [result : {"SUCCESS", "FAILURE"}, mode : Modes, doff : Nat, hoff : Nat]
    /\ ext_funcs \in [Idx -> Helpers \cup {NULL}]
    /\ safe_helpers \in [Idx -> Helpers \cup {NULL}]
    /\ dispatcher \in Dispatchers \cup {NULL}
    /\ config \in Configs
    /\ safe_regions \in [RegionSlots -> SafeRegions \cup {NULL}]
    /\ heap \in [Resources -> Int]
    /\ reported \subseteq Idx \cup {DispatcherSlot}
    /\ jitted = NULL \/ \E n \in CodeSizes : jitted \in NativeCodes(n)

\* Every API call keeps them.
LEMMA StepVmTyped == TypeOK /\ [Next]_vars => VmTyped'
<1> SUFFICES ASSUME TypeOK, [Next]_vars PROVE VmTyped'
  BY Zenon
<1> USE DEF code_vars, jit_vars, reg_vars, aux_vars, VmTyped
<1>1. ASSUME Refuses PROVE VmTyped'
  BY <1>1, Zenon DEF Refuses, TypeOK
<1>2. ASSUME NEW field, NEW value, Sets(field, value),
             [config EXCEPT ![field] = value] \in Configs
      PROVE  VmTyped'
  BY <1>2, Zenon DEF Sets, TypeOK
<1>20. UnloadCrashes => VmTyped'
  BY Zenon DEF UnloadCrashes, TypeOK
<1>3. CASE UNCHANGED vars
  BY <1>3, Zenon DEF vars, TypeOK
<1>4. CASE ubpf_create
  <2>1. CASE \E n \in 0 .. 3 : CreateFails(n)
    <3>1. heap' \in [Resources -> Int]
      <4>1. heap \in [Resources -> Int]
        BY Zenon DEF TypeOK
      <4>2. PICK S, fresh : heap' = heap \/ heap' = Destroyed(Acquire(heap, S), S, fresh)
        BY <2>1, Zenon DEF CreateFails
      <4> QED
        BY <4>1, <4>2, HeapTyped, DestroyedTyped
    <3> QED
      BY <2>1, <3>1, Zenon DEF CreateFails, TypeOK
  <2>2. CASE status' = "live"
    <3>1. heap' \in [Resources -> Int]
      BY <1>4, <2>2, HeapTyped DEF ubpf_create, CreateFails, TypeOK
    <3> QED
      BY <1>4, <2>2, <3>1, DefaultsTyped, ConstantsAssumption
         DEF ubpf_create, CreateFails, TypeOK, NoResult, Modes, NoRegions, UnknownUsage, UsageTable
  <2> QED
    BY <1>4, <2>1, <2>2, Zenon DEF ubpf_create
<1>5. CASE ubpf_destroy
  <2>1. CASE UnloadCrashes
    BY <2>1, <1>20, Zenon
  <2>2. CASE ~UnloadCrashes
    <3>1. heap' \in [Resources -> Int]
      <4>1. PICK fresh \in BOOLEAN :
              heap' = Destroyed(heap, UnloadFrees \cup {"ext_funcs", "ext_func_names", "vm"}, fresh)
        BY <1>5, <2>2, Zenon DEF ubpf_destroy, Outcomes
      <4> QED
        BY <4>1, DestroyedTyped DEF TypeOK
    <3>2. /\ status' = "none" /\ insts' = NULL /\ int_funcs' = NULL /\ usage' = NULL
          /\ jitted' = NULL /\ jitted_result' = NoResult
          /\ ext_funcs' = [i \in Idx |-> NULL]
          /\ safe_helpers' = [i \in Idx |-> NULL] /\ safe_regions' = NoRegions
          /\ dispatcher' = NULL /\ config' = DefaultConfig /\ reported' = {}
      BY <1>5, <2>2, Zenon DEF ubpf_destroy
    <3> QED
      BY <3>1, <3>2, DefaultsTyped, ConstantsAssumption DEF NoResult, Modes, NoRegions
  <2> QED
    BY <2>1, <2>2, Zenon
<1>6. CASE ubpf_unload_code
  <2>1. CASE UnloadCrashes
    BY <2>1, <1>20, Zenon
  <2>2. CASE ~UnloadCrashes
    <3>1. heap' \in [Resources -> Int]
      <4>1. PICK fresh \in BOOLEAN :
              heap' = Acquire(Release(heap, UnloadFrees), IF fresh THEN {"usage"} ELSE {})
        BY <1>6, <2>2, Zenon DEF ubpf_unload_code, Outcomes
      <4> QED
        BY <4>1, HeapTyped DEF TypeOK
    <3> QED
      BY <1>6, <2>2, <3>1, Zenon DEF ubpf_unload_code, TypeOK, UnknownUsage, UsageTable
  <2> QED
    BY <2>1, <2>2, Zenon
<1>7. CASE ubpf_exec_ex
  BY <1>1, <1>2, <1>7, SettingTyped, Zenon DEF ubpf_exec_ex, TypeOK
<1>8. ASSUME NEW b \in BOOLEAN,
             ubpf_toggle_readonly_bytecode(b) \/ ubpf_toggle_constant_blinding(b)
      PROVE  VmTyped'
  BY <1>2, <1>8, SettingTyped, Zenon
     DEF ubpf_toggle_readonly_bytecode, ubpf_toggle_constant_blinding, TypeOK
<1>9. ASSUME NEW n \in BufferSizes, ubpf_set_jit_code_size(n) PROVE VmTyped'
  BY <1>2, <1>9, SettingTyped, Zenon DEF ubpf_set_jit_code_size, TypeOK
<1>10. ASSUME NEW c \in Calculators \cup {NULL}, ubpf_register_stack_usage_calculator(c)
       PROVE VmTyped'
  BY <1>2, <1>10, SettingTyped, Zenon DEF ubpf_register_stack_usage_calculator, TypeOK
<1>11. ASSUME NEW k \in Secrets, ubpf_set_pointer_secret(k) PROVE VmTyped'
  BY <1>1, <1>2, <1>11, SettingTyped, Zenon DEF ubpf_set_pointer_secret, TypeOK
<1>12. ASSUME NEW pr \in Profiles, ubpf_set_execution_profile(pr) PROVE VmTyped'
  BY <1>1, <1>2, <1>12, SettingTyped, Zenon DEF ubpf_set_execution_profile, TypeOK
<1>13. ASSUME NEW i \in UnwindIdx \cup {NULL}, ubpf_set_unwind_function_index(i) PROVE VmTyped'
  BY <1>1, <1>2, <1>13, SettingTyped, Zenon DEF ubpf_set_unwind_function_index, TypeOK
<1>14. ASSUME NEW i \in 0 .. MaxExtFuncs, NEW fn \in Helpers \cup {NULL},
              ubpf_register(i, fn) \/ ubpf_register_safe_helper(i, fn)
       PROVE  VmTyped'
  <2>1. ASSUME NEW ok \in BOOLEAN, i \in Idx, Register(i, fn, ok),
               safe_helpers' = safe_helpers \/ safe_helpers' = [safe_helpers EXCEPT ![i] = fn]
        PROVE  VmTyped'
    <3>1. fn \in Helpers \cup {NULL} /\ fn \in Word
      BY Words, Zenon
    <3>2. jitted' = NULL \/ \E n \in CodeSizes : jitted' \in NativeCodes(n)
      BY <2>1, <3>1, UpdateTyped DEF Register, TypeOK, Idx
    <3>3. reported' \subseteq Idx \cup {DispatcherSlot}
      BY <2>1, Zenon DEF Register, Reports, TypeOK
    <3> QED
      BY <2>1, <3>1, <3>2, <3>3 DEF Register, TypeOK
  <2> QED
    BY <1>1, <1>14, <2>1, Zenon DEF ubpf_register, ubpf_register_safe_helper
<1>15. ASSUME NEW r \in SafeRegions, ubpf_register_safe_region(r) PROVE VmTyped'
  BY <1>1, <1>15, Zenon DEF ubpf_register_safe_region, TypeOK
<1>16. ASSUME NEW d \in Dispatchers \cup {NULL}, ubpf_register_external_dispatcher(d)
       PROVE  VmTyped'
  <2>1. d \in Dispatchers \cup {NULL} /\ d \in Word
    BY Words, Zenon
  <2>2. jitted' = NULL \/ \E n \in CodeSizes : jitted' \in NativeCodes(n)
    BY <1>16, <2>1, UpdateTyped DEF ubpf_register_external_dispatcher, TypeOK
  <2>3. reported' \subseteq Idx \cup {DispatcherSlot}
    BY <1>16, Zenon DEF ubpf_register_external_dispatcher, Reports, TypeOK
  <2> QED
    BY <1>16, <2>1, <2>2, <2>3, Zenon DEF ubpf_register_external_dispatcher, TypeOK
<1>17. ASSUME NEW p \in Programs, ubpf_load(p) PROVE VmTyped'
  <2>1. CASE status' = "crashed" /\ UNCHANGED <<code_vars, jit_vars, reg_vars, config, aux_vars, reported>>
    BY <2>1, Zenon DEF TypeOK
  <2>2. ASSUME usage # NULL, LoadFails(p), heap' \in [Resources -> Int] PROVE VmTyped'
    BY <2>2, CalculateTyped, Zenon DEF LoadFails, UsageAfterValidate, TypeOK
  <2>3. ASSUME usage # NULL, LoadStores(p) PROVE VmTyped'
    <3>1. usage' \in UsageTable
      BY <2>3, CalculateTyped, Zenon DEF LoadStores, UsageAfterValidate
    <3>2. insts' \in StoredCode
      BY <2>3, Zenon DEF LoadStores, StoredCode, TypeOK, Configs
    <3>3. heap' \in [Resources -> Int]
      BY <2>3, HeapTyped, Zenon DEF LoadStores, TypeOK
    <3> QED
      <4>1. /\ int_funcs' = [f \in Pcs |-> f \in LocalTargets(p)]
            /\ UNCHANGED <<status, jitted, jitted_result, ext_funcs, safe_helpers, safe_regions, dispatcher>>
            /\ UNCHANGED <<config, reported>>
        BY <2>3, Zenon DEF LoadStores
      <4>2. int_funcs' \in [Pcs -> BOOLEAN]
        BY <4>1
      <4> QED
        BY <3>1, <3>2, <3>3, <4>1, <4>2, Zenon DEF TypeOK
  <2>4. LoadFault(p) => heap' \in [Resources -> Int]
    BY HeapTyped DEF LoadFault, TypeOK
  <2> QED
    BY <1>1, <1>17, <2>1, <2>2, <2>3, <2>4, Zenon DEF ubpf_load, DereferencesNull, LoadFault, TypeOK
<1>18. ASSUME NEW m \in Modes, ubpf_compile_ex(m) PROVE VmTyped'
  <2>1. CASE CompileNothing /\ UNCHANGED <<status, code_vars, reg_vars, config, misfreed>>
    BY <2>1, HeapTyped, Zenon DEF CompileNothing, HeapWithoutNative, TypeOK
  <2>2. CASE CompileAttempt(m) /\ UNCHANGED <<status, code_vars, reg_vars, config, misfreed>>
    <3>1. PICK ok \in BOOLEAN :
            /\ jitted_result' = Translation(m, config.bufsize, ok)
            /\ jitted' = NULL \/ /\ jitted_result'.result = "SUCCESS"
                                 /\ jitted' = NativeCode(jitted_result', m)
      BY <2>2, ZenonT(60) DEF CompileAttempt, Outcomes
    <3>2. config.bufsize \in BufferSizes /\ insts # NULL
      BY <2>2, Zenon DEF TypeOK, Configs, CompileAttempt
    <3>3. jitted_result' \in Results
      BY <3>1, <3>2, TranslationTyped, Zenon
    <3>4. jitted' = NULL \/ \E n \in CodeSizes : jitted' \in NativeCodes(n)
      BY <3>1, <3>2, NativeCodeTyped, Zenon
    <3>5. heap' \in [Resources -> Int]
      BY <2>2, HeapTyped DEF CompileAttempt, HeapWithoutNative, TypeOK
    <3>6. reported' \subseteq Idx \cup {DispatcherSlot}
      BY <2>2, Zenon DEF CompileAttempt, TypeOK
    <3> QED
      BY <2>2, <3>3, <3>4, <3>5, <3>6, Zenon DEF TypeOK, Results
  <2>3. CASE UNCHANGED <<jit_vars, heap, status, code_vars, reg_vars, config, misfreed, reported>>
    BY <2>3, Zenon DEF TypeOK
  <2> QED
    BY <1>1, <1>18, <2>1, <2>2, <2>3, Zenon DEF ubpf_compile_ex
<1>19. ASSUME NEW m \in Modes, NEW n \in BufferSizes, ubpf_translate_ex(m, n) PROVE VmTyped'
  <2>1. CASE Refuses
    BY <1>1, <2>1, Zenon
  <2>2. CASE ~Refuses
    <3>1. jitted_result' \in Results
      BY <1>19, <2>2, TranslationTyped, Zenon DEF ubpf_translate_ex, Outcomes
    <3> QED
      BY <1>19, <2>2, <3>1, Zenon DEF ubpf_translate_ex, TypeOK, Results
  <2> QED
    BY <2>1, <2>2, Zenon
<1> QED
  BY <1>3, <1>4, <1>5, <1>6, <1>7, <1>8, <1>9, <1>10, <1>11, <1>12, <1>13, <1>14, <1>15,
     <1>16, <1>17, <1>18, <1>19, Zenon DEF Next

\* The embedder stays the same, and is told of success or failure.
LEMMA ClientFixed ==
    ASSUME [Next]_vars
    PROVE  client' = client /\ (ret' = ret \/ ret' \in BOOLEAN) /\ (misfreed' = misfreed \/ misfreed' \in BOOLEAN)
<1> DEFINE Same == client' = client /\ (ret' = ret \/ ret' \in BOOLEAN)
                   /\ (misfreed' = misfreed \/ misfreed' \in BOOLEAN)
<1> USE DEF Returns, aux_vars
<1>1. (Refuses \/ UNCHANGED vars) => Same
  BY Zenon DEF Refuses, vars
<1>2. ASSUME NEW f, NEW v, Sets(f, v) PROVE Same
  BY <1>2, Zenon DEF Sets
<1>3. ubpf_create \/ ubpf_destroy \/ ubpf_unload_code => Same
  BY DEF ubpf_create, CreateFails, ubpf_destroy, ubpf_unload_code, UnloadCrashes
<1>4. ASSUME NEW v, \/ ubpf_set_jit_code_size(v) \/ ubpf_register_stack_usage_calculator(v)
                    \/ ubpf_set_pointer_secret(v) \/ ubpf_set_execution_profile(v)
                    \/ ubpf_set_unwind_function_index(v) \/ ubpf_toggle_readonly_bytecode(v)
                    \/ ubpf_toggle_constant_blinding(v)
      PROVE  Same
  BY <1>1, <1>2, <1>4, Zenon DEF ubpf_set_jit_code_size, ubpf_register_stack_usage_calculator,
              ubpf_set_pointer_secret, ubpf_set_execution_profile,
              ubpf_set_unwind_function_index, ubpf_toggle_readonly_bytecode,
              ubpf_toggle_constant_blinding
<1>5. ASSUME NEW r, ubpf_register_safe_region(r) \/ ubpf_register_external_dispatcher(r) PROVE Same
  BY <1>1, <1>5 DEF ubpf_register_safe_region, ubpf_register_external_dispatcher
<1>6. ASSUME NEW i, NEW fn, ubpf_register(i, fn) \/ ubpf_register_safe_helper(i, fn) PROVE Same
  BY <1>1, <1>6, Zenon DEF ubpf_register, ubpf_register_safe_helper, Register
<1>7. ASSUME NEW p, ubpf_load(p) PROVE Same
  BY <1>1, <1>7, Zenon DEF ubpf_load, LoadStores, LoadFails, LoadFault
<1>8. ASSUME NEW m, NEW n, ubpf_compile_ex(m) \/ ubpf_translate_ex(m, n) PROVE Same
  BY <1>1, <1>8 DEF ubpf_compile_ex, ubpf_translate_ex
<1>9. ubpf_exec_ex => Same
  BY <1>1, <1>2, Zenon DEF ubpf_exec_ex
<1> QED
  BY <1>1, <1>3, <1>4, <1>5, <1>6, <1>7, <1>8, <1>9, Zenon DEF Next

\* Every API call keeps the types.
LEMMA StepTyped == TypeOK /\ [Next]_vars => TypeOK'
<1> SUFFICES ASSUME TypeOK, [Next]_vars PROVE TypeOK'
  BY Zenon
<1>1. VmTyped'
  BY StepVmTyped, Zenon
<1>2. client' \in Clients /\ ret' \in BOOLEAN /\ misfreed' \in BOOLEAN
  BY ClientFixed, Zenon DEF TypeOK
<1> QED
  BY <1>1, <1>2, Zenon DEF VmTyped, TypeOK

\* Type correctness: after any sequence of API calls, failing ones included, every
\* field of struct ubpf_vm has its type, and native code in the VM is a mapping of
\* its recorded size.
THEOREM TypeCorrect == Spec => []TypeOK
BY InitTyped, StepTyped, PTL DEF Spec

-----------------------------------------------------------------------------
(* What the calls may change.                                              *)

\* Stored code changes in four calls only.
LEMMA CodeSteps ==
    ASSUME [Next]_vars
    PROVE  \/ ubpf_create \/ ubpf_destroy \/ ubpf_unload_code \/ \E p \in Programs : ubpf_load(p)
           \/ UNCHANGED <<status, insts, int_funcs, usage, misfreed>>
BY ZenonT(60) DEF Next, vars, code_vars, aux_vars, jit_vars, reg_vars, Refuses, Sets, Register,
       ubpf_exec_ex, ubpf_toggle_readonly_bytecode, ubpf_toggle_constant_blinding,
       ubpf_set_jit_code_size, ubpf_register_stack_usage_calculator, ubpf_set_pointer_secret,
       ubpf_set_execution_profile, ubpf_set_unwind_function_index, ubpf_register,
       ubpf_register_safe_helper, ubpf_register_safe_region, ubpf_register_external_dispatcher,
       ubpf_compile_ex, ubpf_translate_ex

\* In the life of a VM, the secret and the profile change while nothing is loaded,
\* and the unwind index is set once.
LEMMA ConfigSteps ==
    ASSUME TypeOK, [Next]_vars
    PROVE  \/ ubpf_create \/ ubpf_destroy
           \/ /\ config'.secret = config.secret \/ insts = NULL
              /\ config'.profile = config.profile \/ (insts = NULL /\ jitted = NULL)
              /\ config'.unwind = config.unwind \/ config.unwind = NULL
              /\ \/ UNCHANGED config
                 \/ UNCHANGED <<status, insts, int_funcs, usage, jitted, jitted_result, misfreed>>
<1> USE DEF code_vars, jit_vars, reg_vars, aux_vars
<1>1. CASE UNCHANGED config
  BY <1>1, Zenon
<1>2. CASE ubpf_create \/ ubpf_destroy
  BY <1>2, Zenon
<1>3. CASE ubpf_exec_ex
  BY <1>3, Zenon DEF ubpf_exec_ex, Sets, Refuses, TypeOK, Configs
<1>4. ASSUME NEW b \in BOOLEAN,
             ubpf_toggle_readonly_bytecode(b) \/ ubpf_toggle_constant_blinding(b)
      PROVE  /\ config'.secret = config.secret /\ config'.profile = config.profile
             /\ config'.unwind = config.unwind
             /\ UNCHANGED <<status, insts, int_funcs, usage, jitted, jitted_result, misfreed>>
  BY <1>4, ZenonT(60) DEF ubpf_toggle_readonly_bytecode, ubpf_toggle_constant_blinding, Sets, TypeOK, Configs
<1>5. ASSUME NEW v, \/ ubpf_set_jit_code_size(v) \/ ubpf_register_stack_usage_calculator(v)
                    \/ ubpf_set_pointer_secret(v) \/ ubpf_set_execution_profile(v)
                    \/ ubpf_set_unwind_function_index(v)
      PROVE  /\ config'.secret = config.secret \/ insts = NULL
             /\ config'.profile = config.profile \/ (insts = NULL /\ jitted = NULL)
             /\ config'.unwind = config.unwind \/ config.unwind = NULL
             /\ UNCHANGED <<status, insts, int_funcs, usage, jitted, jitted_result, misfreed>>
  BY <1>5, ZenonT(60) DEF ubpf_set_jit_code_size, ubpf_register_stack_usage_calculator,
              ubpf_set_pointer_secret, ubpf_set_execution_profile,
              ubpf_set_unwind_function_index, Sets, Refuses, TypeOK, Configs
<1>6. ASSUME NEW r, ubpf_register_safe_region(r) \/ ubpf_register_external_dispatcher(r)
      PROVE  UNCHANGED config
  BY <1>6, Zenon DEF ubpf_register_safe_region, ubpf_register_external_dispatcher, Refuses
<1>7. ASSUME NEW i, NEW fn, ubpf_register(i, fn) \/ ubpf_register_safe_helper(i, fn)
      PROVE  UNCHANGED config
  BY <1>7, Zenon DEF ubpf_register, ubpf_register_safe_helper, Register, Refuses
<1>8. ASSUME NEW p, ubpf_load(p) PROVE UNCHANGED config
  BY <1>8, Zenon DEF ubpf_load, Refuses, LoadStores, LoadFails, LoadFault
<1>9. ASSUME NEW m, NEW n, ubpf_compile_ex(m) \/ ubpf_translate_ex(m, n)
      PROVE  UNCHANGED config
  BY <1>9, Zenon DEF ubpf_compile_ex, ubpf_translate_ex, Refuses
<1>10. ubpf_unload_code \/ UNCHANGED vars => UNCHANGED config
  BY Zenon DEF ubpf_unload_code, UnloadCrashes, vars
<1> QED
  BY <1>1, <1>2, <1>3, <1>4, <1>5, <1>6, <1>7, <1>8, <1>9, <1>10, Zenon DEF Next

\* ubpf_load refuses, crashes in validate, or, into a VM without code, stores the
\* program it found valid or only leaves stack usage behind.
LEMMA LoadSteps ==
    ASSUME NEW p, ubpf_load(p)
    PROVE  /\ UNCHANGED <<jitted, jitted_result, ext_funcs, safe_helpers, safe_regions,
                          dispatcher, config, misfreed, reported>>
           /\ \/ UNCHANGED <<status, insts, int_funcs, usage, heap>>
              \/ status' = "crashed" /\ UNCHANGED <<insts, int_funcs, usage, heap>>
              \/ /\ insts = NULL /\ usage # NULL /\ UNCHANGED <<status, insts, int_funcs>>
                 /\ usage' = UsageAfterValidate(p)
                 /\ UNCHANGED heap \/ LoadFault(p)
              \/ /\ insts = NULL /\ usage # NULL /\ UNCHANGED status
                 /\ Valid(p, Calculate(usage, Pcs)) /\ LoadStores(p)
<1> USE DEF code_vars, jit_vars, reg_vars, aux_vars
<1>1. CASE Refuses
  BY <1>1, Zenon DEF Refuses
<1>2. CASE /\ status' = "crashed"
           /\ UNCHANGED <<code_vars, jit_vars, reg_vars, config, aux_vars, reported, client, ret>>
  BY <1>2, Zenon
<1>3. CASE /\ insts = NULL /\ ~DereferencesNull(p)
           /\ IF Valid(p, Calculate(usage, Pcs))
              THEN LoadStores(p) \/ LoadFault(p)
              ELSE LoadFails(p) /\ UNCHANGED heap
  <2>1. usage # NULL
    BY <1>3, Zenon DEF DereferencesNull
  <2>2. CASE LoadFails(p)
    BY <1>3, <2>1, <2>2, Zenon DEF LoadFails, LoadStores
  <2>3. CASE LoadStores(p) /\ Valid(p, Calculate(usage, Pcs))
    BY <1>3, <2>1, <2>3, Zenon DEF LoadStores
  <2> QED
    BY <1>3, <2>2, <2>3, Zenon DEF LoadFault
<1> QED
  BY <1>1, <1>2, <1>3, Zenon DEF ubpf_load

\* Registration rewrites words and the protection of native code, nothing else.
LEMMA UpdateKeeps ==
    ASSUME TypeOK, NEW slot \in Int, NEW w \in Word, NEW ok, UpdateNative(slot, w, ok),
           jitted' # NULL
    PROVE  /\ jitted # NULL /\ jitted'.prog = jitted.prog /\ jitted'.mode = jitted.mode
           /\ jitted'.unwind = jitted.unwind
           /\ jitted'.doff = jitted.doff /\ jitted'.hoff = jitted.hoff
           /\ jitted'.size = jitted.size /\ jitted'.missing = jitted.missing
<1>1. CASE UNCHANGED jitted
  BY <1>1, Zenon
<1>2. CASE \E again \in BOOLEAN :
              jitted' = Protected(WriteSlot(slot, w), IF again THEN "RX" ELSE "RW")
  <2>1. jitted # NULL
    BY <1>2, Zenon DEF Protected, WriteSlot, SlotInBounds
  <2>2. PICK n \in CodeSizes : jitted \in NativeCodes(n)
    BY <2>1, Zenon DEF TypeOK
  <2>3. WriteSlot(slot, w) \in NativeCodes(n)
    BY <2>2, Zenon DEF WriteSlot, SlotInBounds, NativeCodes
  <2>4. PICK prot : jitted' = [WriteSlot(slot, w) EXCEPT !.prot = prot]
    BY <1>2, <2>3, NullAssumption, Zenon DEF Protected
  <2> QED
    BY <2>1, <2>2, <2>3, <2>4, Zenon DEF WriteSlot, NativeCodes
<1> QED
  BY <1>1, <1>2, Zenon DEF UpdateNative, Outcomes

\* A compilation that put native code into the VM.
Compiled(m) ==
    /\ insts # NULL /\ config.profile = "LEGACY"
    /\ UNCHANGED <<status, insts, int_funcs, usage, config, ext_funcs, dispatcher>>
    /\ reported' = {}
    /\ \E ok \in BOOLEAN : jitted_result' = Translation(m, config.bufsize, ok)
    /\ jitted_result'.result = "SUCCESS"
    /\ jitted' = NativeCode(jitted_result', m)

\* Native code comes from a compilation; other calls keep it, but for its table
\* of addresses, or drop it.
LEMMA NativeSteps ==
    ASSUME TypeOK, [Next]_vars, jitted' # NULL
    PROVE  \/ \E m \in Modes : Compiled(m)
           \/ /\ jitted # NULL /\ jitted'.prog = jitted.prog /\ jitted'.mode = jitted.mode
              /\ jitted'.unwind = jitted.unwind
              /\ jitted'.doff = jitted.doff /\ jitted'.hoff = jitted.hoff
              /\ jitted'.size = jitted.size /\ jitted'.missing = jitted.missing
<1> USE DEF code_vars, jit_vars, reg_vars, aux_vars
<1>1. CASE UNCHANGED jitted
  BY <1>1, Zenon
<1>2. ASSUME NEW i \in 0 .. MaxExtFuncs, NEW fn \in Helpers \cup {NULL},
             ubpf_register(i, fn) \/ ubpf_register_safe_helper(i, fn), ~UNCHANGED jitted
      PROVE  \E slot \in Int, w \in Word, ok \in BOOLEAN : UpdateNative(slot, w, ok)
  <2>1. fn \in Word /\ jitted_result.hoff + i \in Int
    BY Words, Numbers, ResultTyped
  <2>2. \E ok \in BOOLEAN : UpdateNative(jitted_result.hoff + i, fn, ok)
    BY <1>2, Zenon DEF ubpf_register, ubpf_register_safe_helper, Register, Refuses
  <2> QED
    BY <2>1, <2>2, Zenon
<1>3. ASSUME NEW d \in Dispatchers \cup {NULL}, ubpf_register_external_dispatcher(d)
      PROVE  \E slot \in Int, w \in Word, ok \in BOOLEAN : UpdateNative(slot, w, ok)
  <2>1. d \in Word /\ jitted_result.doff \in Int
    BY Words, ResultTyped
  <2> QED
    BY <1>3, <2>1, Zenon DEF ubpf_register_external_dispatcher
<1>4. ASSUME NEW m \in Modes, ubpf_compile_ex(m), ~UNCHANGED jitted
      PROVE  Compiled(m)
  <2>1. /\ config.profile = "LEGACY" /\ CompileAttempt(m)
        /\ UNCHANGED <<status, insts, int_funcs, usage, config, ext_funcs, dispatcher>>
    BY <1>4, Zenon DEF ubpf_compile_ex, Refuses, CompileNothing
  <2>2. PICK ok \in BOOLEAN :
          /\ jitted_result' = Translation(m, config.bufsize, ok)
          /\ jitted_result'.result = "SUCCESS"
          /\ jitted' = NativeCode(jitted_result', m)
          /\ reported' = {}
    BY <2>1, ZenonT(60) DEF CompileAttempt, Outcomes
  <2> QED
    BY <2>1, <2>2, Zenon DEF Compiled, CompileAttempt
<1>5. ASSUME NEW m, NEW n, ubpf_translate_ex(m, n) PROVE UNCHANGED jitted
  BY <1>5, Zenon DEF ubpf_translate_ex, Refuses
<1>6. ASSUME NEW p, ubpf_load(p) PROVE UNCHANGED jitted
  BY <1>6, Zenon DEF ubpf_load, Refuses, LoadStores, LoadFails, LoadFault
<1>7. ASSUME NEW v, \/ ubpf_set_jit_code_size(v) \/ ubpf_register_stack_usage_calculator(v)
                    \/ ubpf_set_pointer_secret(v) \/ ubpf_set_execution_profile(v)
                    \/ ubpf_set_unwind_function_index(v) \/ ubpf_toggle_readonly_bytecode(v)
                    \/ ubpf_toggle_constant_blinding(v) \/ ubpf_register_safe_region(v)
      PROVE  UNCHANGED jitted
  BY <1>7, Zenon DEF ubpf_set_jit_code_size, ubpf_register_stack_usage_calculator,
              ubpf_set_pointer_secret, ubpf_set_execution_profile,
              ubpf_set_unwind_function_index, ubpf_toggle_readonly_bytecode,
              ubpf_toggle_constant_blinding, ubpf_register_safe_region, Sets, Refuses
<1>8. ubpf_exec_ex \/ UNCHANGED vars => UNCHANGED jitted
  BY Zenon DEF ubpf_exec_ex, Sets, Refuses, vars
<1>9. ubpf_create \/ ubpf_destroy \/ ubpf_unload_code => jitted' = NULL \/ UNCHANGED jitted
  BY Zenon DEF ubpf_create, CreateFails, ubpf_destroy, ubpf_unload_code, UnloadCrashes
<1> QED
  BY <1>1, <1>2, <1>3, <1>4, <1>5, <1>6, <1>7, <1>8, <1>9, UpdateKeeps, Zenon DEF Next

-----------------------------------------------------------------------------
(* Code, secret and profile.                                               *)

\* The stored instructions are always decoded with the secret they were encoded
\* with: ubpf_set_pointer_secret refuses to change it while code is loaded.
THEOREM FetchAlwaysDecodes == Spec => []FetchDecodes
<1>1. Init => FetchDecodes
  BY Zenon DEF Init, FetchDecodes
<1>2. TypeOK /\ FetchDecodes /\ [Next]_vars => FetchDecodes'
  <2> SUFFICES ASSUME TypeOK, FetchDecodes, [Next]_vars, insts' # NULL
               PROVE  insts'.secret = config'.secret
    BY Zenon DEF FetchDecodes
  <2> USE DEF code_vars, jit_vars, reg_vars, aux_vars
  <2>1. ASSUME NEW p \in Programs, ubpf_load(p) PROVE insts'.secret = config'.secret
    <3>1. UNCHANGED config /\ (UNCHANGED insts \/ LoadStores(p))
      BY <2>1, LoadSteps, Zenon
    <3>2. LoadStores(p) => insts'.secret = config.secret
      BY DEF LoadStores
    <3> QED
      BY <3>1, <3>2, Zenon DEF FetchDecodes
  <2>2. CASE ubpf_create \/ ubpf_destroy \/ ubpf_unload_code
    BY <2>2, Zenon DEF ubpf_create, CreateFails, ubpf_destroy, ubpf_unload_code, UnloadCrashes, FetchDecodes
  <2>3. CASE UNCHANGED <<status, insts, int_funcs, usage, misfreed>> /\ ~ubpf_create /\ ~ubpf_destroy
    BY <2>3, ConfigSteps, Zenon DEF FetchDecodes
  <2> QED
    BY <2>1, <2>2, <2>3, CodeSteps, Zenon
<1> QED
  BY <1>1, <1>2, TypeCorrect, PTL DEF Spec

\* Native code in the VM is always the translation of the bytecode loaded now, in
\* the legacy profile: unloading drops it, and the profile is fixed by loading.
THEOREM NativeAlwaysMatches == Spec => []NativeMatchesBytecode
<1>1. Init => NativeMatchesBytecode
  BY Zenon DEF Init, NativeMatchesBytecode
<1>2. TypeOK /\ NativeMatchesBytecode /\ [Next]_vars => NativeMatchesBytecode'
  <2> SUFFICES ASSUME TypeOK, NativeMatchesBytecode, [Next]_vars, jitted' # NULL
               PROVE  insts' # NULL /\ jitted'.prog = insts'.prog /\ config'.profile = "LEGACY"
    BY Zenon DEF NativeMatchesBytecode
  <2> USE DEF code_vars, jit_vars, reg_vars, aux_vars
  <2>1. ASSUME NEW m \in Modes, Compiled(m)
        PROVE  insts' # NULL /\ jitted'.prog = insts'.prog /\ config'.profile = "LEGACY"
    BY <2>1, Zenon DEF Compiled, NativeCode
  <2>2. CASE jitted # NULL /\ jitted'.prog = jitted.prog
    <3>1. insts # NULL /\ jitted.prog = insts.prog /\ config.profile = "LEGACY"
      BY <2>2, Zenon DEF NativeMatchesBytecode
    <3>2. CASE \E p \in Programs : ubpf_load(p)
      BY <2>2, <3>1, <3>2, LoadSteps, Zenon
    <3>3. CASE ubpf_create \/ ubpf_destroy \/ ubpf_unload_code
      BY <2>2, <3>1, <3>3, Zenon DEF ubpf_create, CreateFails, ubpf_destroy, ubpf_unload_code, UnloadCrashes
    <3>4. CASE UNCHANGED <<status, insts, int_funcs, usage, misfreed>> /\ ~ubpf_create /\ ~ubpf_destroy
      BY <2>2, <3>1, <3>4, ConfigSteps, Zenon
    <3> QED
      BY <3>2, <3>3, <3>4, CodeSteps, Zenon
  <2> QED
    BY <2>1, <2>2, NativeSteps, Zenon
<1> QED
  BY <1>1, <1>2, TypeCorrect, PTL DEF Spec

\* An index compiled into native code is the one in force.
UnwindHeld == jitted # NULL /\ jitted.unwind # NULL => jitted.unwind = config.unwind

\* Every compilation compiles in the unwind index in force, and an index that is
\* compiled in is never replaced in the VM: native code falls behind only by being
\* kept when the index is first set, or reused after that.
THEOREM UnwindAlwaysCompiled == Spec => UnwindCompiled
<1> DEFINE Step == jitted' # NULL /\ jitted'.unwind # config'.unwind =>
                       /\ jitted # NULL /\ jitted'.mode = jitted.mode
                       /\ jitted.unwind = NULL /\ jitted'.unwind = NULL
<1>1. Init => UnwindHeld
  BY Zenon DEF Init, UnwindHeld
<1>2. TypeOK /\ UnwindHeld /\ [Next]_vars => UnwindHeld'
  <2> SUFFICES ASSUME TypeOK, UnwindHeld, [Next]_vars,
                      jitted' # NULL, jitted'.unwind # NULL
               PROVE  jitted'.unwind = config'.unwind
    BY Zenon DEF UnwindHeld
  <2> USE DEF code_vars, jit_vars, reg_vars, aux_vars
  <2>1. ASSUME NEW m \in Modes, Compiled(m) PROVE jitted'.unwind = config'.unwind
    BY <2>1, Zenon DEF Compiled, NativeCode
  <2>2. CASE jitted # NULL /\ jitted'.unwind = jitted.unwind
    <3>1. jitted.unwind = config.unwind
      BY <2>2, Zenon DEF UnwindHeld
    <3>2. CASE ubpf_create \/ ubpf_destroy
      BY <2>2, <3>1, <3>2, Zenon DEF ubpf_create, CreateFails, ubpf_destroy, UnloadCrashes
    <3>3. CASE ~ubpf_create /\ ~ubpf_destroy
      BY <2>2, <3>1, <3>3, ConfigSteps, Zenon
    <3> QED
      BY <3>2, <3>3, Zenon
  <2> QED
    BY <2>1, <2>2, NativeSteps, Zenon
<1>3. TypeOK /\ UnwindHeld' /\ [Next]_vars => [Step]_vars
  <2> SUFFICES ASSUME TypeOK, UnwindHeld', [Next]_vars,
                      jitted' # NULL, jitted'.unwind # config'.unwind
               PROVE  /\ jitted # NULL /\ jitted'.mode = jitted.mode
                      /\ jitted.unwind = NULL /\ jitted'.unwind = NULL
    BY Zenon
  <2>1. jitted'.unwind = NULL
    BY Zenon DEF UnwindHeld
  <2>2. ASSUME NEW m \in Modes, Compiled(m) PROVE FALSE
    BY <2>2, Zenon DEF Compiled, NativeCode
  <2> QED
    BY <2>1, <2>2, NativeSteps, Zenon
<1> QED
  BY <1>1, <1>2, <1>3, TypeCorrect, PTL DEF Spec, UnwindCompiled

-----------------------------------------------------------------------------
(* What validation established still holds when the program runs.          *)

\* The local functions of a program found valid have known, aligned stack usage.
LEMMA ValidUsage ==
    ASSUME TypeOK, usage # NULL, NEW p \in Programs, Valid(p, Calculate(usage, Pcs)),
           NEW f \in Pcs, f = 0 \/ f \in LocalTargets(p)
    PROVE  /\ UsageAfterValidate(p)[f] # Unknown
           /\ UsageAfterValidate(p)[f] % 16 = 0
<1> DEFINE T == Calculate(usage, Pcs)
<1>1. f \in Visited(p, T)
  <2>1. T[0] % 16 = 0 /\ \A k \in DOMAIN p : ~Fails(p, k, T)
    BY Zenon DEF Valid
  <2>2. CASE f = 0
    BY <2>2, Zenon DEF Visited
  <2>3. CASE f \in LocalTargets(p)
    <3>1. PICK j \in DOMAIN p : p[j].op = "local" /\ f = p[j].pc
      BY <2>3, Zenon DEF LocalTargets
    <3>2. \A i \in 1 .. j - 1 : i \in DOMAIN p
      BY <3>1, ConstantsAssumption
    <3>3. \A i \in 1 .. j - 1 : ~Fails(p, i, T)
      BY <2>1, <3>2, Zenon
    <3> HIDE DEF T
    <3> QED
      BY <2>1, <3>1, <3>3, Zenon DEF Visited
  <2> QED
    BY <2>2, <2>3, Zenon
<1>2. UsageAfterValidate(p)[f] = T[f] /\ UsageAfterValidate(p)[f] \in UsageRange
  BY <1>1, CalculateTyped, Zenon DEF UsageAfterValidate
<1>3. T[f] % 16 = 0
  BY Zenon DEF Valid, Fails, LocalTargets
<1>4. Unknown \notin UsageRange
  BY DEF Unknown, UsageRange
<1> QED
  BY <1>2, <1>3, <1>4, Zenon

\* The assertion of ubpf_stack_usage_for_local_func never fails: whenever code is
\* loaded, its entry point and its local functions have a known, aligned usage.
THEOREM UsageAlwaysKnown == Spec => []LoadedUsageKnown
<1>1. Init => LoadedUsageKnown
  BY Zenon DEF Init, LoadedUsageKnown
<1>2. TypeOK /\ LoadedUsageKnown /\ [Next]_vars => LoadedUsageKnown'
  <2> SUFFICES ASSUME TypeOK, LoadedUsageKnown, [Next]_vars
               PROVE  LoadedUsageKnown'
    BY Zenon
  <2>1. ASSUME NEW p \in Programs, ubpf_load(p) PROVE LoadedUsageKnown'
    <3>1. CASE UNCHANGED <<insts, int_funcs, usage>>
      BY <3>1, Zenon DEF LoadedUsageKnown
    <3>2. CASE insts = NULL /\ UNCHANGED insts
      BY <3>2, Zenon DEF LoadedUsageKnown
    <3>3. CASE usage # NULL /\ Valid(p, Calculate(usage, Pcs)) /\ LoadStores(p)
      <4>1. usage' = UsageAfterValidate(p) /\ usage' \in UsageTable
        BY <3>3, CalculateTyped, Zenon DEF LoadStores, UsageAfterValidate
      <4>2. \A f \in Pcs : int_funcs'[f] => f \in LocalTargets(p)
        BY <3>3, Zenon DEF LoadStores
      <4>3. int_funcs' \in [Pcs -> BOOLEAN]
        BY <3>3 DEF LoadStores
      <4> QED
        BY <3>3, <4>1, <4>2, <4>3, ValidUsage, NullAssumption, Zenon DEF LoadedUsageKnown
    <3> QED
      BY <2>1, <3>1, <3>2, <3>3, LoadSteps, Zenon
  <2>2. CASE ubpf_create \/ ubpf_destroy \/ ubpf_unload_code
    BY <2>2, Zenon DEF ubpf_create, CreateFails, ubpf_destroy, ubpf_unload_code, UnloadCrashes, code_vars,
                LoadedUsageKnown
  <2>3. CASE UNCHANGED <<status, insts, int_funcs, usage, misfreed>>
    BY <2>3, Zenon DEF LoadedUsageKnown
  <2> QED
    BY <2>1, <2>2, <2>3, CodeSteps, Zenon
<1> QED
  BY <1>1, <1>2, TypeCorrect, PTL DEF Spec

\* What is registered is replaced but not withdrawn, if not by the embedder or with
\* the VM.
LEMMA RegistrySteps ==
    ASSUME TypeOK, [Next]_vars
    PROVE  \/ ubpf_create \/ ubpf_destroy
           \/ client.withdraws
           \/ /\ \A i \in Idx : ext_funcs'[i] = ext_funcs[i] \/ ext_funcs'[i] # NULL
              /\ dispatcher' = dispatcher \/ dispatcher' # NULL
<1> USE DEF code_vars, jit_vars, reg_vars, aux_vars
<1>1. CASE UNCHANGED <<ext_funcs, dispatcher>>
  BY <1>1, Zenon
<1>2. ASSUME NEW i \in 0 .. MaxExtFuncs, NEW fn \in Helpers \cup {NULL},
             ubpf_register(i, fn) \/ ubpf_register_safe_helper(i, fn)
      PROVE  \/ client.withdraws
             \/ /\ \A j \in Idx : ext_funcs'[j] = ext_funcs[j] \/ ext_funcs'[j] # NULL
                /\ UNCHANGED dispatcher
  <2>1. CASE UNCHANGED <<ext_funcs, dispatcher>>
    BY <2>1, Zenon
  <2>2. CASE ext_funcs' = [ext_funcs EXCEPT ![i] = fn] /\ UNCHANGED dispatcher
    <3>1. fn # NULL \/ client.withdraws \/ UNCHANGED ext_funcs
      BY <1>2, Zenon DEF ubpf_register, ubpf_register_safe_helper, Passes, Refuses
    <3> QED
      BY <2>2, <3>1, Zenon DEF TypeOK
  <2> QED
    BY <1>2, <2>1, <2>2, Zenon DEF ubpf_register, ubpf_register_safe_helper, Register, Refuses
<1>3. ASSUME NEW d \in Dispatchers \cup {NULL}, ubpf_register_external_dispatcher(d)
      PROVE  client.withdraws \/ (dispatcher' # NULL /\ UNCHANGED ext_funcs)
  BY <1>3, Zenon DEF ubpf_register_external_dispatcher, Passes
<1>4. ASSUME NEW p, ubpf_load(p) PROVE UNCHANGED <<ext_funcs, dispatcher>>
  BY <1>4, LoadSteps, Zenon
<1>5. ASSUME NEW m, NEW n, ubpf_compile_ex(m) \/ ubpf_translate_ex(m, n)
      PROVE  UNCHANGED <<ext_funcs, dispatcher>>
  BY <1>5, Zenon DEF ubpf_compile_ex, ubpf_translate_ex, Refuses
<1>6. ASSUME NEW v, \/ ubpf_set_jit_code_size(v) \/ ubpf_register_stack_usage_calculator(v)
                    \/ ubpf_set_pointer_secret(v) \/ ubpf_set_execution_profile(v)
                    \/ ubpf_set_unwind_function_index(v) \/ ubpf_toggle_readonly_bytecode(v)
                    \/ ubpf_toggle_constant_blinding(v) \/ ubpf_register_safe_region(v)
      PROVE  UNCHANGED <<ext_funcs, dispatcher>>
  BY <1>6, Zenon DEF ubpf_set_jit_code_size, ubpf_register_stack_usage_calculator,
              ubpf_set_pointer_secret, ubpf_set_execution_profile,
              ubpf_set_unwind_function_index, ubpf_toggle_readonly_bytecode,
              ubpf_toggle_constant_blinding, ubpf_register_safe_region, Sets, Refuses
<1>7. ubpf_exec_ex \/ ubpf_unload_code \/ UNCHANGED vars => UNCHANGED <<ext_funcs, dispatcher>>
  BY Zenon DEF ubpf_exec_ex, ubpf_unload_code, UnloadCrashes, Sets, Refuses, vars
<1> QED
  BY <1>1, <1>2, <1>3, <1>4, <1>5, <1>6, <1>7, Zenon DEF Next

\* As long as the embedder withdraws nothing it registered, the check of helper
\* indices that validate made at load time holds whenever the program may run,
\* whatever is registered in between.
THEOREM CallsAlwaysResolvable == Spec => []CallsResolvable
<1>1. Init => CallsResolvable
  BY Zenon DEF Init, CallsResolvable
<1>2. TypeOK /\ CallsResolvable /\ [Next]_vars => CallsResolvable'
  <2> SUFFICES ASSUME TypeOK, CallsResolvable, [Next]_vars, insts' # NULL, ~client'.withdraws,
                      NEW i \in HelperCalls(insts'.prog)
               PROVE  dispatcher' # NULL \/ (i \in Idx /\ ext_funcs'[i] # NULL)
    BY Zenon DEF CallsResolvable
  <2> DEFINE Resolved == dispatcher # NULL \/ (i \in Idx /\ ext_funcs[i] # NULL)
  <2>0. ~client.withdraws
    BY ClientFixed, Zenon
  <2>1. UNCHANGED insts => Resolved
    BY <2>0, Zenon DEF CallsResolvable
  <2>2. ASSUME NEW p \in Programs, Valid(p, Calculate(usage, Pcs)), LoadStores(p)
        PROVE  Resolved
    <3>1. insts'.prog = p
      BY <2>2, Zenon DEF LoadStores
    <3>2. PICK k \in DOMAIN p : p[k].op = "call" /\ i = p[k].idx
      BY <3>1, Zenon DEF HelperCalls
    <3>3. CallResolves(i)
      BY <2>2, <3>2, Zenon DEF Valid, Fails
    <3> QED
      BY <3>3, Zenon DEF CallResolves
  <2>3. CASE ubpf_create
    BY <2>1, <2>3, Zenon DEF ubpf_create, CreateFails, code_vars, reg_vars
  <2>4. CASE ubpf_destroy
    BY <2>1, <2>4, Zenon DEF ubpf_destroy, UnloadCrashes, code_vars, reg_vars
  <2>5. CASE ~ubpf_create /\ ~ubpf_destroy
    <3>1. CASE UNCHANGED insts
      BY <2>0, <2>1, <2>5, <3>1, RegistrySteps, Zenon
    <3>2. CASE ubpf_unload_code
      BY <2>1, <3>2, Zenon DEF ubpf_unload_code, UnloadCrashes, code_vars, reg_vars
    <3>3. ASSUME NEW p \in Programs, ubpf_load(p), ~UNCHANGED insts
          PROVE  dispatcher' # NULL \/ (i \in Idx /\ ext_funcs'[i] # NULL)
      BY <2>2, <3>3, LoadSteps, Zenon
    <3> QED
      BY <2>5, <3>1, <3>2, <3>3, CodeSteps, Zenon
  <2> QED
    BY <2>3, <2>4, <2>5, Zenon
<1> QED
  BY <1>1, <1>2, TypeCorrect, PTL DEF Spec

-----------------------------------------------------------------------------
(* Allocations.                                                            *)

\* No VM points to nothing, and code and its marks are stored together.
PointersPaired ==
    /\ status = "none" => insts = NULL /\ int_funcs = NULL /\ usage = NULL /\ jitted = NULL
    /\ insts = NULL <=> int_funcs = NULL

\* Code and marks are stored, and dropped, in the same calls.
LEMMA PairedStep == TypeOK /\ PointersPaired /\ [Next]_vars => PointersPaired'
<1> SUFFICES ASSUME TypeOK, PointersPaired, [Next]_vars PROVE PointersPaired'
  OBVIOUS
<1>1. ASSUME NEW p \in Programs, ubpf_load(p) PROVE PointersPaired'
  <2>1. status = "live" /\ status' # "none"
    BY <1>1, LoadSteps, Zenon DEF ubpf_load, Calls
  <2>2. LoadStores(p) => insts' # NULL /\ int_funcs' # NULL
    <3> SUFFICES ASSUME LoadStores(p) PROVE insts' # NULL /\ int_funcs' # NULL
      BY Zenon
    <3>1. insts' \in StoredCode
      BY Zenon DEF LoadStores, StoredCode, TypeOK, Configs
    <3>2. int_funcs' \in [Pcs -> BOOLEAN]
      BY DEF LoadStores
    <3> QED
      BY <3>1, <3>2, NullAssumption, Zenon
  <2> QED
    BY <1>1, <2>1, <2>2, LoadSteps, Zenon DEF PointersPaired
<1>2. CASE ubpf_create \/ ubpf_destroy \/ ubpf_unload_code
  BY <1>2, Zenon DEF ubpf_create, CreateFails, ubpf_destroy, ubpf_unload_code, UnloadCrashes, code_vars, jit_vars,
              Calls, PointersPaired
<1>3. CASE UNCHANGED <<status, insts, int_funcs, usage, misfreed>>
  <2>1. CASE status # "none"
    BY <1>3, <2>1, Zenon DEF PointersPaired
  <2>2. CASE status = "none" /\ jitted' # NULL
    BY <1>3, <2>2, NativeSteps, Zenon DEF PointersPaired, Compiled
  <2> QED
    BY <1>3, <2>1, <2>2, Zenon DEF PointersPaired
<1> QED
  BY <1>1, <1>2, <1>3, CodeSteps, Zenon

\* Releasing what was just acquired restores the heap.
LEMMA AcquireRelease ==
    ASSUME NEW h \in [Resources -> Int], NEW S
    PROVE  Release(Acquire(h, S), S) = h
BY DEF Acquire, Release

\* ubpf_destroy of a partial VM releases what ubpf_create got.
LEMMA CreateReleases ==
    ASSUME NEW h \in [Resources -> Int], NEW S, NEW fresh \in BOOLEAN
    PROVE  Destroyed(Acquire(h, S), S, fresh) = h
<1> DEFINE table == IF fresh THEN {"usage"} ELSE {}
           a == Acquire(h, S)
           b == Release(a, S \cap Unloaded)
           c == Acquire(b, table)
<1>1. \A r \in Resources : a[r] = h[r] + (IF r \in S THEN 1 ELSE 0)
  BY DEF Acquire
<1> a \in [Resources -> Int] /\ b \in [Resources -> Int]
  BY HeapTyped, Zenon
<1> HIDE DEF a, table
<1>2. \A r \in Resources : b[r] = a[r] - (IF r \in S /\ r \in Unloaded THEN 1 ELSE 0)
  BY DEF Release
<1> HIDE DEF b
<1>3. \A r \in Resources : c[r] = b[r] + (IF r \in table THEN 1 ELSE 0)
  BY DEF Acquire
<1>4. \A r \in Resources : r \in table => r \in Unloaded
  BY DEF Unloaded, table
<1>5. Destroyed(a, S, fresh) = Release(c, (S \ Unloaded) \cup table)
  BY Zenon DEF Destroyed, b, table
<1> HIDE DEF c
<1>6. Destroyed(a, S, fresh) = [r \in Resources |-> h[r]]
  BY <1>1, <1>2, <1>3, <1>4, <1>5 DEF Release
<1> QED
  BY <1>6 DEF a

\* What NoLeak says, resource by resource.
Counted ==
    /\ heap["vm"] = IF status # "none" THEN 1 ELSE 0
    /\ heap["ext_funcs"] = IF status # "none" THEN 1 ELSE 0
    /\ heap["ext_func_names"] = IF status # "none" THEN 1 ELSE 0
    /\ heap["usage"] = IF usage # NULL THEN 1 ELSE 0
    /\ heap["insts"] = IF insts # NULL THEN 1 ELSE 0
    /\ heap["int_funcs"] = IF int_funcs # NULL THEN 1 ELSE 0
    /\ heap["jitted"] = IF jitted # NULL THEN 1 ELSE 0
    /\ heap["buffer"] = 0

\* It is NoLeak, spelled out.
LEMMA LeakCases == Counted <=> NoLeak
<1>1. /\ Holds("vm") <=> status # "none"
      /\ Holds("ext_funcs") <=> status # "none"
      /\ Holds("ext_func_names") <=> status # "none"
      /\ Holds("usage") <=> usage # NULL
      /\ Holds("insts") <=> insts # NULL
      /\ Holds("int_funcs") <=> int_funcs # NULL
      /\ Holds("jitted") <=> jitted # NULL
      /\ ~Holds("buffer")
  BY Zenon DEF Holds
<1> QED
  BY <1>1, Zenon DEF NoLeak, Counted, Resources

\* What unloading releases, resource by resource.
LEMMA UnloadCases ==
    /\ "usage" \in UnloadFrees <=> usage # NULL
    /\ "insts" \in UnloadFrees <=> insts # NULL
    /\ "int_funcs" \in UnloadFrees <=> int_funcs # NULL
    /\ "jitted" \in UnloadFrees <=> jitted # NULL
    /\ \A r \in {"vm", "ext_funcs", "ext_func_names", "buffer"} : r \notin UnloadFrees
BY DEF UnloadFrees, Unloaded

\* It releases nothing that only ubpf_destroy releases.
LEMMA UnloadedCases ==
    LET held == UnloadFrees \cup {"ext_funcs", "ext_func_names", "vm"}
    IN held \cap Unloaded = UnloadFrees /\ held \ Unloaded = {"ext_funcs", "ext_func_names", "vm"}
BY DEF UnloadFrees, Unloaded

\* Updating native code neither creates nor drops it.
LEMMA UpdateKeepsMapping ==
    ASSUME TypeOK, NEW slot \in Int, NEW w \in Word, NEW ok, UpdateNative(slot, w, ok)
    PROVE  jitted' = NULL <=> jitted = NULL
<1>1. CASE jitted' # NULL
  BY <1>1, UpdateKeeps, Zenon
<1>2. CASE jitted' = NULL /\ jitted # NULL
  <2>1. PICK n \in CodeSizes : jitted \in NativeCodes(n)
    BY <1>2, Zenon DEF TypeOK
  <2>2. WriteSlot(slot, w) \in NativeCodes(n)
    BY <2>1 DEF WriteSlot, SlotInBounds, NativeCodes
  <2>3. \A prot \in {"RX", "RW"} : Protected(WriteSlot(slot, w), prot) \in NativeCodes(n)
    BY <2>2, NullAssumption, Zenon DEF Protected, NativeCodes
  <2> QED
    BY <1>2, <2>3, NullAssumption, Zenon DEF UpdateNative, Outcomes
<1> QED
  BY <1>1, <1>2, Zenon

\* All other calls allocate nothing, release nothing and keep all pointers.
LEMMA HeapSteps ==
    ASSUME TypeOK, [Next]_vars
    PROVE  \/ ubpf_create \/ ubpf_destroy \/ ubpf_unload_code \/ \E p \in Programs : ubpf_load(p)
           \/ \E m \in Modes : ubpf_compile_ex(m)
           \/ /\ UNCHANGED <<status, insts, int_funcs, usage, heap>>
              /\ jitted' = NULL <=> jitted = NULL
<1> USE DEF code_vars, jit_vars, reg_vars, aux_vars
<1>1. ASSUME NEW i \in 0 .. MaxExtFuncs, NEW fn \in Helpers \cup {NULL},
             ubpf_register(i, fn) \/ ubpf_register_safe_helper(i, fn)
      PROVE  /\ UNCHANGED <<status, insts, int_funcs, usage, heap>>
             /\ jitted' = NULL <=> jitted = NULL
  <2>1. fn \in Word /\ jitted_result.hoff + i \in Int
    BY Words, Numbers, ResultTyped
  <2>2. \/ UNCHANGED jitted
        \/ \E ok \in BOOLEAN : UpdateNative(jitted_result.hoff + i, fn, ok)
    BY <1>1, Zenon DEF ubpf_register, ubpf_register_safe_helper, Register, Refuses
  <2>3. UNCHANGED <<status, insts, int_funcs, usage, heap>>
    BY <1>1, Zenon DEF ubpf_register, ubpf_register_safe_helper, Register, Refuses
  <2> QED
    BY <2>1, <2>2, <2>3, UpdateKeepsMapping, Zenon
<1>2. ASSUME NEW d \in Dispatchers \cup {NULL}, ubpf_register_external_dispatcher(d)
      PROVE  /\ UNCHANGED <<status, insts, int_funcs, usage, heap>>
             /\ jitted' = NULL <=> jitted = NULL
  <2>1. d \in Word /\ jitted_result.doff \in Int
    BY Words, ResultTyped
  <2> QED
    BY <1>2, <2>1, UpdateKeepsMapping, Zenon DEF ubpf_register_external_dispatcher
<1>3. ASSUME NEW v, \/ ubpf_set_jit_code_size(v) \/ ubpf_register_stack_usage_calculator(v)
                    \/ ubpf_set_pointer_secret(v) \/ ubpf_set_execution_profile(v)
                    \/ ubpf_set_unwind_function_index(v) \/ ubpf_toggle_readonly_bytecode(v)
                    \/ ubpf_toggle_constant_blinding(v) \/ ubpf_register_safe_region(v)
      PROVE  UNCHANGED <<status, insts, int_funcs, usage, heap, jitted>>
  BY <1>3, Zenon DEF ubpf_set_jit_code_size, ubpf_register_stack_usage_calculator,
              ubpf_set_pointer_secret, ubpf_set_execution_profile,
              ubpf_set_unwind_function_index, ubpf_toggle_readonly_bytecode,
              ubpf_toggle_constant_blinding, ubpf_register_safe_region, Sets, Refuses
<1>4. ASSUME NEW m, NEW n, ubpf_translate_ex(m, n)
      PROVE  UNCHANGED <<status, insts, int_funcs, usage, heap, jitted>>
  BY <1>4, Zenon DEF ubpf_translate_ex, Refuses
<1>5. ubpf_exec_ex \/ UNCHANGED vars => UNCHANGED <<status, insts, int_funcs, usage, heap, jitted>>
  BY Zenon DEF ubpf_exec_ex, Sets, Refuses, vars
<1> QED
  BY <1>1, <1>2, <1>3, <1>4, <1>5, Zenon DEF Next

\* Exactly what the VM points to is allocated: no call, and no failure inside a
\* call, loses an allocation or releases one twice.
THEOREM NeverLeaks == Spec => []NoLeak
<1> DEFINE Inv == PointersPaired /\ Counted
<1>1. Init => Inv
  BY Zenon DEF Init, PointersPaired, Counted, Resources
<1>2. TypeOK /\ Inv /\ [Next]_vars => Inv'
  <2> SUFFICES ASSUME TypeOK, PointersPaired, Counted, [Next]_vars PROVE Counted'
    BY PairedStep, Zenon
  <2> USE DEF code_vars, jit_vars, reg_vars, aux_vars
  <2>1. heap \in [Resources -> Int]
    BY Zenon DEF TypeOK
  <2>2. PointersPaired'
    BY PairedStep, Zenon
  <2>3. ASSUME UNCHANGED <<status, insts, int_funcs, usage, heap>>, jitted' = NULL <=> jitted = NULL
        PROVE  Counted'
    BY <2>3, Zenon DEF Counted
  <2>4. CASE ubpf_create
    <3>1. ASSUME NEW n \in 0 .. 3, CreateFails(n) PROVE Counted'
      <4>1. UNCHANGED heap
        BY <2>1, <3>1, CreateReleases, Zenon DEF CreateFails
      <4> QED
        BY <2>3, <3>1, <4>1, Zenon DEF CreateFails
    <3>2. CASE status' = "live"
      <4>1. {CreateAllocations[k] : k \in 1 .. 4} = {"vm", "ext_funcs", "ext_func_names", "usage"}
        BY DEF CreateAllocations
      <4>2. heap' = Acquire(heap, {"vm", "ext_funcs", "ext_func_names", "usage"})
        BY <2>4, <3>2, <4>1, Zenon DEF ubpf_create, CreateFails
      <4>3. status = "none" /\ insts' = NULL /\ int_funcs' = NULL /\ jitted' = NULL
            /\ usage' = UnknownUsage
        BY <2>4, <3>2, Zenon DEF ubpf_create, CreateFails
      <4>4. UnknownUsage # NULL
        BY NullAssumption, Zenon DEF UnknownUsage, UsageTable
      <4> QED
        BY <2>1, <3>2, <4>2, <4>3, <4>4 DEF Counted, Resources, Acquire, PointersPaired
    <3> QED
      BY <2>4, <3>1, <3>2, Zenon DEF ubpf_create
  <2>5. CASE ubpf_destroy
    <3>0. UnloadCrashes => Counted'
      BY <2>5, Zenon DEF UnloadCrashes, ubpf_destroy, Calls, Counted
    <3> SUFFICES ASSUME ~UnloadCrashes PROVE Counted'
      BY <3>0, Zenon
    <3>1. PICK fresh \in BOOLEAN :
            heap' = Destroyed(heap, UnloadFrees \cup {"ext_funcs", "ext_func_names", "vm"}, fresh)
      BY <2>5, Zenon DEF ubpf_destroy, Outcomes
    <3>2. \A r \in Resources : heap'[r] = heap[r] - (IF r \in UnloadFrees THEN 1 ELSE 0)
                                 - (IF r \in {"ext_funcs", "ext_func_names", "vm"} THEN 1 ELSE 0)
      BY <2>1, <3>1, UnloadedCases DEF Destroyed, Acquire, Release
    <3>3. /\ status = "live" /\ status' = "none"
          /\ insts' = NULL /\ int_funcs' = NULL /\ usage' = NULL /\ jitted' = NULL
      BY <2>5, Zenon DEF ubpf_destroy, Calls
    <3> QED
      BY <3>2, <3>3, UnloadCases DEF Counted, Resources
  <2>6. CASE ubpf_unload_code
    <3>0. UnloadCrashes => Counted'
      BY <2>6, Zenon DEF UnloadCrashes, ubpf_unload_code, Calls, Counted
    <3> SUFFICES ASSUME ~UnloadCrashes PROVE Counted'
      BY <3>0, Zenon
    <3>1. UnknownUsage # NULL
      BY NullAssumption DEF UnknownUsage, UsageTable
    <3>2. PICK fresh \in BOOLEAN :
            /\ usage' = IF fresh THEN UnknownUsage ELSE NULL
            /\ heap' = Acquire(Release(heap, UnloadFrees), IF fresh THEN {"usage"} ELSE {})
      BY <2>6, Zenon DEF ubpf_unload_code, Outcomes
    <3>3. \A r \in Resources : heap'[r] = heap[r] - (IF r \in UnloadFrees THEN 1 ELSE 0)
                                 + (IF fresh /\ r = "usage" THEN 1 ELSE 0)
      BY <2>1, <3>2 DEF Acquire, Release
    <3>4. /\ status = "live" /\ status' = "live"
          /\ insts' = NULL /\ int_funcs' = NULL /\ jitted' = NULL
      BY <2>6, Zenon DEF ubpf_unload_code, Calls
    <3> QED
      BY <3>1, <3>2, <3>3, <3>4, UnloadCases DEF Counted, Resources
  <2>7. ASSUME NEW p \in Programs, ubpf_load(p) PROVE Counted'
    <3>1. status = "live" /\ status' # "none" /\ UNCHANGED jitted
      BY <2>7, LoadSteps, Zenon DEF ubpf_load, Calls
    <3>2. CASE UNCHANGED <<insts, int_funcs, usage, heap>>
      BY <3>1, <3>2, Zenon DEF Counted
    <3>3. ASSUME usage # NULL, usage' = UsageAfterValidate(p), UNCHANGED <<insts, int_funcs, heap>>
          PROVE  Counted'
      <4>1. usage' # NULL
        BY <3>3, CalculateTyped, NullAssumption, Zenon DEF UsageAfterValidate
      <4> QED
        BY <3>1, <3>3, <4>1, Zenon DEF Counted
    <3>4. LoadFault(p) => UNCHANGED heap
      <4>1. \A f \in LoadFaults(p) : f.got = f.freed
        BY DEF LoadFaults
      <4> QED
        BY <2>1, <4>1, AcquireRelease, Zenon DEF LoadFault
    <3>5. ASSUME insts = NULL, usage # NULL, LoadStores(p) PROVE Counted'
      <4>1. usage' # NULL
        BY <3>5, CalculateTyped, NullAssumption, Zenon DEF LoadStores, UsageAfterValidate
      <4>2. insts' # NULL /\ int_funcs' # NULL
        <5>1. insts' \in StoredCode
          BY <3>5, Zenon DEF LoadStores, StoredCode, TypeOK, Configs
        <5> QED
          BY <2>2, <5>1, NullAssumption, Zenon DEF PointersPaired
      <4>3. heap' = Acquire(heap, {"insts", "int_funcs"})
        BY <3>5, Zenon DEF LoadStores
      <4> QED
        BY <2>1, <3>1, <3>5, <4>1, <4>2, <4>3
           DEF Counted, Resources, Acquire, PointersPaired
    <3> QED
      BY <2>7, <3>2, <3>3, <3>4, <3>5, LoadSteps, Zenon
  <2>8. ASSUME NEW m \in Modes, ubpf_compile_ex(m) PROVE Counted'
    <3>1. UNCHANGED <<status, insts, int_funcs, usage>>
      BY <2>8, Zenon DEF ubpf_compile_ex, Refuses
    <3>2. CASE UNCHANGED <<heap, jitted>>
      BY <2>3, <3>1, <3>2, Zenon
    <3>3. CASE CompileNothing
      BY <2>1, <3>1, <3>3
         DEF CompileNothing, HeapWithoutNative, Counted, Resources, Release
    <3>4. CASE CompileAttempt(m)
      <4>1. PICK ok \in Outcomes("translate"), mapped \in Outcomes("mmap"),
                 prot \in Outcomes("mprotect") :
              LET res == Translation(m, config.bufsize, ok)
                  got == res.result = "SUCCESS" /\ mapped
                  kept == got /\ prot
              IN /\ jitted_result' = res
                 /\ jitted' = IF kept THEN NativeCode(res, m) ELSE NULL
                 /\ heap' = Release(Acquire(HeapWithoutNative,
                                            {"buffer"} \cup (IF got THEN {"jitted"} ELSE {})),
                                    {"buffer"} \cup (IF got /\ ~kept THEN {"jitted"} ELSE {}))
        BY <3>4, Zenon DEF CompileAttempt
      <4> ok \in BOOLEAN /\ mapped \in BOOLEAN /\ prot \in BOOLEAN
        BY Zenon DEF Outcomes
      <4> DEFINE kept == Translation(m, config.bufsize, ok).result = "SUCCESS" /\ mapped /\ prot
      <4>2. jitted' = NULL <=> ~kept
        BY <3>4, <4>1, NativeCodeTyped, NullAssumption, Zenon DEF CompileAttempt
      <4>3. \A r \in Resources : heap'[r] = heap[r] - (IF r = "jitted" /\ jitted # NULL THEN 1 ELSE 0)
                                              + (IF r = "jitted" /\ kept THEN 1 ELSE 0)
        BY <2>1, <4>1 DEF HeapWithoutNative, Acquire, Release
      <4> QED
        BY <3>1, <4>2, <4>3 DEF Counted, Resources
    <3> QED
      BY <2>8, <3>2, <3>3, <3>4, Zenon DEF ubpf_compile_ex, Refuses
  <2> QED
    BY <2>3, <2>4, <2>5, <2>6, <2>7, <2>8, HeapSteps, Zenon
<1> QED
  BY <1>1, <1>2, TypeCorrect, LeakCases, PTL DEF Spec

-----------------------------------------------------------------------------
(* Addresses embedded in native code.                                      *)

\* The embedder calls ubpf_translate_ex, which overwrites jitted_result.
Translates == "ubpf_translate_ex" \in client.calls

\* Otherwise jitted_result describes the native code in the VM, and in code that was not
\* cut off the dispatcher's slot and the helper table are its last words.
NativeLayout ==
    jitted # NULL /\ ~Translates =>
        /\ jitted_result.result = "SUCCESS"
        /\ jitted.doff = jitted_result.doff /\ jitted.hoff = jitted_result.hoff
        /\ jitted.missing = 0 => /\ jitted.hoff = jitted.doff + 1
                                 /\ jitted.hoff + MaxExtFuncs = jitted.size

\* The registration of a dispatcher, returning ok.
Dispatches(d, ok) ==
    /\ dispatcher' = d
    /\ UpdateNative(jitted_result.doff, d, ok)
    /\ Reports(DispatcherSlot, ok)
    /\ UNCHANGED <<jitted_result, ext_funcs>>

\* The calls after which native code and what is registered may differ.
LEMMA TableSteps ==
    ASSUME ~Translates, [Next]_vars, jitted' # NULL
    PROVE  \/ \E m \in Modes : Compiled(m)
           \/ \E i \in Idx, fn \in Helpers \cup {NULL}, ok \in BOOLEAN : Register(i, fn, ok)
           \/ \E d \in Dispatchers \cup {NULL}, ok \in BOOLEAN : Dispatches(d, ok)
           \/ UNCHANGED <<jitted, jitted_result, ext_funcs, dispatcher, reported>>
<1> USE DEF code_vars, jit_vars, reg_vars, aux_vars
<1>1. ASSUME NEW i \in 0 .. MaxExtFuncs, NEW fn \in Helpers \cup {NULL},
             ubpf_register(i, fn) \/ ubpf_register_safe_helper(i, fn)
      PROVE  \/ i \in Idx /\ \E ok \in BOOLEAN : Register(i, fn, ok)
             \/ UNCHANGED <<jitted, jitted_result, ext_funcs, dispatcher, reported>>
  <2>1. ASSUME Refuses
        PROVE  UNCHANGED <<jitted, jitted_result, ext_funcs, dispatcher, reported>>
    BY <2>1, Zenon DEF Refuses
  <2> QED
    BY <1>1, <2>1, Zenon DEF ubpf_register, ubpf_register_safe_helper
<1>2. ASSUME NEW d \in Dispatchers \cup {NULL}, ubpf_register_external_dispatcher(d)
      PROVE  \E ok \in BOOLEAN : Dispatches(d, ok)
  BY <1>2, Zenon DEF ubpf_register_external_dispatcher, Dispatches
<1>3. ASSUME NEW v, \/ ubpf_set_jit_code_size(v) \/ ubpf_register_stack_usage_calculator(v)
                    \/ ubpf_set_pointer_secret(v) \/ ubpf_set_execution_profile(v)
                    \/ ubpf_set_unwind_function_index(v) \/ ubpf_toggle_readonly_bytecode(v)
                    \/ ubpf_toggle_constant_blinding(v) \/ ubpf_register_safe_region(v)
      PROVE  UNCHANGED <<jitted, jitted_result, ext_funcs, dispatcher, reported>>
  BY <1>3, Zenon DEF ubpf_set_jit_code_size, ubpf_register_stack_usage_calculator,
              ubpf_set_pointer_secret, ubpf_set_execution_profile,
              ubpf_set_unwind_function_index, ubpf_toggle_readonly_bytecode,
              ubpf_toggle_constant_blinding, ubpf_register_safe_region, Sets, Refuses
<1>4. ASSUME NEW m, NEW n, ubpf_translate_ex(m, n) PROVE FALSE
  BY <1>4, Zenon DEF ubpf_translate_ex, Calls, Translates
<1>5. ASSUME NEW m \in Modes, ubpf_compile_ex(m)
      PROVE  Compiled(m) \/ UNCHANGED <<jitted, jitted_result, ext_funcs, dispatcher, reported>>
  <2>1. CASE \/ Refuses
             \/ CompileCached(m) /\ UNCHANGED <<jit_vars, heap, reg_vars, reported>>
    BY <2>1, Zenon DEF Refuses
  <2>2. CASE /\ CompileNothing \/ CompileAttempt(m)
             /\ config.profile = "LEGACY"
             /\ UNCHANGED <<status, code_vars, reg_vars, config>>
    <3>1. CompileAttempt(m)
      BY <2>2, Zenon DEF CompileNothing
    <3>2. PICK ok \in BOOLEAN :
            /\ jitted_result' = Translation(m, config.bufsize, ok)
            /\ jitted_result'.result = "SUCCESS"
            /\ jitted' = NativeCode(jitted_result', m)
            /\ reported' = {}
      BY <3>1, ZenonT(60) DEF CompileAttempt, Outcomes
    <3> QED
      BY <2>2, <3>1, <3>2, Zenon DEF Compiled, CompileAttempt
  <2> QED
    BY <1>5, <2>1, <2>2, Zenon DEF ubpf_compile_ex
<1>6. ASSUME NEW p, ubpf_load(p)
      PROVE  UNCHANGED <<jitted, jitted_result, ext_funcs, dispatcher, reported>>
  BY <1>6, LoadSteps, Zenon
<1>7. \/ ubpf_exec_ex \/ UNCHANGED vars \/ ubpf_create \/ ubpf_destroy \/ ubpf_unload_code
      => UNCHANGED <<jitted, jitted_result, ext_funcs, dispatcher, reported>>
  BY Zenon DEF ubpf_exec_ex, Sets, Refuses, vars, ubpf_create, CreateFails, ubpf_destroy,
         ubpf_unload_code, UnloadCrashes
<1> QED
  BY <1>1, <1>2, <1>3, <1>4, <1>5, <1>6, <1>7, Zenon DEF Next

\* A fresh compilation has the layout, and its words are what is registered.
LEMMA CompiledCoherent ==
    ASSUME TypeOK, NEW m \in Modes, Compiled(m)
    PROVE  NativeLayout' /\ NativeTablesCoherent'
<1> DEFINE body == BodySize(LoadedProgram, m, config.blinding)
           res == jitted_result'
<1>1. PICK ok \in BOOLEAN : res = Translation(m, config.bufsize, ok)
  BY Zenon DEF Compiled
<1>2. body \in Nat /\ NativeSize(m) \in Nat /\ config.bufsize \in Nat /\ EpilogueSize \in Nat
      /\ MaxExtFuncs \in Nat \ {0}
  BY SizesTyped, Numbers, BufferTyped, Zenon
<1>3. /\ res.result = "SUCCESS"
      /\ res.doff = Least(body + EpilogueSize, config.bufsize)
      /\ res.hoff = Least(body + EpilogueSize + 1, config.bufsize)
  BY <1>1, Zenon DEF Compiled, Translation
<1>4. /\ jitted' = NativeCode(res, m)
      /\ UNCHANGED <<config, insts, ext_funcs, dispatcher>>
  BY Zenon DEF Compiled
<1>5. /\ jitted'.doff = res.doff /\ jitted'.hoff = res.hoff /\ jitted'.prot = "RX"
      /\ jitted'.size = Least(NativeSize(m), config.bufsize)
      /\ jitted'.missing = NativeSize(m) - Least(NativeSize(m), config.bufsize)
      /\ jitted'.code = Emitted(res, m, config.bufsize)
  BY <1>4, Zenon DEF NativeCode
<1>6. ASSUME jitted'.missing = 0
      PROVE  /\ NativeSize(m) <= config.bufsize /\ jitted'.size = NativeSize(m)
             /\ res.doff = body + EpilogueSize /\ res.hoff = body + EpilogueSize + 1
             /\ NativeSize(m) = res.hoff + MaxExtFuncs
  BY <1>2, <1>3, <1>5, <1>6 DEF Least, NativeSize
<1>7. NativeLayout'
  BY <1>2, <1>3, <1>5, <1>6, Zenon DEF NativeLayout
<1>8. ASSUME jitted'.missing = 0, NEW i \in Idx
      PROVE  jitted'.code[jitted'.hoff + i] = ext_funcs'[i]
  <2>1. /\ res.hoff + i \in 0 .. Least(NativeSize(m), config.bufsize) - 1
        /\ ~(res.hoff + i < res.doff) /\ ~(res.hoff + i < res.hoff)
        /\ (res.hoff + i) - res.hoff = i
    BY <1>2, <1>6, <1>8 DEF Idx, Least
  <2>2. Emitted(res, m, config.bufsize)[res.hoff + i] = ext_funcs[i]
    BY <2>1, Zenon DEF Emitted
  <2> QED
    BY <1>4, <1>5, <2>2, Zenon
<1>9. ASSUME jitted'.missing = 0
      PROVE  jitted'.code[jitted'.doff] = dispatcher'
  <2>1. /\ res.doff \in 0 .. Least(NativeSize(m), config.bufsize) - 1
        /\ ~(res.doff < res.doff) /\ res.doff < res.hoff
    BY <1>2, <1>6, <1>9 DEF Least
  <2>2. Emitted(res, m, config.bufsize)[res.doff] = dispatcher
    BY <2>1, Zenon DEF Emitted
  <2> QED
    BY <1>4, <1>5, <2>2, Zenon
<1> QED
  BY <1>5, <1>7, <1>8, <1>9, Zenon DEF NativeTablesCoherent

\* Updating a slot of native code writes that word or reports an error, and
\* touches no other word.
LEMMA UpdateWrites ==
    ASSUME TypeOK, jitted # NULL, jitted_result.result = "SUCCESS",
           NEW slot \in Nat, NEW w \in Word, NEW ok \in BOOLEAN, UpdateNative(slot, w, ok)
    PROVE  /\ ok => jitted'.prot = "RX" /\ jitted'.code[slot] = w
           /\ \A k \in 0 .. jitted.size - 1 : k # slot => jitted'.code[k] = jitted.code[k]
<1>1. PICK n \in CodeSizes : jitted \in NativeCodes(n)
  BY Zenon DEF TypeOK
<1>2. n \in Nat /\ jitted.size = n /\ jitted.code \in [0 .. n - 1 -> Word]
  BY <1>1, Numbers DEF NativeCodes, CodeSizes
<1>3. CASE ok = FALSE /\ UNCHANGED jitted
  BY <1>3, Zenon
<1>4. ASSUME NEW again \in BOOLEAN, ok = (again /\ SlotInBounds(slot)),
             jitted' = Protected(WriteSlot(slot, w), IF again THEN "RX" ELSE "RW")
      PROVE  /\ ok => jitted'.prot = "RX" /\ jitted'.code[slot] = w
             /\ \A k \in 0 .. jitted.size - 1 : k # slot => jitted'.code[k] = jitted.code[k]
  <2>1. WriteSlot(slot, w) \in NativeCodes(n)
    BY <1>1, Zenon DEF WriteSlot, SlotInBounds, NativeCodes
  <2>2. jitted' = [WriteSlot(slot, w) EXCEPT !.prot = IF again THEN "RX" ELSE "RW"]
    BY <1>4, <2>1, NullAssumption, Zenon DEF Protected
  <2>3. jitted'.code = WriteSlot(slot, w).code /\ jitted'.prot = IF again THEN "RX" ELSE "RW"
    BY <2>1, <2>2, Zenon DEF NativeCodes
  <2>4. CASE SlotInBounds(slot)
    <3>1. WriteSlot(slot, w).code = [jitted.code EXCEPT ![slot] = w]
      BY <1>1, <2>4, Zenon DEF WriteSlot, NativeCodes
    <3>2. slot \in 0 .. n - 1
      BY <1>2, <2>4 DEF SlotInBounds
    <3> QED
      BY <1>2, <1>4, <2>3, <3>1, <3>2, Zenon
  <2>5. CASE ~SlotInBounds(slot)
    BY <1>4, <2>3, <2>5, Zenon DEF WriteSlot
  <2> QED
    BY <2>4, <2>5, Zenon
<1> QED
  BY <1>3, <1>4, Zenon DEF UpdateNative, Outcomes

\* As long as ubpf_translate_ex is not called (it overwrites jitted_result), the
\* addresses in native code are those registered in the VM and the code is
\* executable, but for slots whose last registration returned an error.
THEOREM TablesAlwaysCoherent == Spec => []NativeTablesCoherent
<1> DEFINE Inv == NativeLayout /\ NativeTablesCoherent
<1>1. Init => Inv
  BY Zenon DEF Init, NativeLayout, NativeTablesCoherent
<1>2. TypeOK /\ Inv /\ [Next]_vars => Inv'
  <2> SUFFICES ASSUME TypeOK, NativeLayout, NativeTablesCoherent, [Next]_vars, jitted' # NULL,
                      ~Translates'
               PROVE  NativeLayout' /\ NativeTablesCoherent'
    BY Zenon DEF NativeLayout, NativeTablesCoherent, Translates
  <2> ~Translates
    BY ClientFixed, Zenon DEF Translates
  <2> USE DEF Translates
  <2>1. ASSUME NEW m \in Modes, Compiled(m) PROVE NativeLayout' /\ NativeTablesCoherent'
    BY <2>1, CompiledCoherent, Zenon
  <2>2. CASE UNCHANGED <<jitted, jitted_result, ext_funcs, dispatcher, reported>>
    BY <2>2, Zenon DEF NativeLayout, NativeTablesCoherent
  <2>3. ASSUME NEW slot \in Int, NEW w \in Word, NEW ok \in BOOLEAN, UpdateNative(slot, w, ok),
               UNCHANGED jitted_result
        PROVE  NativeLayout'
    BY <2>3, UpdateKeeps, Zenon DEF NativeLayout
  <2>4. ASSUME NEW i \in Idx, NEW fn \in Helpers \cup {NULL}, NEW ok \in BOOLEAN, Register(i, fn, ok)
        PROVE  NativeLayout' /\ NativeTablesCoherent'
    <3> DEFINE slot == jitted_result.hoff + i
    <3>1. /\ fn \in Word /\ slot \in Nat /\ UNCHANGED <<jitted_result, dispatcher>>
          /\ UpdateNative(slot, fn, ok)
          /\ ext_funcs' = [ext_funcs EXCEPT ![i] = fn]
          /\ reported' = IF ok THEN reported \ {i} ELSE reported \cup {i}
      <4>1. fn \in Word /\ slot \in Nat
        BY Words, Numbers, ResultTyped DEF Idx
      <4> HIDE DEF slot
      <4>2. /\ UNCHANGED <<jitted_result, dispatcher>> /\ ext_funcs' = [ext_funcs EXCEPT ![i] = fn]
            /\ reported' = IF ok THEN reported \ {i} ELSE reported \cup {i}
        BY <2>4, Zenon DEF Register, Reports
      <4>3. UpdateNative(slot, fn, ok)
        BY <2>4, Zenon DEF Register, slot
      <4> QED
        BY <4>1, <4>2, <4>3, Zenon
    <3>2. NativeLayout'
      BY <2>3, <3>1
    <3>3. /\ jitted # NULL /\ jitted'.doff = jitted.doff /\ jitted'.hoff = jitted.hoff
          /\ jitted'.missing = jitted.missing
      BY <3>1, UpdateKeeps
    <3>4. /\ jitted_result.result = "SUCCESS" /\ jitted.hoff = jitted_result.hoff
      BY <3>3, Zenon DEF NativeLayout
    <3>5. /\ ok => jitted'.prot = "RX" /\ jitted'.code[slot] = fn
          /\ \A k \in 0 .. jitted.size - 1 : k # slot => jitted'.code[k] = jitted.code[k]
      BY <3>1, <3>3, <3>4, UpdateWrites, Zenon
    <3>6. ASSUME jitted'.missing = 0 PROVE NativeTablesCoherent'
      <4>1. jitted.hoff = jitted.doff + 1 /\ jitted.hoff + MaxExtFuncs = jitted.size
            /\ jitted.doff \in Nat
        BY <3>3, <3>6, Zenon DEF NativeLayout, TypeOK
      <4>2. \A j \in Idx : jitted.hoff + j \in 0 .. jitted.size - 1 /\ (j # i => jitted.hoff + j # slot)
        BY <3>4, <4>1, Numbers DEF Idx
      <4>3. jitted.doff \in 0 .. jitted.size - 1 /\ jitted.doff # slot
        BY <3>4, <4>1, Numbers DEF Idx
      <4>4. i # DispatcherSlot
        BY DEF Idx, DispatcherSlot
      <4>5. \A j \in Idx \ reported' : jitted'.code[jitted'.hoff + j] = ext_funcs'[j]
        <5> TAKE j \in Idx \ reported'
        <5>1. CASE j = i
          BY <3>1, <3>3, <3>4, <3>5, <5>1, Zenon DEF TypeOK
        <5>2. CASE j # i
          BY <3>1, <3>3, <3>5, <3>6, <4>2, <5>2 DEF NativeTablesCoherent, TypeOK
        <5> QED
          BY <5>1, <5>2, Zenon
      <4>6. DispatcherSlot \notin reported' => jitted'.code[jitted'.doff] = dispatcher'
        BY <3>1, <3>3, <3>5, <3>6, <4>3, <4>4, Zenon DEF NativeTablesCoherent
      <4>7. jitted'.prot # "RX" => reported' # {}
        BY <3>1, <3>5, Zenon
      <4> QED
        BY <4>5, <4>6, <4>7, Zenon DEF NativeTablesCoherent
    <3> QED
      BY <3>2, <3>6, Zenon DEF NativeTablesCoherent
  <2>5. ASSUME NEW d \in Dispatchers \cup {NULL}, NEW ok \in BOOLEAN, Dispatches(d, ok)
        PROVE  NativeLayout' /\ NativeTablesCoherent'
    <3> DEFINE slot == jitted_result.doff
    <3>1. /\ d \in Word /\ slot \in Nat /\ UNCHANGED <<jitted_result, ext_funcs>>
          /\ UpdateNative(slot, d, ok) /\ dispatcher' = d
          /\ reported' = IF ok THEN reported \ {DispatcherSlot} ELSE reported \cup {DispatcherSlot}
      BY <2>5, Zenon DEF Word, TypeOK, Dispatches, Reports
    <3>2. NativeLayout'
      BY <2>3, <3>1
    <3>3. /\ jitted # NULL /\ jitted'.doff = jitted.doff /\ jitted'.hoff = jitted.hoff
          /\ jitted'.missing = jitted.missing
      BY <3>1, UpdateKeeps
    <3>4. /\ jitted_result.result = "SUCCESS" /\ jitted.doff = jitted_result.doff
      BY <3>3, Zenon DEF NativeLayout
    <3>5. /\ ok => jitted'.prot = "RX" /\ jitted'.code[slot] = d
          /\ \A k \in 0 .. jitted.size - 1 : k # slot => jitted'.code[k] = jitted.code[k]
      BY <3>1, <3>3, <3>4, UpdateWrites
    <3>6. ASSUME jitted'.missing = 0 PROVE NativeTablesCoherent'
      <4>1. jitted.hoff = jitted.doff + 1 /\ jitted.hoff + MaxExtFuncs = jitted.size
            /\ jitted.doff \in Nat
        BY <3>3, <3>6, Zenon DEF NativeLayout, TypeOK
      <4>2. \A j \in Idx : /\ jitted.hoff + j \in 0 .. jitted.size - 1 /\ jitted.hoff + j # slot
                           /\ j # DispatcherSlot
        BY <3>4, <4>1, Numbers DEF Idx, DispatcherSlot
      <4>3. \A j \in Idx \ reported' : jitted'.code[jitted'.hoff + j] = ext_funcs'[j]
        BY <3>1, <3>3, <3>5, <3>6, <4>2 DEF NativeTablesCoherent
      <4>4. DispatcherSlot \notin reported' => jitted'.code[jitted'.doff] = dispatcher'
        BY <3>1, <3>3, <3>4, <3>5, Zenon
      <4>5. jitted'.prot # "RX" => reported' # {}
        BY <3>1, <3>5, Zenon
      <4> QED
        BY <4>3, <4>4, <4>5, Zenon DEF NativeTablesCoherent
    <3> QED
      BY <3>2, <3>6, Zenon DEF NativeTablesCoherent
  <2> QED
    BY <2>1, <2>2, <2>4, <2>5, TableSteps, Zenon
<1> QED
  BY <1>1, <1>2, TypeCorrect, PTL DEF Spec

-----------------------------------------------------------------------------
(* Regions of the safe profile.                                            *)

\* The scan for a slot ends at the smallest one that qualifies.
LEMMA FirstSlotLeast ==
    ASSUME NEW S, S \subseteq Nat, S # {}
    PROVE  FirstSlot(S) \in S /\ \A l \in S : FirstSlot(S) <= l
<1>1. \E n \in S : \A l \in S : n <= l
  BY LeastElement, Zenon
<1> QED
  BY <1>1, Zenon DEF FirstSlot

\* A region that is accepted ends inside the address space.
LEMMA AcceptedFits ==
    ASSUME NEW r \in SafeRegions, RegionAccepted(r)
    PROVE  r.base # 0 /\ r.size # 0 /\ r.base + r.size < AddressSpace
<1>1. r.base \in 0 .. AddressSpace - 1 /\ r.size \in 0 .. AddressSpace - 1 /\ AddressSpace \in Nat
  BY ConstantsAssumption, Zenon
<1>2. r.base + r.size >= AddressSpace =>
        (r.base + r.size) % AddressSpace = r.base + r.size - AddressSpace
  BY <1>1
<1> QED
  BY <1>1, <1>2 DEF RegionAccepted

\* The table of regions changes in one call, and with the VM.
LEMMA RegionSteps ==
    ASSUME [Next]_vars
    PROVE  \/ safe_regions' = NoRegions \/ UNCHANGED safe_regions
           \/ \E r \in SafeRegions : ubpf_register_safe_region(r)
BY ZenonT(60) DEF Next, vars, code_vars, aux_vars, jit_vars, reg_vars, Refuses, Sets, Register,
       ubpf_create, CreateFails, ubpf_destroy, ubpf_unload_code, UnloadCrashes, ubpf_load, LoadStores,
       LoadFails, LoadFault,
       ubpf_exec_ex, ubpf_toggle_readonly_bytecode, ubpf_toggle_constant_blinding,
       ubpf_set_jit_code_size, ubpf_register_stack_usage_calculator, ubpf_set_pointer_secret,
       ubpf_set_execution_profile, ubpf_set_unwind_function_index, ubpf_register,
       ubpf_register_safe_helper, ubpf_register_external_dispatcher,
       ubpf_compile_ex, ubpf_translate_ex

\* What ubpf_register_safe_region does when it succeeds: it writes one slot, which
\* had the id already, or was free when no slot had it.
LEMMA RegionStored ==
    ASSUME TypeOK, NEW r \in SafeRegions, ubpf_register_safe_region(r), ret'
    PROVE  /\ RegionAccepted(r)
           /\ \E k \in RegionSlots :
                 /\ safe_regions' = [safe_regions EXCEPT ![k] = r]
                 /\ \/ safe_regions[k] # NULL /\ safe_regions[k].id = r.id
                    \/ /\ safe_regions[k] = NULL
                       /\ \A l \in RegionSlots : safe_regions[l] # NULL => safe_regions[l].id # r.id
<1> DEFINE k == FirstSlot(RegionSlot(r.id))
<1>1. /\ RegionAccepted(r) /\ RegionSlot(r.id) # {}
      /\ safe_regions' = [safe_regions EXCEPT ![k] = r]
  BY Zenon DEF ubpf_register_safe_region, Returns, Refuses, reg_vars
<1>2. RegionSlot(r.id) \subseteq RegionSlots /\ RegionSlots \subseteq Nat
  BY DEF RegionSlot, RegionSlots
<1>3. k \in RegionSlot(r.id)
  BY <1>1, <1>2, FirstSlotLeast, Zenon
<1> HIDE DEF k
<1> QED
  BY <1>1, <1>2, <1>3, Zenon DEF RegionSlot, InUse

\* Refused registrations leave the table alone.
LEMMA RegionRefused ==
    ASSUME NEW r, ubpf_register_safe_region(r), ~ret'
    PROVE  UNCHANGED safe_regions
BY Zenon DEF ubpf_register_safe_region, Returns, Refuses, reg_vars

\* The regions the safe profile works with have distinct ids, and none is empty,
\* at address 0 or reaches past the end of the address space.
THEOREM RegionsAlwaysRegistered == Spec => []RegionsRegistered
<1>1. Init => RegionsRegistered
  BY Zenon DEF Init, RegionsRegistered, NoRegions, InUse
<1>2. TypeOK /\ RegionsRegistered /\ [Next]_vars => RegionsRegistered'
  <2> SUFFICES ASSUME TypeOK, RegionsRegistered, [Next]_vars PROVE RegionsRegistered'
    OBVIOUS
  <2>1. CASE UNCHANGED safe_regions
    BY <2>1, Zenon DEF RegionsRegistered, InUse
  <2>2. CASE safe_regions' = NoRegions
    BY <2>2, Zenon DEF RegionsRegistered, InUse, NoRegions
  <2>3. ASSUME NEW r \in SafeRegions, ubpf_register_safe_region(r), ret'
        PROVE  RegionsRegistered'
    <3>1. PICK k \in RegionSlots :
            /\ safe_regions' = [safe_regions EXCEPT ![k] = r]
            /\ \/ safe_regions[k] # NULL /\ safe_regions[k].id = r.id
               \/ /\ safe_regions[k] = NULL
                  /\ \A l \in RegionSlots : safe_regions[l] # NULL => safe_regions[l].id # r.id
      BY <2>3, RegionStored, Zenon
    <3>2. r.base # 0 /\ r.size # 0 /\ r.base + r.size < AddressSpace
      BY <2>3, RegionStored, AcceptedFits, Zenon
    <3>3. \A l \in RegionSlots : safe_regions'[l] = IF l = k THEN r ELSE safe_regions[l]
      BY <3>1, Zenon DEF TypeOK
    <3> QED
      BY <3>1, <3>2, <3>3 DEF RegionsRegistered, InUse
  <2> QED
    BY <2>1, <2>2, <2>3, RegionSteps, RegionRefused, Zenon
<1> QED
  BY <1>1, <1>2, TypeCorrect, PTL DEF Spec

\* The region found under an id is the one registered region that has it.
LEMMA FoundRegion ==
    ASSUME NEW t \in [RegionSlots -> SafeRegions \cup {NULL}], NEW id,
           \A k, l \in RegionSlots :
              t[k] # NULL /\ t[l] # NULL /\ t[k].id = t[l].id => k = l
    PROVE  /\ \A k \in RegionSlots : t[k] # NULL /\ t[k].id = id =>
                 ubpf_safe_find_region_by_id(t, id) = t[k]
           /\ (\A k \in RegionSlots : t[k] # NULL => t[k].id # id) =>
                 ubpf_safe_find_region_by_id(t, id) = NULL
<1> DEFINE found == {k \in RegionSlots : t[k] # NULL /\ t[k].id = id}
<1>1. found = {} => ubpf_safe_find_region_by_id(t, id) = NULL
  BY Zenon DEF ubpf_safe_find_region_by_id
<1>2. found # {} => ubpf_safe_find_region_by_id(t, id) = t[FirstSlot(found)]
  BY Zenon DEF ubpf_safe_find_region_by_id
<1>3. found # {} => FirstSlot(found) \in found
  BY FirstSlotLeast DEF RegionSlots
<1> QED
  BY <1>1, <1>2, <1>3, Zenon

\* Registering a region changes what is found under its own id, to the region
\* registered, and only when the registration succeeds; it changes what is found
\* under no other id.
THEOREM RegionsAlwaysFound == Spec => RegionsFoundAsRegistered
<1> DEFINE Step ==
              \A r \in SafeRegions : ubpf_register_safe_region(r) =>
                  \A id \in {s.id : s \in SafeRegions} :
                      ubpf_safe_find_region_by_id(safe_regions', id) =
                          IF ret' /\ r.id = id THEN r
                          ELSE ubpf_safe_find_region_by_id(safe_regions, id)
<1>1. TypeOK /\ RegionsRegistered /\ TypeOK' /\ RegionsRegistered' /\ [Next]_vars => [Step]_vars
  <2> SUFFICES ASSUME TypeOK, RegionsRegistered, TypeOK', RegionsRegistered',
                      NEW r \in SafeRegions, ubpf_register_safe_region(r),
                      NEW id \in {s.id : s \in SafeRegions}
               PROVE  ubpf_safe_find_region_by_id(safe_regions', id) =
                          IF ret' /\ r.id = id THEN r
                          ELSE ubpf_safe_find_region_by_id(safe_regions, id)
    BY Zenon
  <2> DEFINE t == safe_regions
             u == safe_regions'
             Distinct(v) == \A k, l \in RegionSlots :
                                v[k] # NULL /\ v[l] # NULL /\ v[k].id = v[l].id => k = l
  <2>1. /\ t \in [RegionSlots -> SafeRegions \cup {NULL}] /\ Distinct(t)
        /\ u \in [RegionSlots -> SafeRegions \cup {NULL}] /\ Distinct(u)
    BY Zenon DEF TypeOK, RegionsRegistered, InUse
  <2>2. CASE ~ret'
    BY <2>2, RegionRefused, Zenon
  <2>3. CASE ret'
    <3>1. PICK k \in RegionSlots :
            /\ u = [t EXCEPT ![k] = r]
            /\ \/ t[k] # NULL /\ t[k].id = r.id
               \/ t[k] = NULL /\ \A l \in RegionSlots : t[l] # NULL => t[l].id # r.id
      BY <2>3, RegionStored, Zenon
    <3>2. u[k] = r /\ r # NULL /\ \A l \in RegionSlots : l # k => u[l] = t[l]
      BY <2>1, <3>1, NullAssumption, Zenon
    <3>3. CASE r.id = id
      BY <2>1, <2>3, <3>2, <3>3, FoundRegion, ZenonT(60)
    <3>4. CASE r.id # id
      <4>1. \A l \in RegionSlots : (u[l] # NULL /\ u[l].id = id) <=> (t[l] # NULL /\ t[l].id = id)
        BY <3>1, <3>2, <3>4, Zenon
      <4>2. \A l \in RegionSlots : t[l] # NULL /\ t[l].id = id => u[l] = t[l]
        BY <3>1, <3>2, <3>4, Zenon
      <4>3. CASE \E l \in RegionSlots : t[l] # NULL /\ t[l].id = id
        <5>1. PICK l \in RegionSlots : t[l] # NULL /\ t[l].id = id
          BY <4>3, Zenon
        <5>2. ubpf_safe_find_region_by_id(t, id) = t[l]
          BY <2>1, <5>1, FoundRegion, Zenon
        <5>3. ubpf_safe_find_region_by_id(u, id) = u[l]
          BY <2>1, <4>1, <5>1, FoundRegion, ZenonT(60)
        <5> QED
          BY <3>4, <4>2, <5>1, <5>2, <5>3, Zenon
      <4>4. CASE \A l \in RegionSlots : t[l] # NULL => t[l].id # id
        <5>1. ubpf_safe_find_region_by_id(t, id) = NULL
          BY <2>1, <4>4, FoundRegion, Zenon
        <5>2. ubpf_safe_find_region_by_id(u, id) = NULL
          BY <2>1, <4>1, <4>4, FoundRegion, ZenonT(60)
        <5> QED
          BY <3>4, <5>1, <5>2, Zenon
      <4> QED
        BY <4>3, <4>4, Zenon
    <3> QED
      BY <3>3, <3>4, Zenon
  <2> QED
    BY <2>2, <2>3, Zenon
<1> QED
  BY <1>1, TypeCorrect, RegionsAlwaysRegistered, PTL DEF Spec, RegionsFoundAsRegistered

=============================================================================
