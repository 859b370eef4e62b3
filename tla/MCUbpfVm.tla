------------------------------ MODULE MCUbpfVm ------------------------------
(* Constants of UbpfVm for model checking.                                 *)
EXTENDS UbpfVm

CONSTANTS h1, d1, d2

Other == [op |-> "other"]
Invalid == [op |-> "invalid"]
CallHelper(i) == [op |-> "call", idx |-> i]
CallLocal(f) == [op |-> "local", pc |-> f]

\* A plain program, one with a helper call, one with a local function at pc 2,
\* and one rejected after its local call was visited.
MCPrograms ==
    {<<Other>>, <<CallHelper(0), CallHelper(1)>>, <<CallLocal(2), Other, Other>>,
     <<CallLocal(2), Invalid>>}
SmallPrograms == {<<Other>>, <<CallHelper(1), Other>>}
AllPrograms == MCPrograms \cup SmallPrograms
MCPcs == {0, 2}
MCValidates == [d \in Dispatchers |-> IF d = d1 THEN {0, 1, 7} ELSE NULL]
MCCalculators == {[f \in MCPcs |-> 16], [f \in MCPcs |-> IF f = 0 THEN 32 ELSE 65545]}

\* Extended mode and constant blinding change the length of the translation.
MCBodySize(p, m, b) ==
    2 + (IF p = NULL THEN 0 ELSE Len(p)) + (IF m = "Extended" THEN 1 ELSE 0) + (IF b THEN 1 ELSE 0)

Everything ==
    {"ubpf_create", "ubpf_destroy", "ubpf_load", "ubpf_unload_code", "ubpf_exec_ex",
     "ubpf_compile_ex", "ubpf_translate_ex", "ubpf_register", "ubpf_register_safe_helper",
     "ubpf_register_external_dispatcher", "ubpf_toggle_readonly_bytecode",
     "ubpf_toggle_constant_blinding", "ubpf_set_jit_code_size",
     "ubpf_register_stack_usage_calculator", "ubpf_set_pointer_secret",
     "ubpf_set_execution_profile", "ubpf_set_unwind_function_index", "ubpf_register_safe_region"}

AllFaults == {"calloc", "mmap", "mprotect", "translate"}

Client(calls, programs, withdraws, faults) ==
    [calls |-> calls, programs |-> programs, withdraws |-> withdraws, faults |-> faults]

\* One loads, compiles and translates while allocations fail; one registers
\* helpers and the dispatcher around compilations that may fail; one changes every
\* setting that loading, compiling or running fixes; one registers helpers and
\* dispatchers, which it never withdraws, for the programs that call them; one
\* registers regions.
MCClients ==
    {Client({"ubpf_create", "ubpf_destroy", "ubpf_load", "ubpf_unload_code", "ubpf_compile_ex",
             "ubpf_translate_ex", "ubpf_toggle_readonly_bytecode", "ubpf_set_unwind_function_index"},
            MCPrograms, FALSE, AllFaults),
     Client({"ubpf_create", "ubpf_load", "ubpf_unload_code", "ubpf_compile_ex", "ubpf_register",
             "ubpf_register_external_dispatcher", "ubpf_set_jit_code_size",
             "ubpf_toggle_constant_blinding"},
            SmallPrograms, TRUE, AllFaults),
     Client({"ubpf_create", "ubpf_load", "ubpf_unload_code", "ubpf_exec_ex", "ubpf_compile_ex",
             "ubpf_register_safe_helper", "ubpf_register_stack_usage_calculator",
             "ubpf_set_pointer_secret", "ubpf_set_execution_profile"},
            MCPrograms, FALSE, {}),
     Client({"ubpf_create", "ubpf_load", "ubpf_unload_code", "ubpf_compile_ex", "ubpf_register",
             "ubpf_register_external_dispatcher"},
            AllPrograms, FALSE, {}),
     Client({"ubpf_create", "ubpf_destroy", "ubpf_load", "ubpf_unload_code", "ubpf_register_safe_region"},
            SmallPrograms, FALSE, AllFaults)}
\* A client that calls everything and meets no fault.
AnyClient == {Client(Everything, Programs, FALSE, {})}

\* More ids than slots; the last descriptor is refused.
MCSafeRegions ==
    {[id |-> i, base |-> 4, size |-> 4] : i \in 0 .. 2} \cup
    {[id |-> 0, base |-> 8, size |-> 7], [id |-> 1, base |-> 8, size |-> 8]}
=============================================================================
