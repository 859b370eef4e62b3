# uBPF in TLA+

uBPF is a userspace eBPF virtual machine: an embedder creates a VM, registers
helper functions, loads bytecode, and runs it with an interpreter or compiles it
to native code. This directory holds TLA+ models of the VM's life, of its ELF
loader, validator and instruction filter, of its two interpreters and its two code
generators; TLC configurations that check them on small instances; and TLAPS proofs
that the safety properties of the VM, of both interpreters, of the loader and of the
filter hold for every instance. Line numbers refer to the sources under `vm/`.

## 1. The system

| part | where | state | operations | modelled in |
|---|---|---|---|---|
| VM lifecycle and configuration | `ubpf_vm.c`, `ubpf_int.h`, `inc/ubpf.h` | `struct ubpf_vm` | create, destroy, load, unload, register helper or dispatcher, settings | `UbpfVm` |
| JIT driver | `ubpf_jit.c` | `jitted`, `jitted_result`, `jitter_buffer_size` | `ubpf_translate_ex`, `ubpf_compile_ex`, `ubpf_set_jit_code_size` | `UbpfVm` |
| validator | `ubpf_vm.c` 1797-2124, 2426-2575 | stack usage table | `validate`, `check_for_self_contained_sub_programs` | `UbpfValidate`, effects on the VM in `UbpfVm` |
| instruction filter | `ubpf_instruction_valid.c` | lookup table, built on first use and shared by the process | `ubpf_is_valid_instruction` | predicate in `UbpfValidate`, table in `UbpfFilter` |
| legacy interpreter | `ubpf_vm.c` 441-1795, 2126-2250 | registers, shadow registers and stack, call frames | `ubpf_exec_ex` | `UbpfInterp`, promise in `CallStack`; what an instruction computes in `UbpfAlu` |
| safe-profile interpreter | `ubpf_safe.c` | tagged registers, spill slots, regions, helper metadata | `ubpf_exec_ex_safe` | `UbpfSafe`, promise of calls in `CallStack`; registration of helpers and regions in `UbpfVm` |
| x86-64 and ARM64 code generators | `ubpf_jit_x86_64.c`, `ubpf_jit_arm64.c`, `ubpf_jit_support.c` | code buffer, patchable targets | translate, resolve, update helper or dispatcher | `JitX86`, `JitArm64` (code of an instruction), `UbpfJit` (code of a program), `UbpfJitCode`, over the processors of `NativeCpu`; layout and update of the tables in `UbpfVm` |
| ELF loader | `ubpf_loader.c` | that of one call | `ubpf_load_elf_ex` | `UbpfLoader` |
| test driver, plugin, fuzzing harness | `test.c`, `ubpf_plugin/`, `libfuzzer/` | none | call the API | not modelled: input and output around the API |
| Python assembler and disassembler | `ubpf/` | none | text conversion | not modelled: not part of the VM |

How the parts meet: the loader links the functions of an object into one program
and hands it to `ubpf_load`, which asks the validator, whose answer depends on the
helpers and the dispatcher registered *then*; the interpreter relies on that
answer and on the stack usage table the validator filled. `ubpf_compile_ex`
copies helper and dispatcher addresses into the native code, and later
registrations patch them there; the code itself is to do what the interpreter does.
`ubpf_unload_code` gives back what load and compile allocated.

What is hard about it: API calls in orders nobody tests (register after compile,
unload, load again, change a setting in between); allocations and page
protections failing half-way; values checked at load time and used at run time;
arithmetic at the ends of regions and of the address space; the interplay of
nested calls, stack usage and the frame pointer, and its translation to pushes, pops
and patched branches with too few registers; atomics racing another processor. The
hazards are listed with
their lines in `PROJECT.json`.

A VM is used by one thread at a time (`docs/specs/requirements.md`, ASM-003), so
an API call is one atomic step of `UbpfVm` and one turn of the interpreter's loop
is one step of `UbpfInterp` or `UbpfSafe`. VMs of different threads share one thing,
the instruction filter's table; `UbpfFilter` has its steps one by one.

## 2. Modules

### UbpfVm: the life of a VM

Variables are the fields of `struct ubpf_vm` (`insts`, `int_funcs`, `usage`
standing for `local_func_stack_usage`, `jitted`, `jitted_result`, `ext_funcs`,
`safe_helpers`, `dispatcher`, and `config` for the rest), plus histories: `heap`
counts the allocations not given back yet, by purpose, `misfreed` says whether
bytecode was ever given to another allocator than its own, `reported` holds the slots
whose last registration returned an error, `ret` the last call's result. There is one
action per API function, with the name of the function. `client` is the embedder,
fixed at the start: the functions it calls, the programs it loads, whether it ever
registers NULL, and which system calls fail around it; those failures are alternatives
of the actions. The theorems hold for any set of clients.

* A program is a sequence of instructions of four kinds: a helper call, a local
  call, one the validator refuses, any other. That is all `ubpf_load` tells
  apart; `UbpfValidate` has the rest.
* Native code is a function from word offsets to words (a word is 8 bytes, the
  size of a slot): instructions and epilogue, the dispatcher's address, the helper
  table. `BodySize` is a parameter. `emit_bytes` stops for good once the buffer is
  full, so code that is cut off is a prefix of the whole.
* `safe_regions` is the table of regions of the safe profile, `config.unwind` the
  index of the unwinding helper; compiled code remembers the index it was given.
* `status = "crashed"` is a pointer the code may not use: in `validate` a usage table
  that is missing or a dispatcher without a validator; in `ubpf_unload_code` a mapping
  passed to `free`, which is undefined and may also go unnoticed.
* `ubpf_create` that fails half-way destroys the partial VM, which allocates one more
  usage table on the way (`CreateFails`, `Destroyed`).
* `ubpf_register_safe_region` is also refused for what descriptors of the model do not
  show: the kind, a reserved id, the permissions.
* Offsets of a failed translation are uninitialised in the code and never read;
  the model has 0 there.

### UbpfValidate: which programs are accepted

Pure predicates. Opcodes that the validator and the interpreter treat alike share
one `op` (see the module's head). Atomic immediates are reduced to the four
classes plain, fetch, exchange and compare-exchange.

### UbpfInterp: one call of ubpf_exec_ex

Each action is one turn of the loop: the head of the loop (`Executes`,
`HeadFrames`), then the instruction; every early return is an action of its own.
Registers hold numbers below `AddressSpace`; what arithmetic computes (`Compute`)
and when jumps are taken (`Taken`) are parameters, what loads find is arbitrary.
`executed`, `calls` and `accessed` are histories. A turn that fails leaves the
other variables as they were: the call returns -1 and they are dead.

### CallStack: what local calls promise

An abstract stack of activations: a call saves the next instruction and R6 - R10,
the matching exit restores them, nothing else moves R10, and calls nest at most
`MaxCallDepth` deep. `UbpfInterp` is shown to implement it (`CallsAreRestored`),
with `saved` mapped to the history `calls`. Native code is compared with the
interpreter directly (`UbpfJit`).

### UbpfSafe: one call of ubpf_exec_ex in the safe profile

Extends `UbpfInterp`: the loops share their heads, arithmetic, jumps and calls, and
the actions of `UbpfSafe` conjoin those of `UbpfInterp` with what happens to the
tags. Loads, stores, atomics and helper calls differ and are written out.

* `safe_tags`, `safe_frames` and `safe_spill_slots` are the code's arrays; a slot
  that is not valid is `NoSpill`. A region is given by base and size, where the
  code keeps base and end; permissions are a set of the three bits.
* `AluTag` is a relation between operands, result and tag. `AluRefused` is the case
  in which no tag fits. As in `UbpfInterp`, a turn that fails leaves the registers
  alone, though the code has written the result into one that is dead.
* `compute_access` takes an address that did not wrap: `Address` is a sum of
  integers, and being in `Word` stands for the two overflow tests.
* `stack_words` is what memory holds in the aligned words of the stack. Only a full
  aligned store of a register makes a word known; loads of anything else find an
  arbitrary value of `Contents`. `helpers_write` is chosen once per call: helpers
  that write to the stack make all of it unknown.
* `Regions` and `SafeHelpers` are constants with the properties their registration
  functions enforce (`SafeAssumption`; for regions, `RegionsRegistered` of `UbpfVm`
  shows it): helpers do not register regions or helpers
  while they are called from the program.
* `Provenance` is `CallStack` over pairs of a value and its tag.

### UbpfAlu: what an instruction computes

The cases of the interpreter's switch as operators on registers and one word of
memory: arithmetic, byte swaps, conditions, loads, stores, atomics, helper calls.
Widths are scaled by `W`: 64 bits become `W`, 32 become `W/2`, 16 `W/4`, 8 `W/8`,
so that sign bits, truncation, division of the least number by -1 and shift counts
all have an image. `UbpfInterp` leaves results open; the JIT modules take them from
here.

### NativeCpu, JitX86, JitArm64: instructions of the processors and their selection

`NativeCpu` (external: it is the hardware) says what each native instruction that
the generators emit does to a machine of registers, flags, a stack of words, one
word of shared memory and ARM64's exclusive monitor. A helper called is recorded
with its arguments and leaves `Junk` in the volatile registers. `Advance` runs up to
the next of a set of locations.

`JitX86` and `JitArm64` have one operator per emitting function, with the function's
name, returning a sequence of native instructions; branch targets that are patched
later are symbolic. The System V convention is modelled. `Translate` is the case of
the big switch for one instruction. Ranges of ARM64 immediates are `Imm9Limit` and
`Imm12Limit` (256 and 0x1000 in the code); a machine word has one address where the
code counts 8 bytes.

### UbpfJitCode: one instruction, next to the interpreter

A `job` is an instruction with registers, memory, blinding and helper settings. The
machine starts at the boundary before the instruction, runs its code, and may be
interrupted before every access of shared memory by another processor that writes
the word. `found` is what the atomic access itself saw.

### UbpfJit: a program, from compilation to the return to the host

`initialize_jit_state_result`, `TranslateInsn` (a turn of the translation loop, with
function prologs and the jump around them), `TranslateEnd` (epilogue, retpoline) and
`resolve_patchable_relatives` build the code as the generators' `translate` does, with
the tables at their limits, allocations failing and the buffer too small: for the
prologue, for an instruction, or for what follows the last check of `jit_status`.
LDDW takes two slots; the loop passes over the second, which has no location. `Enter`
and `Step` run the code, one eBPF instruction at a time, next to `RefStep`, the
interpreter. The error returns of `resolve_patchable_relatives` are for targets that no
emitting function records, and an opcode without a case in `translate` does not get past
`validate`; neither is in the model.

### UbpfFilter and UbpfLoader: from an object to validated bytecode

`UbpfFilter` has a step for each access of the shared flag and table. `UbpfLoader`
follows `ubpf_load_elf_ex` loop by loop: header, sections, symbols, linking,
relocations, load, and the error path; `phase` says which loop, `i` and `j` are its
counters. The bytes of the file are records, its names are values, offsets inside
sections count instructions. Allocations may fail at each place. `OtherStep` is a
second thread that validates.

* `functions` is `relocated_functions`; slot 0, where the main function goes, is
  `functions[1]` and starts as NULL. The program is allocated zeroed (`Link`) and filled
  one function at a time at `current_landing_spot` (`CopyFunction`).
* The loops that search `functions` stop at the first match: `Min(Holders(r))` for the
  function a relocation lies in, `Min(targets)` for the one a call goes to.
* `origin` in an instruction is where it is in the file. No code reads it; the
  properties do.

### Proofs and instances

| proofs | about |
|---|---|
| `UbpfVmProofs` | the life of a VM (`UbpfVm`) |
| `UbpfInterpProofs` | types, calls, the limit and memory in `UbpfInterp` |
| `UbpfFlowProofs` | where control goes in `UbpfInterp` |
| `UbpfSafeProofs` | provenance in `UbpfSafe` |
| `UbpfLoaderProofs` | `UbpfFilter`, and what `UbpfLoader` reads and frees |
| `UbpfLayoutProofs` | the linked program of `UbpfLoader` |
| `UbpfRelocationProofs` | the relocations of `UbpfLoader` |
| `NaturalOrder` | least and greatest elements of sets of numbers, for all of them |

`MCUbpfVm`, `MCUbpfInterp`, `MCUbpfSafe`, `MCUbpfJitCode`, `MCUbpfJit` and
`MCUbpfLoader` define constants and the programs, jobs and objects for TLC.

## 3. Runs

| run | question | instance |
|---|---|---|
| `vm` | Is anything forgotten or released twice when any system call of create, load, compile, unload and destroy may fail? Do the addresses inside native code follow the VM's through registrations, withdrawals, recompilation and failures, or was an error returned? Can a setting change at a moment that invalidates what was loaded or compiled? Does the table of safe regions stay what the safe interpreter relies on, and is a region found as it was registered? | five embedders with different functions, programs and faults (`MCClients`); 5 programs, 2 slots, a buffer too small, a dispatcher without a validator, 2 calculators (one whose result passes 16 bits), 2 secrets, both profiles; 5 region descriptors with 3 ids for 2 slots, one reaching the end of the address space |
| `interp` | Do local calls nest and return as `CallStack` says; is the stack usage current; do sub-programs stay apart; is opcode 0 out of reach? Is every access confined to the regions of the call or the callback's range? Is the instruction limit honoured, exact, and enough for termination? | three families of programs, each with its own settings: up to 4 of 12 instructions around calls and 5 around an LDDW (call depth 2, a stack so small that R10 wraps, a helper that may unwind); up to 3 over loads, stores and atomics at the edges (regions at address 0, at the end and past the end of an address space of 64); up to 4 of 7 with loops and recursion under the limits 0 to 7, the ones an `int` of `IntRange` 16 holds |
| `safe` | Can provenance be forged, leave its region, outlive an overwritten spill slot or get lost over a call; is every access inside a region that permits it? | every program of 4 of 9 instructions around spilling, 3 of 14 and 2 of 25 around tags, 5 of 7 around calls; a stack whose last word is incomplete, and one so low that R10 wraps; helpers that return the start, the inside and the outside of a pointer and a handle region |
| `jit_code` | Does the native code of each instruction compute what the interpreter computes, keep the host's frame and the context, hand helpers their arguments, and end, while another processor writes the word an atomic acts on? | every instruction on both processors; register pairs that meet the special registers; boundary values; offsets of every size class; blinding off and with two random values; up to 2 writes of the other processor |
| `jit_flow` | Does a compiled program stay in step with the interpreter through nested calls, exits, loops, fall-through, helper calls and unwinding, and give the host its registers and stack back? What if allocations of the compiler fail, its tables are full or its buffer is too small? | 640 programs of a main function and two sub-programs, on both processors and in both modes, with and without a dispatcher; for some, a buffer that ends at every place in the code |
| `loader` | Is everything inside the file, does the table of functions suffice, and is everything allocated given back; is the linked program the file's functions, main first, with the relocations applied; is the filter's verdict right while another thread fills its table? | objects with 3 functions in 2 sections, in 3 symbol orders, with 4 entry points and 5 kinds of relocation, or one of about 100 faults; any allocation failing |
| `vm_doc_last_slot` | Registering at the last index must update compiled code. | violated |
| `vm_doc_readonly` | Toggling read-only bytecode has no effect on code that is loaded. | violated |
| `vm_doc_unwind` | Once the unwind index is set, native code unwinds there. | violated |
| `interp_doc_subprogram` | Sub-programs are entered by calls only. | violated |
| `safe_doc_reload` | A spilled pointer comes back with its provenance. | violated |
| `jit_doc_context` | With constant blinding a helper still receives the context. | violated |

The violated properties are findings of `PROJECT.json`, which quotes the line of the
documents each contradicts.

Bounds. Slots: 2 instead of 64, so that one is the last and one is not. Call depth
2 instead of 8: the limit is reached, and a frame slot is used by several
functions in turn. Addresses: 64, enough for two regions, a gap, and both ends
(96 in `safe`, for four regions). `StackSlack` 12 instead of 32767: both sides of
the bound are reached.
`IntRange` 16 instead of 2^32. Regions: 2 slots instead of 64, so that the table gets
full. JIT: `W` is 8 (a 32-bit value has 4 bits, a byte one), `Imm9Limit` 2 and
`Imm12Limit` 4, so that offsets of -5 to 4 fall into each class; the tables of
patchable addresses have 12 entries, which some programs fill; the eBPF stack has 8
words; the size of the buffer is counted in native instructions. Two writes of another processor make an atomic operation retry twice. Loader:
`MAX_SECTIONS` 9 and one object with 10; `Wrap` 16, so that offset and size can wrap.
Each bound is a constant of the module, with the name of the code's where it has one.
Symmetry is not used: the instances have one helper.

Deadlock is checked in `jit_code` and `jit_flow` (where `Done` is the end of a call).
The interpreter ends with `outcome` "returned" or "failed", the loader with a result,
and `vm` contains the crashes described above, after which nothing happens; there
deadlock is not an error.

Fairness. `interp` assumes `WF_vars(Next)`: the loop of `ubpf_exec_ex` waits for
nothing, so as long as a turn is possible one is taken. `Terminates` needs no more.
`jit_code` assumes `WF_vars(Step)`: a processor goes on executing. Nothing is assumed
of the other processor, which may write at most `MaxInterference` times: the retry
loops are lock-free, not wait-free, so `Completes` needs it to stop.

What the passing runs assume of the embedder, or leave out:

* `NativeTablesCoherent` is about embedders that do not call `ubpf_translate_ex`, which
  overwrites `jitted_result` (`ubpf_jit.c:42`). After a failed translation it does not hold,
  because `ubpf_register` then takes the VM to be uncompiled (`ubpf_vm.c:183`); after
  one of the other mode `ubpf_compile_ex` returns cached code of the wrong mode, where
  `docs/specs/requirements.md:428` says "AC-2: Calling with a different mode triggers
  recompilation."
* `NativeTablesCoherent` is about code that is complete. `jit_status` is not looked
  at again after the epilogue, the retpoline and the tables (`ubpf_jit_x86_64.c:2508`),
  so code that the buffer cuts off there compiles, where
  `docs/specs/requirements.md:986` says "AC-2: A program that exceeds the configured
  buffer size fails to compile with an error."
* `UnwindCompiled` allows native code that was there when the unwind index was set to be
  without it; `vm_doc_unwind` shows that this happens.
* `CallsResolvable` is about embedders that withdraw nothing: a helper that a loaded
  program calls is not replaced by NULL.
* `FramesRestorable` and the proved refinement exclude programs with an atomic
  operation that fetches into R10. `validate` accepts them and the interpreter
  writes R10 (`ubpf_vm.c:1717`), where `docs/specs/requirements.md:641` says
  "`R10`: Frame pointer (read-only)."
* `SubprogramsIsolated` is about programs whose sub-programs end with EXIT or a
  jump in the last position (`interp_doc_subprogram` is about the others), and
  `OpcodesKnown` excludes local calls into an LDDW, which `validate` accepts.
* `SpillsTrackMemory` and `PointersInRegion` are about calls whose helpers do not
  write to the stack: a helper's write leaves spill slots valid
  (`ubpf_safe.c:1462`), where `docs/specs/requirements.md:1278` says "Overlapping
  stack writes MUST invalidate stale spill metadata." `TagsGranted` and
  `AccessesGranted` hold with such helpers too: a value may then be paired with
  another pointer's tag, and the access is still confined to that tag's window.
* `CodeAgrees` excludes `KnownDifference`: on x86-64 a fetching atomic loses its base
  address when that is in RAX, which holds eBPF R0 (`ubpf_jit_x86_64.c:1096`); on ARM64
  an 8-byte store of a negative immediate zero-extends it.
* `HostPreserved` excludes the context register after the instructions in
  `UsesContextRegister`, and `jit_flow` runs x86-64 without blinding: R11 is both the
  context (`ubpf_jit_x86_64.c:58`) and the temporary of blinding (508) and of signed
  64-bit division (1379); on ARM64 R26 is both the context and `offset_register`
  (`ubpf_jit_arm64.c:88`, 90), which atomics and accesses at 0x1000 or further write.
* In `jit_flow` functions that are entered otherwise than by a call have the stack
  usage of the function before: native code keeps the caller's, while the interpreter
  looks it up.
* Compilations that end as "crashed" or "truncated" are not run: ARM64 does not test
  the tables it fills, an assertion may find a function's prolog cut off by the buffer, neither generator tests `local_calls` for NULL
  (`ubpf_jit_support.c:94`), where `docs/specs/requirements.md:399` says "On failure, it
  MUST return `NULL` and set `*errmsg`.", and the retpoline's jumps at the limit of the
  table are dropped without an error.
* `FunctionsFit` is about objects whose symbol table starts with the reserved entry, as
  the format requires. All objects of the model do (`IsObject`); sections and functions
  hold whole instructions, fewer than 2^32 bytes in all. The loader tests none of this.
* `AllReleased` and `LayoutPreserved` are about objects with one main function: a second
  symbol that matches replaces the record of the first, which is leaked, and the
  program ends with zero instructions that fail to load.
* `VerdictsRight` is about processors that make stores visible in order (x86-64). The
  flag is a plain `bool`; on ARM64 it could be seen before the table's entries.
* The regions registered with the VM do not overlap the stack; a store through
  such a region would not invalidate spill slots (`ubpf_safe.c:839`).

Other places where code and documents differ, met while modelling and visible in
the models, but without a run of their own: `ubpf_unload_code` leaves
`jitted_result` at success, so later registrations return an error although they
are made; it ignores a failed allocation of the usage table (`ubpf_vm.c:394`), and
`validate` calls a missing dispatcher validator (`ubpf_vm.c:2009`), both leading to
"crashed"; stack usage calculated during a failed load is kept for the next one
(`ubpf_vm.c:2374`); `ubpf_register` leaves the safe-profile metadata of the helper
it replaces; reads of unwritten registers and stack bytes are propagated rather
than refused (`ubpf_vm.c:682`), where `docs/specs/requirements.md:814` asks for
failure; a limit of 2^31 or more is negative in the loop and stops the program at
its first instruction (`ubpf_vm.c:857`, `docs/specs/requirements.md:346`), which is
why `interp` checks `LimitExact` for the limits an `int` holds. In the safe profile,
64-bit multiplication, division and bitwise operations on pointers are refused
(`ubpf_safe.c:592`), where `docs/specs/design.md:770` has a scalar result; 32-bit
operations on handles give a scalar (`ubpf_safe.c:514`), where line 769 there has
an error; atomic operations do not mark the shadow stack, unlike in the legacy
loop, and one that fetches needs no read permission. In the loader, a local call
without a relocation keeps its relative immediate although linking moves functions
(`docs/specs/requirements.md:605`: "adjusting call targets to reflect the final
layout"); of two symbols for the same function only the first copy is relocated; a
symbol's section index may equal the number of sections; and a function's end is not
compared with its section's.

## 4. Theorems

The theorems hold for every value of the constants that satisfies the assumptions of
the modules: the types of the constants, and facts the code or its callers establish.
TLC evaluates the assumptions in the runs. Each proof has the same form: an inductive
invariant, shown to hold initially and to be kept by every action, one lemma per
action; the property then follows from the invariant, and the temporal step combines
the two. What follows names the invariant and why the property alone is not enough.

### The life of a VM (`UbpfVmProofs`)

For all programs, helpers, dispatchers, regions, sizes and failing system calls
(`ConstantsAssumption`).

* `TypeCorrect`: `TypeOK`, which is inductive.
* `FetchAlwaysDecodes`, `NativeAlwaysMatches`: `FetchDecodes` and
  `NativeMatchesBytecode` are inductive with `TypeOK`. The proofs rest on lemmas that say
  which calls change code, native code and settings.
* `UnwindAlwaysCompiled`: the action property `UnwindCompiled`. Invariant `UnwindHeld`:
  native code that has an index has the VM's, which holds because an index is set once.
* `UsageAlwaysKnown`: the assertion of `ubpf_stack_usage_for_local_func` holds whenever
  code is loaded.
* `CallsAlwaysResolvable`: the helper check made at load time still holds when the
  program runs, as long as nothing registered is withdrawn.
* `NeverLeaks`: `NoLeak` is about all allocations at once; `Counted` has it resource by
  resource, `PointersPaired` says that a VM that does not exist holds only NULL and that
  code and its marks are stored together.
* `TablesAlwaysCoherent`: for clients that do not call `ubpf_translate_ex`. Invariant
  `NativeLayout`: `jitted_result` describes the native code in the VM, whose last words
  are the dispatcher's slot and the helper table, so that a later registration patches
  the right word.
* `RegionsAlwaysRegistered`, `RegionsAlwaysFound`: the table of safe regions is what
  `UbpfSafe` assumes of it; a registration changes what is found under its own id only.

### The legacy interpreter (`UbpfInterpProofs`, `UbpfFlowProofs`)

For all programs that `validate` accepts, address spaces, call depths, limits and
settings (`InterpAssumption`: programs are functions on an initial segment of the
naturals that ends, the stack ends within the address space).

* `TypeCorrect`: `TypeOK` with `Validated`. The program counter stays a natural number
  because `validate` confines jumps and calls.
* `FramesAlwaysRestorable`: `FramesRestorable` is inductive with `TypeOK`: a call
  extends the chain of frame pointers at its end, an exit removes the end, and the head
  of the loop writes only the slot above the pending calls. Subtraction and addition of
  the stack usage cancel also when they wrap.
* `CallsImplementCallStack`: the interpreter implements `CallStack!Spec` as long as the
  program does not fetch into R10. Every action maps to `Step`, `Call`, `Return`, `Stop`
  or a stutter; `Return` rests on `FramesRestorable`.
* `LimitAlwaysHonoured`, `LimitAlwaysExact`: invariant `LimitCounts`, `executed +
  instruction_limit` is constant. Exactness assumes a limit that an `int` holds.
* `MemoryAlwaysConfined`: from the fact that whatever `bounds_check` accepts is confined.
* `OpcodesAlwaysKnown`: invariant `ReturnsDecodable`: neither `pc` nor a pending return
  address is the second half of an LDDW.
* `SubprogramsAlwaysIsolated`: an action property, from `TypeOK` and `Validated`.
* `FrameUsageAlwaysCurrent`: invariant `UsageTracked`: every pending frame carries the
  usage of the function its return address lies in.

### The safe profile (`UbpfSafeProofs`)

For all programs, regions and helper metadata that registration accepts
(`SafeAssumption`, with `InterpAssumption`).

* `SafeTypeCorrect`, `TagsAlwaysGranted`, `AccessesAlwaysGranted`: invariant `TagsTraced`:
  every tag in a register, a saved frame or a spill slot describes a part of something
  granted, and a tag of the stack the whole stack.
* `SpillSlotsAlwaysInRange`: for every stack size.
* `SpillsAlwaysTrackMemory`, `PointersAlwaysInRegion`: assume `StackApart`: neither a
  region nor the input of the call overlaps the stack. The invariants are
  `SpillsComplete` (a valid slot is a complete word) and `ValuesFit`, which has to speak
  of registers, saved frames and spilled words together: each can become any of the others.
* `ProvenanceImplementsCallStack`: calls restore values together with their tags;
  invariant `TagsRestorable`.

### The filter and the loader (`UbpfLoaderProofs`)

For every object whose fields have values of their widths, every filter table, any number
of threads (`LoaderAssumption`, `FilterAssumption`).

* `LoaderAlwaysRight`: the inductive invariant `LoaderRight` has two parts. `FilterRight`:
  once the flag is set the lookup table is complete, and each validation in progress was
  right so far; entries are only added, so no thread disturbs another. `ElfRight`: the
  types, which tables were found, that the record in slot 0 belongs to a main function
  already read, and what is allocated in each phase.
* `SectionsAlwaysInFile`: from the arithmetic of `bounds_check`, for every modulus.
* `FunctionsAlwaysFit`: there are at most as many functions as the symbols read, and the
  first of those is none, which leaves slot 0 for the main function (`RoomLeft`).
* `AlwaysAllReleased`: unless two symbols match the main function.
* `VerdictsAlwaysRight`: for any interleaving of the threads that fill the table.

### The linked program (`UbpfLayoutProofs`)

`LayoutAlwaysPreserved` proves `LayoutPreserved` for every object that is `Linkable`:
code sections hold instructions labelled with their places; functions lie inside their
sections, apart from each other and not through the middle of an LDDW; the main function
is not empty. The loader does not test these (see the end of section 3), and what it
does with other objects is not what `LayoutPreserved` says.

The invariant `LayoutRight` needs what the property does not mention:

* while symbols are read, `TableExact`: the table holds one record for each function
  symbol read, in any order, and in slot 0 only that of a main function. A main function
  may come last, so the table is not sorted in any way;
* `Prefix`: there are sums of the sizes of the first functions that end with
  `linked_program_size`. They are a witness (`\E p`), kept through `AddFunction` at the
  end of the table and in slot 0, where all later sums move (`PrefixAppend`,
  `PrefixMain`);
* while functions are copied, `Laid`: those copied are at those sums and equal the file;
  `current_landing_spot` is the next sum. That copies do not overlap follows from the
  sums;
* while relocations are applied, `Placed`: opcode, source register and origin are those
  of the file, and the rest too unless a relocation is for that place or it is the second
  half of an LDDW.

`Image` is what this amounts to once all are copied: every position of the program
belongs to one instruction of one function, and no two come from the same place
(`FunctionsApart`). `ImagePreserved` gets the property from it.

### Relocations (`UbpfRelocationProofs`)

`RelocationsAlwaysHonoured` proves `RelocationsHonoured` for every object that is
`Linkable` and `Relocatable`: one main function, no empty function, relocations that refer
to the symbol table, and no two relocations that write the same instruction.

The invariant `RelocationsRight` says of each relocation, by whether its turn has come
(`Applied`), that the program grants what it asks for (`Served`) or that the instruction
at its place is still the one of the file (`Waiting`). `Waiting` is needed because the
relocation of a local call reads the immediate it replaces. The step that applies a
relocation writes at its place only (`Wrote`, `EffectWrites`); the others are at other
places (`OthersKept`) and origins never change (`OriginsKept`), so a call that was
relocated still reaches its function. `CopyExact` starts the invariant off: after the
last copy, before the first relocation, the program is the file's.

Both invariants were model-checked before they were proved, on the objects of the
`loader` run: 366040 of its 368178 states belong to objects that are `Linkable`, 365266
to objects that are `Relocatable` as well.

### Model-checked only

* `Terminates` and `Completes`: liveness under fairness, out of the prover's reach.
* All properties of `UbpfJitCode` and `UbpfJit`: the code generators. Code is a sequence
  that recursive operators build and run, on words with bitwise operations; what they
  compute for every input would need induction over data, which the installed provers
  cannot do, and they do not take `RECURSIVE` operators or the bitwise module.

## 5. Open ends

* Values that derive from unwritten registers or stack bytes have no history in
  `UbpfInterp`.
* `RelocationsHonoured` says nothing of local calls without a relocation; see the end of
  section 3.

## 6. Not modelled

* The byte encoding of native instructions, the Windows calling convention, builds
  with `UBPF_DISABLE_RETPOLINES`, and `ubpf_set_register_offset`, which permutes the
  register map for tests.
* The update of ARM64's tables: its interface is the one modelled for x86-64.
* Setters on which no other part of a VM's life depends: their values are parameters of
  the modules that read them. The debug callback, logging and error texts.
* The random source of constant blinding; instances take several values.
* The test driver, the plugin and the fuzzing harness, which are input and output
  around the API, and the Python assembler and disassembler, which are not part of the
  VM.
