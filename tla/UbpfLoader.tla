----------------------------- MODULE UbpfLoader -----------------------------
(***************************************************************************)
(* ubpf_load_elf_ex: an ELF object is checked, its functions are linked     *)
(* into one program with the main function first, its relocations are       *)
(* applied, and the result goes to ubpf_load, whose validation shares the   *)
(* instruction filter with the other threads of the process.               *)
(*                                                                         *)
(* Offsets and sizes inside sections count instructions.  An instruction    *)
(* carries its origin <<section, index>>, which no code reads.             *)
(***************************************************************************)
EXTENDS UbpfFilter, FiniteSetsExt

CONSTANTS
    MAX_SECTIONS,
    Wrap,          \* 2^64: sums of file offsets and sizes are taken modulo Wrap
    DataAddress,   \* <<low, high>> of what data_relocation_function returns
    Loader,        \* the thread that loads the ELF object
    Environments,  \* ELF objects, with the settings they are loaded with
    RawPrograms,   \* bytecode the other threads load
    NULL

\* The bytes of a file, or those behind it for a header that reaches past its end,
\* give every field some value of its width.  A symbol table starts with the
\* reserved symbol, and a function is made of whole instructions of its section,
\* less than 2^32 bytes in all: the compiler sees to that, the loader does not look.
IsObject(elf) ==
    /\ elf.size \in 0..(Wrap - 1) /\ IsArray(elf.sections)
    /\ elf.shoff \in 0..(Wrap - 1) /\ elf.shentsize \in 0..(Wrap - 1)
    /\ \A k \in DOMAIN elf.sections :
          LET s == elf.sections[k] IN
          /\ s.offset \in 0..(Wrap - 1) /\ s.size \in 0..(Wrap - 1) /\ IsArray(s.data)
          /\ s.type = "SYMTAB" =>
                /\ Len(s.data) > 0 /\ s.data[1].type # "FUNC"
                /\ \A l \in DOMAIN s.data :
                      s.data[l].shndx \in Nat /\ s.data[l].value \in Nat /\ s.data[l].size \in Nat

\* struct relocated_function; symbol is the index of the function's symbol.
RelocatedFunctions == [symbol : Nat, section : Nat, start : Nat, size : Nat, landed : Nat]

ASSUME LoaderAssumption ==
    /\ Loader \in Threads /\ Wrap \in Nat \ {0} /\ MAX_SECTIONS > 0
    /\ \A e \in Environments : IsObject(e.elf)
    /\ \A p \in RawPrograms : IsArray(p)
    /\ NULL \notin RelocatedFunctions

VARIABLES
    env,       \* elf, main_function_name, the VM's helper names and callback
    phase, i, j,
    functions, \* relocated_functions; functions[1] is slot 0
    size,      \* linked_program_size
    linked,    \* linked_program
    current_landing_spot,
    heap,      \* live allocations of the call
    result     \* NULL until it returns, then 0 or -1
elf_vars == <<env, phase, i, j, functions, size, linked, current_landing_spot, heap, result>>
vars == <<elf_vars, filter_vars>>

sections == env.elf.sections
section_count == Len(sections)
Section(k) == sections[k + 1]
IsCode(s) == s.type = "PROGBITS" /\ s.flags = "ALLOC|EXECINSTR"
IsData(s) == s.type = "PROGBITS" /\ s.flags = "ALLOC|WRITE"
FirstOf(type) == CHOOSE k \in DOMAIN sections : sections[k].type = type /\ \A l \in 1..(k - 1) : sections[l].type # type
HasType(type) == \E k \in DOMAIN sections : sections[k].type = type
symbols == sections[FirstOf("SYMTAB")].data

LoaderInit ==
    /\ env \in Environments
    /\ phase = "header" /\ i = 1 /\ j = 0
    /\ functions = <<>> /\ size = 0 /\ linked = NULL /\ current_landing_spot = 0 /\ heap = {} /\ result = NULL

Fail == phase' = "error" /\ UNCHANGED <<i, j, functions, size, linked>>

\* Mutant of bounds_check: the sum is not tested for wrapping around.
bounds_check_wrapping(offset, length) == (offset + length) % Wrap <= env.elf.size
bounds_check(offset, length) ==
    LET sum == (offset + length) % Wrap IN sum <= env.elf.size /\ sum >= offset

\* The header's fields are as expected and the sections not too many.
CheckHeader ==
    /\ phase = "header"
    /\ IF env.elf.header = "expected" /\ section_count <= MAX_SECTIONS
       THEN phase' = "sections" /\ UNCHANGED <<i, j, functions, size, linked>>
       ELSE Fail
    /\ UNCHANGED <<env, current_landing_spot, heap, result, filter_vars>>

\* Section i's header and its data are bounds-checked, the header for the size of a
\* pointer only.
ReadSection ==
    /\ phase = "sections" /\ i <= section_count
    /\ IF /\ bounds_check((env.elf.shoff + (i - 1) * env.elf.shentsize) % Wrap, 1)
          /\ bounds_check(sections[i].offset, sections[i].size)
       THEN i' = i + 1 /\ UNCHANGED <<phase, j, functions, size, linked>>
       ELSE Fail
    /\ UNCHANGED <<env, current_landing_spot, heap, result, filter_vars>>

\* Mutant: two slots of the table are taken before the first function.
FindTablesTakingTwo ==
    /\ phase = "sections" /\ i > section_count
    /\ \/ /\ HasType("STRTAB") /\ HasType("SYMTAB")
          /\ phase' = "symbols" /\ i' = 1 /\ functions' = <<NULL, NULL>> /\ heap' = heap \cup {<<"table", 0>>}
          /\ UNCHANGED <<j, size, linked>>
       \/ Fail /\ UNCHANGED heap
    /\ UNCHANGED <<env, current_landing_spot, result, filter_vars>>

\* The string and symbol tables are found, and the table of functions allocated,
\* with room for one function per symbol; slot 0 is kept for the main function.
FindTables ==
    /\ phase = "sections" /\ i > section_count
    /\ \/ /\ HasType("STRTAB") /\ HasType("SYMTAB")
          /\ phase' = "symbols" /\ i' = 1 /\ functions' = <<NULL>> /\ heap' = heap \cup {<<"table", 0>>}
          /\ UNCHANGED <<j, size, linked>>
       \/ Fail /\ UNCHANGED heap \* a table is missing, or calloc fails
    /\ UNCHANGED <<env, current_landing_spot, result, filter_vars>>

\* Is this function the one execution starts at?
IsMain(sym) ==
    IF env.main = NULL
    THEN Section(sym.shndx).name = ".text" /\ sym.value = 0
    ELSE sym.name = env.main

\* A function symbol: its record goes to slot 0 or to the end of the table.
AddFunction(sym) ==
    LET rf == [symbol |-> i, section |-> sym.shndx, start |-> sym.value, size |-> sym.size, landed |-> 0]
        Store(r) == functions' = IF IsMain(sym) THEN [functions EXCEPT ![1] = r] ELSE Append(functions, r)
    IN IF sym.name = "bad" \/ sym.shndx > section_count \/ ~IsCode(Section(sym.shndx))
       THEN Fail /\ UNCHANGED heap
       ELSE \/ /\ Store(rf) /\ heap' = heap \cup {<<"function", i>>}
               /\ size' = size + sym.size /\ i' = i + 1
               /\ UNCHANGED <<phase, j, linked>>
            \/ /\ Store(NULL) /\ size' = size + sym.size \* calloc fails
               /\ phase' = "error" /\ UNCHANGED <<i, j, linked, heap>>

ReadSymbol ==
    /\ phase = "symbols" /\ i <= Len(symbols)
    /\ IF symbols[i].type = "FUNC"
       THEN AddFunction(symbols[i])
       ELSE i' = i + 1 /\ UNCHANGED <<phase, j, functions, size, linked, heap>>
    /\ UNCHANGED <<env, current_landing_spot, result, filter_vars>>

\* Mutant of NativeData: the offset of the function in its section is forgotten.
SectionData(f, n) == Section(f.section).data[n]
\* The n-th instruction of a function in its section.
NativeData(f, n) == Section(f.section).data[f.start + n]

ZeroInstruction == [opcode |-> "zero", dst |-> 0, src |-> 0, imm |-> 0, offset |-> 0, origin |-> NULL]

\* There is a main function, and the zeroed program is allocated.
Link ==
    /\ phase = "symbols" /\ i > Len(symbols)
    /\ \/ /\ functions[1] # NULL
          /\ linked' = [n \in 1..size |-> ZeroInstruction] /\ heap' = heap \cup {<<"program", 0>>}
          /\ phase' = "copy" /\ i' = 1 /\ UNCHANGED <<j, functions, size>>
       \/ Fail /\ UNCHANGED heap \* no main function, or calloc fails
    /\ UNCHANGED <<env, current_landing_spot, result, filter_vars>>

\* The functions are copied one behind the other.
CopyFunction ==
    /\ phase = "copy"
    /\ LET f == functions[i]
           landing == (current_landing_spot + 1)..(current_landing_spot + f.size)
       IN /\ linked' = [n \in 1..size |-> IF n \in landing THEN NativeData(f, n - current_landing_spot) ELSE linked[n]]
          /\ functions' = [functions EXCEPT ![i].landed = current_landing_spot]
          /\ current_landing_spot' = current_landing_spot + f.size
    /\ IF i < Len(functions) THEN i' = i + 1 /\ UNCHANGED phase ELSE i' = 1 /\ phase' = "relocate"
    /\ UNCHANGED <<env, j, size, heap, result, filter_vars>>

\* A section is skipped, refused or its relocations begin.
EnterSection ==
    /\ phase = "relocate" /\ j = 0 /\ i <= section_count
    /\ LET s == sections[i] IN
       IF s.type # "REL" \/ ~IsCode(Section(s.info))
       THEN i' = i + 1 /\ UNCHANGED <<phase, j, functions, size, linked>>
       ELSE IF s.link >= section_count
       THEN Fail
       ELSE j' = 1 /\ UNCHANGED <<phase, i, functions, size, linked>>
    /\ UNCHANGED <<env, current_landing_spot, heap, result, filter_vars>>

\* Both halves of an LDDW take what the callback returns for a data symbol.
DataRelocatable(r, sym, at) ==
    /\ r.offset + 1 <= Section(sections[i].info).size
    /\ sym.shndx <= section_count /\ IsData(Section(sym.shndx))
    /\ (sym.size + sym.value) % Wrap <= Section(sym.shndx).size
    /\ linked[at].opcode = "lddw"
    /\ r.offset + 2 <= Section(sections[i].info).size
    /\ env.callback
RelocateData(r, sym, at) ==
    IF DataRelocatable(r, sym, at)
    THEN [linked EXCEPT ![at].imm = DataAddress[1], ![at + 1].imm = DataAddress[2]]
    ELSE NULL

\* The relative immediate of a local call; at is the position of the call, from 1.
\* Mutant: relative to the call, not to the instruction behind it.
CallImmFromCall(landed, at) == landed - (at - 1)
CallImm(landed, at) == landed - at

RelocateCall(sym, at) ==
    LET targets == {k \in DOMAIN functions : functions[k].section = sym.shndx /\ functions[k].start = linked[at].imm + 1}
    IN IF targets # {}
       THEN [linked EXCEPT ![at].imm = CallImm(functions[Min(targets)].landed, at)]
       ELSE NULL

\* A helper is looked up by the symbol's name.
RelocateHelper(sym, at) ==
    IF sym.name \in DOMAIN env.helpers
    THEN [linked EXCEPT ![at].imm = env.helpers[sym.name]]
    ELSE NULL

\* The functions that hold the place of a relocation; the first is the one taken.
Holders(r) ==
    {k \in DOMAIN functions :
        /\ functions[k].section = sections[i].info
        /\ r.offset \in functions[k].start..(functions[k].start + functions[k].size - 1)}

\* Is the relocation's symbol good, and its place in a known function?
RelocationUsable(r) ==
    LET table == Section(sections[i].link).data
    IN r.symbol < Len(table) /\ table[r.symbol + 1].name # "bad" /\ Holders(r) # {}

\* The linked program after a relocation, or NULL when it is refused.
Relocate(r) ==
    LET sym == Section(sections[i].link).data[r.symbol + 1]
        source == functions[Min(Holders(r))]
        at == source.landed + (r.offset - source.start) + 1
    IN CASE r.type = "64_64" -> RelocateData(r, sym, at)
         [] r.type \in {"64_32", "64_32_LEGACY"} /\ linked[at].src = 1 -> RelocateCall(sym, at)
         [] r.type \in {"64_32", "64_32_LEGACY"} /\ linked[at].src # 1 -> RelocateHelper(sym, at)
         [] OTHER -> linked

ApplyRelocation ==
    /\ phase = "relocate" /\ j > 0 /\ j <= Len(sections[i].data)
    /\ LET r == sections[i].data[j] IN
       IF RelocationUsable(r) /\ Relocate(r) # NULL
       THEN linked' = Relocate(r) /\ j' = j + 1 /\ UNCHANGED <<phase, i, functions, size>>
       ELSE Fail
    /\ UNCHANGED <<env, current_landing_spot, heap, result, filter_vars>>

LeaveSection ==
    /\ phase = "relocate" /\ j > 0 /\ j > Len(sections[i].data)
    /\ i' = i + 1 /\ j' = 0
    /\ UNCHANGED <<env, current_landing_spot, phase, functions, size, linked, heap, result, filter_vars>>

\* The records the table still holds, and the table.
\* Mutant: the loop begins behind slot 0.
ReleasedAfterMain ==
    {<<"function", functions[k].symbol>> : k \in {l \in DOMAIN functions : l > 1 /\ functions[l] # NULL}} \cup {<<"table", 0>>}
Released ==
    {<<"function", functions[k].symbol>> : k \in {l \in DOMAIN functions : functions[l] # NULL}} \cup {<<"table", 0>>}

\* All relocations are applied: the records are freed and ubpf_load validates.
StartLoad ==
    /\ phase = "relocate" /\ j = 0 /\ i > section_count
    /\ phase' = "load" /\ heap' = heap \ Released
    /\ Begin(Loader, linked)
    /\ UNCHANGED <<env, current_landing_spot, i, j, functions, size, linked, result>>

\* ubpf_load returns; it may also refuse a program the filter accepts.
FinishLoad ==
    /\ phase = "load" /\ job[Loader].step = "done"
    /\ result' \in IF job[Loader].verdict = "valid" THEN {0, -1} ELSE {-1}
    /\ phase' = "returned" /\ heap' = heap \ {<<"program", 0>>}
    /\ UNCHANGED <<env, current_landing_spot, i, j, functions, size, linked, filter_vars>>

\* The error path.
ReturnError ==
    /\ phase = "error"
    /\ phase' = "returned" /\ result' = -1 /\ heap' = heap \ (Released \cup {<<"program", 0>>})
    /\ UNCHANGED <<env, current_landing_spot, i, j, functions, size, linked, filter_vars>>

LoaderStep ==
    \/ CheckHeader \/ ReadSection \/ FindTables \/ ReadSymbol \/ Link \/ CopyFunction
    \/ EnterSection \/ ApplyRelocation \/ LeaveSection
    \/ StartLoad \/ FinishLoad \/ ReturnError
    \/ Validate(Loader) /\ UNCHANGED elf_vars

\* Another thread validates bytecode for a VM of its own.
OtherStep ==
    /\ \E t \in Threads \ {Loader} : Validate(t) \/ \E p \in RawPrograms : Begin(t, p)
    /\ UNCHANGED elf_vars

Init == FilterInit /\ LoaderInit
Next == LoaderStep \/ OtherStep
Spec == Init /\ [][Next]_vars

-----------------------------------------------------------------------------
(* Properties.                                                             *)

\* bounds_check lets no section through that is not inside the file, also
\* when offset + size wraps around.
SectionsInFile ==
    phase \notin {"header", "error", "returned"} =>
        \A k \in 1..(IF phase = "sections" THEN i - 1 ELSE section_count) :
            sections[k].offset + sections[k].size <= env.elf.size

\* Symbols that name a function, and those that claim to be the main one.
FunctionSymbols == {k \in DOMAIN symbols : symbols[k].type = "FUNC"}
Mains == {k \in FunctionSymbols : IsMain(symbols[k])}

\* Slot 0 is kept free for a main function that may be missing, and the table of
\* functions still never holds more than it has room for: one entry per symbol.
FunctionsFit == functions # <<>> => Len(functions) <= Len(symbols)

\* The call frees what it allocated, on every path, unless two symbols both
\* match the main function: the record of the first is then overwritten.
AllReleased == result # NULL => heap = {} \/ Cardinality(Mains) > 1

\* The instruction the relocation r of a section of relocations s is for.
PlaceOf(s, r) == <<s.info, r.offset>>
At(place) == CHOOSE k \in DOMAIN linked : linked[k].origin = place
RelocatedPlaces ==
    UNION {{PlaceOf(sections[k], sections[k].data[l]) : l \in DOMAIN sections[k].data} :
           k \in {l \in DOMAIN sections : sections[l].type = "REL"}}

\* The program given to ubpf_load starts with the main function, holds every
\* function once and whole, in one run of instructions, and differs from the
\* file only where there is a relocation (or in the second half of an LDDW).
LayoutPreserved ==
    phase = "load" /\ Cardinality(Mains) = 1 =>
        /\ \A m \in Mains : linked[1].origin = <<symbols[m].shndx, symbols[m].value>>
        /\ Cardinality({linked[k].origin : k \in DOMAIN linked}) = Len(linked)
        /\ \A f \in FunctionSymbols : \A k \in 0..(symbols[f].size - 1) :
              LET first == At(<<symbols[f].shndx, symbols[f].value>>) IN
              linked[first + k].origin = <<symbols[f].shndx, symbols[f].value + k>>
        /\ \A k \in DOMAIN linked :
              LET native == Section(linked[k].origin[1]).data[linked[k].origin[2] + 1] IN
              linked[k] = native \/ linked[k].origin \in RelocatedPlaces \/ native.opcode = "zero"

\* What a relocation asks for is what the program given to ubpf_load has: a
\* local call reaches the first instruction of the function it named in the
\* file, wherever linking moved the two; a helper call has the index of the
\* helper's name; an LDDW has both halves of the address.
RelocationsHonoured ==
    phase = "load" =>
        \A k \in {l \in DOMAIN sections : sections[l].type = "REL" /\ IsCode(Section(sections[l].info))} :
            \A l \in DOMAIN sections[k].data :
                LET s == sections[k]
                    r == s.data[l]
                    sym == symbols[r.symbol + 1]
                    native == Section(s.info).data[r.offset + 1]
                    at == At(PlaceOf(s, r))
                IN CASE r.type = "64_64" ->
                          linked[at].imm = DataAddress[1] /\ linked[at + 1].imm = DataAddress[2]
                     [] r.type \in {"64_32", "64_32_LEGACY"} /\ native.src = 1 ->
                          /\ at + 1 + linked[at].imm \in DOMAIN linked
                          /\ linked[at + 1 + linked[at].imm].origin = <<sym.shndx, native.imm + 1>>
                     [] r.type \in {"64_32", "64_32_LEGACY"} /\ native.src # 1 ->
                          linked[at].imm = env.helpers[sym.name]
                     [] OTHER -> TRUE

=============================================================================
