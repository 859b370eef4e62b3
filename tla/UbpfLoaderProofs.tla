-------------------------- MODULE UbpfLoaderProofs --------------------------
(***************************************************************************)
(* The loader reads no section outside the file, frees what it allocates    *)
(* and gets the right verdict of the validation, for every ELF object, any  *)
(* number of threads and every table of the instruction filter.             *)
(***************************************************************************)
EXTENDS UbpfLoader, NaturalOrder, SequenceTheorems, FiniteSetTheorems

-----------------------------------------------------------------------------
(* The validation, whose table all threads share.                          *)

\* A lookup table has an entry for every row.
Filled(table) == \A k \in DOMAIN _ubpf_instruction_filter : _ubpf_instruction_filter[k].opcode \in table

\* The types of a validation.
IsJob(v) == v = [x \in {"step", "prog", "i", "row", "verdict"} |-> v[x]]
JobTyped(v) ==
    /\ IsJob(v)
    /\ v.step \in {"idle", "test", "fill", "look up", "done"}
    /\ IsArray(v.prog) /\ v.i \in Nat /\ v.row \in Nat

\* How far a validation has come: what is behind it was right, the instruction it
\* is at is no second half, and the rows it passed have their entries.
JobRight(v, table) ==
    /\ v.step \in {"test", "fill", "look up"} =>
          /\ v.i \in DOMAIN v.prog /\ ~SecondHalf(v.prog, v.i)
          /\ \A k \in 1..(v.i - 1) : InstructionRight(v.prog, k)
    /\ v.step \in {"fill", "look up"} => LddwComplete(v.prog, v.i)
    /\ v.step = "fill" => \A k \in DOMAIN _ubpf_instruction_filter :
          k < v.row => _ubpf_instruction_filter[k].opcode \in table
    /\ v.step = "look up" => Filled(table)
    /\ v.step = "done" => (v.verdict = "valid" <=> ProgramAccepted(v.prog))

\* What every step of every thread preserves.
FilterRight ==
    /\ DOMAIN job = Threads
    /\ initialized => Filled(lookup_table)
    /\ \A t \in Threads : JobTyped(job[t]) /\ JobRight(job[t], lookup_table)

\* A thread that steps, and whose own validation stays right, disturbs no other: the
\* table only grows.
LEMMA OthersUndisturbed ==
    ASSUME FilterRight, NEW t \in Threads, NEW v, job' = [job EXCEPT ![t] = v],
           lookup_table \subseteq lookup_table', initialized' => Filled(lookup_table'),
           JobTyped(v), JobRight(v, lookup_table')
    PROVE  FilterRight'
<1>1. Filled(lookup_table) => Filled(lookup_table')
  BY Zenon DEF Filled
<1>2. DOMAIN job' = Threads /\ job'[t] = v
  BY Zenon DEF FilterRight
<1>3. ASSUME NEW u \in Threads, u # t PROVE JobTyped(job'[u]) /\ JobRight(job'[u], lookup_table')
  BY <1>1, <1>3, Zenon DEF FilterRight, JobRight
<1> QED
  BY <1>2, <1>3, Zenon DEF FilterRight

\* No thread validates at first.
LEMMA FilterInitRight == FilterInit => FilterRight
<1>1. JobTyped(Idle) /\ JobRight(Idle, {})
  BY DEF JobTyped, IsJob, JobRight, Idle, IsArray
<1> QED
  BY <1>1, Zenon DEF FilterInit, FilterRight

\* validate() begins at the first instruction, with nothing behind it.
LEMMA BeginRight ==
    ASSUME FilterRight, NEW t \in Threads, NEW prog, IsArray(prog), Begin(t, prog)
    PROVE  FilterRight'
<1> DEFINE v == IF Len(prog) = 0 THEN [Idle EXCEPT !.step = "done", !.verdict = "valid"]
                ELSE [Idle EXCEPT !.step = "test", !.prog = prog]
<1>1. job' = [job EXCEPT ![t] = v] /\ UNCHANGED <<lookup_table, initialized>>
  BY Zenon DEF Begin
<1>2. CASE Len(prog) = 0
  <2>1. v = [step |-> "done", prog |-> <<>>, i |-> 1, row |-> 1, verdict |-> "valid"]
    BY <1>2, Zenon DEF Idle
  <2>2. IsArray(<<>>) /\ ProgramAccepted(<<>>)
    BY DEF IsArray, ProgramAccepted
  <2> HIDE DEF v
  <2>3. JobTyped(v) /\ JobRight(v, lookup_table')
    BY <2>1, <2>2, Zenon DEF JobTyped, IsJob, JobRight
  <2> QED
    BY <1>1, <2>3, OthersUndisturbed, Zenon DEF FilterRight
<1>3. CASE Len(prog) # 0
  <2>1. v = [step |-> "test", prog |-> prog, i |-> 1, row |-> 1, verdict |-> "none"]
    BY <1>3, Zenon DEF Idle
  <2>2. 1 \in DOMAIN prog /\ ~SecondHalf(prog, 1)
    BY <1>3 DEF IsArray, SecondHalf
  <2> HIDE DEF v
  <2>3. JobTyped(v) /\ JobRight(v, lookup_table')
    BY <2>1, <2>2 DEF JobTyped, IsJob, JobRight
  <2> QED
    BY <1>1, <2>3, OthersUndisturbed DEF FilterRight
<1> QED
  BY <1>2, <1>3, Zenon

\* The test of the flag: it is set only once the table has all its entries, and the
\* thread that finds it unset fills the table from the first row.
LEMMA TestInitializedRight ==
    ASSUME FilterRight, NEW t \in Threads, TestInitialized(t)
    PROVE  FilterRight'
<1> DEFINE after == IF initialized THEN "look up" ELSE "fill"
           v == [job[t] EXCEPT !.step = after, !.row = 1]
<1>1. job' = [job EXCEPT ![t] = v] /\ UNCHANGED <<lookup_table, initialized>>
  BY Zenon DEF TestInitialized, FilterRight, JobTyped
<1>2. JobTyped(job[t]) /\ JobRight(job[t], lookup_table) /\ job[t].step = "test"
      /\ LddwComplete(job[t].prog, job[t].i) /\ (initialized => Filled(lookup_table))
  BY Zenon DEF TestInitialized, FilterRight
<1>3. after = "fill" \/ (after = "look up" /\ initialized)
  BY Zenon
<1> HIDE DEF after
<1>4. IsJob(v) /\ v.step = after /\ v.prog = job[t].prog /\ v.i = job[t].i /\ v.row = 1
  BY <1>2, Zenon DEF JobTyped, IsJob
<1> HIDE DEF v
<1>5. v.step = "fill" \/ (v.step = "look up" /\ Filled(lookup_table'))
  BY <1>1, <1>2, <1>3, <1>4, Zenon
<1>6. JobTyped(v)
  <2>1. IsArray(job[t].prog) /\ job[t].i \in Nat
    BY <1>2, Zenon DEF JobTyped
  <2>2. v.step \in {"idle", "test", "fill", "look up", "done"}
    BY <1>5, Zenon
  <2>3. 1 \in Nat
    BY Zenon
  <2> QED
    BY <1>4, <2>1, <2>2, <2>3, Zenon DEF JobTyped
<1>7. \A k \in DOMAIN _ubpf_instruction_filter : ~(k < v.row)
  BY <1>4, FilterAssumption DEF IsArray
<1>8. JobRight(v, lookup_table')
  BY <1>2, <1>4, <1>5, <1>7, Zenon DEF JobRight
<1> QED
  BY <1>1, <1>2, <1>6, <1>8, OthersUndisturbed, Zenon

\* The LDDW without a second half makes the program one that is not accepted.
LEMMA IncompleteLddwRight ==
    ASSUME FilterRight, NEW t \in Threads, IncompleteLddw(t)
    PROVE  FilterRight'
<1> DEFINE v == [job[t] EXCEPT !.step = "done", !.verdict = "invalid"]
<1>1. job' = [job EXCEPT ![t] = v] /\ UNCHANGED <<lookup_table, initialized>>
  BY Zenon DEF IncompleteLddw, FilterRight, JobTyped
<1>2. JobTyped(job[t]) /\ JobRight(job[t], lookup_table) /\ job[t].step = "test"
      /\ ~LddwComplete(job[t].prog, job[t].i) /\ (initialized => Filled(lookup_table))
  BY Zenon DEF IncompleteLddw, FilterRight
<1>3. IsJob(v) /\ v.step = "done" /\ v.prog = job[t].prog /\ v.i = job[t].i /\ v.row = job[t].row /\ v.verdict = "invalid"
  BY <1>2, Zenon DEF JobTyped, IsJob
<1>4. ~ProgramAccepted(job[t].prog)
  BY <1>2, Zenon DEF JobRight, ProgramAccepted, InstructionRight
<1> HIDE DEF v
<1>5. JobTyped(v) /\ JobRight(v, lookup_table')
  BY <1>2, <1>3, <1>4, Zenon DEF JobTyped, JobRight
<1> QED
  BY <1>1, <1>2, <1>5, OthersUndisturbed, Zenon

\* A row gets its entry.
LEMMA FillEntryRight ==
    ASSUME FilterRight, NEW t \in Threads, FillEntry(t)
    PROVE  FilterRight'
<1> DEFINE v == [job[t] EXCEPT !.row = job[t].row + 1]
<1>1. job' = [job EXCEPT ![t] = v] /\ UNCHANGED initialized /\ lookup_table \subseteq lookup_table'
      /\ _ubpf_instruction_filter[job[t].row].opcode \in lookup_table'
  BY Zenon DEF FillEntry, FilterRight, JobTyped
<1>2. JobTyped(job[t]) /\ JobRight(job[t], lookup_table) /\ job[t].step = "fill"
      /\ (initialized => Filled(lookup_table))
  BY Zenon DEF FillEntry, FilterRight
<1>3. IsJob(v) /\ v.step = "fill" /\ v.prog = job[t].prog /\ v.i = job[t].i /\ v.row = job[t].row + 1 /\ v.verdict = job[t].verdict
  BY <1>2, Zenon DEF JobTyped, IsJob
<1> HIDE DEF v
<1>4. JobTyped(v)
  BY <1>2, <1>3 DEF JobTyped
<1>5. \A k \in DOMAIN _ubpf_instruction_filter : k < v.row => _ubpf_instruction_filter[k].opcode \in lookup_table'
  BY <1>1, <1>2, <1>3, FilterAssumption DEF IsArray, JobRight, JobTyped
<1>6. JobRight(v, lookup_table')
  BY <1>2, <1>3, <1>5, Zenon DEF JobRight
<1>7. initialized' => Filled(lookup_table')
  BY <1>1, <1>2, Zenon DEF Filled
<1> QED
  BY <1>1, <1>4, <1>6, <1>7, OthersUndisturbed, Zenon

\* The flag is set behind the last row.
LEMMA SetInitializedRight ==
    ASSUME FilterRight, NEW t \in Threads, SetInitialized(t)
    PROVE  FilterRight'
<1> DEFINE v == [job[t] EXCEPT !.step = "look up"]
<1>1. job' = [job EXCEPT ![t] = v] /\ UNCHANGED lookup_table /\ job[t].row > Len(_ubpf_instruction_filter)
  BY Zenon DEF SetInitialized, FilterRight, JobTyped
<1>2. JobTyped(job[t]) /\ JobRight(job[t], lookup_table) /\ job[t].step = "fill"
  BY Zenon DEF SetInitialized, FilterRight
<1>3. IsJob(v) /\ v.step = "look up" /\ v.prog = job[t].prog /\ v.i = job[t].i /\ v.row = job[t].row /\ v.verdict = job[t].verdict
  BY <1>2, Zenon DEF JobTyped, IsJob
<1> HIDE DEF v
<1>4. Filled(lookup_table')
  BY <1>1, <1>2, FilterAssumption DEF IsArray, JobRight, JobTyped, Filled
<1>5. JobTyped(v) /\ JobRight(v, lookup_table')
  BY <1>2, <1>3, <1>4, Zenon DEF JobTyped, JobRight
<1> QED
  BY <1>1, <1>4, <1>5, OthersUndisturbed, Zenon

\* The steps of an instruction found right: what is behind the next one is right.
LEMMA NextInstruction ==
    ASSUME NEW prog, IsArray(prog), NEW k \in DOMAIN prog, ~SecondHalf(prog, k),
           \A l \in 1..(k - 1) : InstructionRight(prog, l), LddwComplete(prog, k), Accepted(prog[k]),
           NEW next, next = IF prog[k].opcode = "lddw" THEN k + 2 ELSE k + 1
    PROVE  /\ next \in Nat /\ next > 0 /\ ~SecondHalf(prog, next)
           /\ \A l \in 1..(next - 1) : InstructionRight(prog, l)
           /\ next > Len(prog) => ProgramAccepted(prog)
<1>1. k \in Nat /\ k > 0 /\ Len(prog) \in Nat /\ k <= Len(prog)
  BY DEF IsArray
<1>2. InstructionRight(prog, k)
  BY Zenon DEF InstructionRight
<1>3. CASE prog[k].opcode = "lddw"
  <2>1. next = k + 2 /\ prog[k + 1].opcode = "zero" /\ k + 1 <= Len(prog)
    BY <1>3, Zenon DEF LddwComplete
  <2>2. ~SecondHalf(prog, next)
    BY <1>1, <2>1 DEF SecondHalf
  <2>3. SecondHalf(prog, k + 1)
    BY <1>1, <1>3 DEF SecondHalf
  <2>4. InstructionRight(prog, k + 1)
    BY <2>1, <2>3, Zenon DEF InstructionRight, LddwComplete
  <2>5. ASSUME NEW l \in 1..(next - 1) PROVE InstructionRight(prog, l)
    <3>1. l \in 1..(k - 1) \/ l = k \/ l = k + 1
      BY <1>1, <2>1
    <3> QED
      BY <1>2, <2>4, <3>1, Zenon
  <2>6. next > Len(prog) => ProgramAccepted(prog)
    BY <1>1, <2>1, <2>5 DEF ProgramAccepted, IsArray
  <2> QED
    BY <1>1, <2>1, <2>2, <2>5, <2>6
<1>4. CASE prog[k].opcode # "lddw"
  <2>1. next = k + 1
    BY <1>4, Zenon
  <2>2. ~SecondHalf(prog, next)
    BY <1>1, <1>4, <2>1 DEF SecondHalf
  <2>3. ASSUME NEW l \in 1..(next - 1) PROVE InstructionRight(prog, l)
    <3>1. l \in 1..(k - 1) \/ l = k
      BY <1>1, <2>1
    <3> QED
      BY <1>2, <3>1, Zenon
  <2>4. next > Len(prog) => ProgramAccepted(prog)
    BY <1>1, <2>1, <2>3 DEF ProgramAccepted, IsArray
  <2> QED
    BY <1>1, <2>1, <2>2, <2>3, <2>4
<1> QED
  BY <1>3, <1>4, Zenon

\* The look-up: with all entries in the table, it finds the opcode exactly when a row
\* has it, so the verdict is the filter's.
LEMMA LookUpRight ==
    ASSUME FilterRight, NEW t \in Threads, LookUp(t)
    PROVE  FilterRight'
<1> DEFINE w == job[t]
           valid == w.prog[w.i].opcode \in lookup_table /\ Accepted(w.prog[w.i])
           next == IF w.prog[w.i].opcode = "lddw" THEN w.i + 2 ELSE w.i + 1
           last == next > Len(w.prog)
           step == IF valid /\ ~last THEN "test" ELSE "done"
           place == IF valid /\ ~last THEN next ELSE w.i
           verdict == IF ~valid THEN "invalid" ELSE IF last THEN "valid" ELSE w.verdict
           v == [w EXCEPT !.step = step, !.i = place, !.verdict = verdict]
<1>1. job' = [job EXCEPT ![t] = v] /\ UNCHANGED <<lookup_table, initialized>>
  BY Zenon DEF LookUp, FilterRight
<1>2. JobTyped(w) /\ JobRight(w, lookup_table) /\ w.step = "look up" /\ (initialized => Filled(lookup_table))
  BY Zenon DEF LookUp, FilterRight
<1>3. /\ w.i \in DOMAIN w.prog /\ ~SecondHalf(w.prog, w.i) /\ LddwComplete(w.prog, w.i) /\ Filled(lookup_table)
      /\ \A k \in 1..(w.i - 1) : InstructionRight(w.prog, k)
  BY <1>2, Zenon DEF JobRight
<1>4. valid <=> Accepted(w.prog[w.i])
  BY <1>3, Zenon DEF Filled, Accepted, RowAccepts
<1>5. IsArray(w.prog) /\ w.row \in Nat /\ w.i \in Nat
  BY <1>2, Zenon DEF JobTyped
<1>6. ~valid => ~ProgramAccepted(w.prog)
  BY <1>3, <1>4, Zenon DEF ProgramAccepted, InstructionRight
<1>7. valid => /\ next \in Nat /\ next > 0 /\ ~SecondHalf(w.prog, next)
               /\ \A k \in 1..(next - 1) : InstructionRight(w.prog, k)
               /\ last => ProgramAccepted(w.prog)
  <2> HIDE DEF next
  <2> QED
    BY <1>3, <1>4, <1>5, NextInstruction, Zenon DEF next
<1> HIDE DEF w, valid, next, step, place, verdict
<1>8. IsJob(v) /\ v.step = step /\ v.i = place /\ v.verdict = verdict /\ v.prog = w.prog /\ v.row = w.row
  BY <1>2, Zenon DEF JobTyped, IsJob
<1> HIDE DEF v
<1>9. JobTyped(v)
  BY <1>5, <1>7, <1>8, Zenon DEF JobTyped, step, place
<1>10. CASE valid /\ ~last
  <2>1. v.step = "test" /\ v.i = next
    BY <1>8, <1>10, Zenon DEF step, place
  <2>2. next \in DOMAIN w.prog
    BY <1>5, <1>7, <1>10 DEF IsArray
  <2>3. JobRight(v, lookup_table')
    BY <1>7, <1>8, <1>10, <2>1, <2>2, Zenon DEF JobRight
  <2> QED
    BY <1>1, <1>2, <1>9, <2>3, OthersUndisturbed, Zenon
<1>11. CASE ~(valid /\ ~last)
  <2>1. v.step = "done" /\ (v.verdict = "valid" <=> ProgramAccepted(v.prog))
    BY <1>6, <1>7, <1>8, <1>11, Zenon DEF step, verdict
  <2>2. JobRight(v, lookup_table')
    BY <2>1, Zenon DEF JobRight
  <2> QED
    BY <1>1, <1>2, <1>9, <2>2, OthersUndisturbed
<1> QED
  BY <1>10, <1>11, Zenon

\* Every step of a validation keeps all of them right.
LEMMA ValidateRight ==
    ASSUME FilterRight, NEW t \in Threads, Validate(t)
    PROVE  FilterRight'
BY IncompleteLddwRight, TestInitializedRight, FillEntryRight, SetInitializedRight, LookUpRight, Zenon DEF Validate

\* The verdicts are part of that.
LEMMA RightVerdicts == FilterRight => VerdictsRight
BY Zenon DEF FilterRight, JobRight, VerdictsRight

-----------------------------------------------------------------------------
(* The loader.                                                             *)

\* A function on the first n numbers.
IsTable(f, n) == f = [k \in 1..n |-> f[k]]

\* The types of the loader's variables.
LoaderTyped ==
    /\ IsObject(env.elf)
    /\ phase \in {"header", "sections", "symbols", "copy", "relocate", "load", "error", "returned"}
    /\ i \in Nat \ {0} /\ size \in Nat /\ current_landing_spot \in Nat
    /\ functions \in Seq(RelocatedFunctions \cup {NULL})
    /\ phase \in {"copy", "relocate", "load"} => IsTable(linked, size)
    /\ result # NULL => phase = "returned"

\* What is known of the object and of the table of functions in each phase.
TablesFound ==
    /\ phase = "header" => i = 1
    /\ phase \in {"header", "sections"} => functions = <<>>
    /\ phase \in {"symbols", "copy", "relocate"} =>
          /\ HasType("SYMTAB") /\ Len(functions) > 0
          /\ \A k \in 2..Len(functions) : functions[k] # NULL
    /\ phase \in {"copy", "relocate"} => functions[1] # NULL
    /\ phase = "copy" => i <= Len(functions)

\* The record in slot 0 belongs to a symbol read before.
MainRead ==
    phase = "symbols" /\ functions[1] # NULL =>
        functions[1].symbol \in Mains /\ functions[1].symbol < i

\* What the call holds is what is freed at the end of the phase, unless the record in
\* slot 0 was overwritten.
MainOverwritten == HasType("SYMTAB") /\ Cardinality(Mains) > 1
HeapAccounted ==
    MainOverwritten \/
        /\ phase \in {"header", "sections", "returned"} => heap = {}
        /\ phase \in {"symbols", "copy", "relocate", "error"} => heap \subseteq Released \cup {<<"program", 0>>}
        /\ phase = "load" => heap \subseteq {<<"program", 0>>}

\* The inductive invariant.
ElfRight == LoaderTyped /\ TablesFound /\ MainRead /\ HeapAccounted /\ SectionsInFile
LoaderRight == ElfRight /\ FilterRight

\* The sum of two numbers below the modulus.
LEMMA WrappedSum ==
    ASSUME NEW w \in Nat \ {0}, NEW a \in 0..(w - 1), NEW b \in 0..(w - 1)
    PROVE  (a + b) % w = IF a + b < w THEN a + b ELSE a + b - w
OBVIOUS

\* A range that bounds_check lets through is inside the file: a sum that wraps is
\* below its first operand.
LEMMA CheckedInFile ==
    ASSUME IsObject(env.elf), NEW offset \in 0..(Wrap - 1), NEW length \in 0..(Wrap - 1),
           bounds_check(offset, length)
    PROVE  offset + length <= env.elf.size
<1>1. Wrap \in Nat \ {0} /\ env.elf.size \in 0..(Wrap - 1)
  BY LoaderAssumption, Zenon DEF IsObject
<1>2. (offset + length) % Wrap <= env.elf.size /\ (offset + length) % Wrap >= offset
  BY Zenon DEF bounds_check
<1>3. (offset + length) % Wrap = IF offset + length < Wrap THEN offset + length ELSE offset + length - Wrap
  BY <1>1, WrappedSum, Zenon
<1> HIDE LoaderAssumption
<1> QED
  BY <1>1, <1>2, <1>3

\* A program of the loader is one validate() can get.
LEMMA TableIsArray ==
    ASSUME NEW n \in Nat, NEW f, IsTable(f, n)
    PROVE  IsArray(f) /\ Len(f) = n
<1>1. f \in Seq({f[k] : k \in 1..n})
  BY DEF IsTable
<1>2. DOMAIN f = 1..n
  BY Zenon DEF IsTable
<1> QED
  BY <1>1, <1>2, LenProperties DEF IsArray

\* The symbol table is an array of symbols.
LEMMA SymbolTable ==
    ASSUME IsObject(env.elf), HasType("SYMTAB")
    PROVE  /\ IsArray(symbols)
           /\ \A k \in DOMAIN symbols :
                 symbols[k].shndx \in Nat /\ symbols[k].value \in Nat /\ symbols[k].size \in Nat
           /\ Len(symbols) > 0 /\ symbols[1].type # "FUNC"
<1> DEFINE S == {k \in DOMAIN sections : sections[k].type = "SYMTAB"}
<1>1. DOMAIN sections = 1..Len(sections) /\ Len(sections) \in Nat
  BY Zenon DEF IsObject, IsArray, sections
<1>2. S \in SUBSET Nat /\ S # {}
  BY <1>1 DEF HasType
<1>3. PICK n \in S : \A m \in S : n <= m
  BY <1>2, LeastElement, Zenon
<1>4. \A l \in 1..(n - 1) : sections[l].type # "SYMTAB"
  BY <1>1, <1>3
<1>5. FirstOf("SYMTAB") \in DOMAIN sections /\ sections[FirstOf("SYMTAB")].type = "SYMTAB"
  BY <1>3, <1>4, Zenon DEF FirstOf
<1> QED
  BY <1>5, Zenon DEF IsObject, symbols, sections

\* Two symbols that both match the main function.
LEMMA TwoMains ==
    ASSUME IsObject(env.elf), HasType("SYMTAB"), NEW k \in Mains, NEW l \in Mains, k # l
    PROVE  MainOverwritten
<1>1. Mains \subseteq 1..Len(symbols) /\ Len(symbols) \in Nat
  BY SymbolTable, Zenon DEF Mains, FunctionSymbols, IsArray
<1>2. IsFiniteSet(Mains)
  <2>1. IsFiniteSet(1..Len(symbols))
    BY <1>1, FS_Interval
  <2> QED
    BY <1>1, <2>1, FS_Subset, Zenon
<1>3. Cardinality(Mains) \in Nat
  BY <1>2, FS_CardinalityType, Zenon
<1>4. Cardinality(Mains) # 0
  BY <1>2, FS_EmptySet, Zenon
<1>5. Cardinality(Mains) # 1
  BY <1>2, FS_Singleton
<1> QED
  BY <1>3, <1>4, <1>5 DEF MainOverwritten

\* What is a function of the object alone does not change.
LEMMA ObjectKept ==
    ASSUME env' = env
    PROVE  /\ sections' = sections /\ symbols' = symbols /\ section_count' = section_count
           /\ (HasType("SYMTAB"))' = HasType("SYMTAB") /\ Mains' = Mains /\ MainOverwritten' = MainOverwritten
<1>1. sections' = sections
  BY Zenon DEF sections
<1>2. symbols' = symbols /\ section_count' = section_count /\ (HasType("SYMTAB"))' = HasType("SYMTAB")
  BY <1>1, Zenon DEF symbols, FirstOf, section_count, HasType
<1>3. Mains' = Mains
  BY <1>1, <1>2, Zenon DEF Mains, FunctionSymbols, IsMain, Section
<1> QED
  BY <1>1, <1>2, <1>3, Zenon DEF MainOverwritten

\* A step of the loader that leaves the state of the call alone.
LEMMA ElfKept ==
    ASSUME ElfRight, UNCHANGED elf_vars
    PROVE  ElfRight'
<1>1. /\ env' = env /\ phase' = phase /\ i' = i /\ functions' = functions /\ size' = size /\ linked' = linked
      /\ current_landing_spot' = current_landing_spot /\ heap' = heap /\ result' = result
  BY Zenon DEF elf_vars
<1>2. LoaderTyped'
  BY <1>1, Zenon DEF ElfRight, LoaderTyped
<1>3. TablesFound'
  BY <1>1, ObjectKept, Zenon DEF ElfRight, TablesFound
<1>4. MainRead'
  BY <1>1, ObjectKept, Zenon DEF ElfRight, MainRead
<1>5. HeapAccounted'
  BY <1>1, ObjectKept, Zenon DEF ElfRight, HeapAccounted, Released
<1>6. SectionsInFile'
  BY <1>1, ObjectKept, Zenon DEF ElfRight, SectionsInFile
<1> QED
  BY <1>2, <1>3, <1>4, <1>5, <1>6 DEF ElfRight

\* An error: all that the call holds is freed by the error path.
LEMMA FailRight ==
    ASSUME ElfRight, Fail, UNCHANGED <<env, current_landing_spot, heap, result>>,
           phase \notin {"load", "returned"}
    PROVE  ElfRight'
<1>1. /\ env' = env /\ phase' = "error" /\ i' = i /\ functions' = functions /\ size' = size
      /\ current_landing_spot' = current_landing_spot /\ heap' = heap /\ result' = result
  BY Zenon DEF Fail
<1>2. LoaderTyped'
  BY <1>1, Zenon DEF ElfRight, LoaderTyped
<1>3. TablesFound' /\ MainRead' /\ SectionsInFile'
  BY <1>1, Zenon DEF TablesFound, MainRead, SectionsInFile
<1>4. HeapAccounted'
  <2>1. Released' = Released
    BY <1>1, Zenon DEF Released
  <2> QED
    BY <1>1, <2>1, ObjectKept, Zenon DEF ElfRight, LoaderTyped, HeapAccounted
<1> QED
  BY <1>2, <1>3, <1>4, Zenon DEF ElfRight

\* The header.
LEMMA CheckHeaderRight == ElfRight /\ CheckHeader => ElfRight'
<1> SUFFICES ASSUME ElfRight, CheckHeader PROVE ElfRight'
  BY Zenon
<1>1. phase = "header" /\ UNCHANGED <<env, current_landing_spot, heap, result>>
  BY Zenon DEF CheckHeader
<1>2. CASE Fail
  BY <1>1, <1>2, FailRight, Zenon
<1>3. CASE phase' = "sections" /\ UNCHANGED <<i, j, functions, size, linked>>
  <2>1. LoaderTyped'
    BY <1>1, <1>3, Zenon DEF ElfRight, LoaderTyped
  <2>2. TablesFound' /\ MainRead'
    BY <1>1, <1>3, Zenon DEF ElfRight, TablesFound, MainRead
  <2>3. HeapAccounted'
    BY <1>1, <1>3, ObjectKept, Zenon DEF ElfRight, HeapAccounted
  <2>4. SectionsInFile'
    BY <1>1, <1>3 DEF ElfRight, TablesFound, SectionsInFile
  <2> QED
    BY <2>1, <2>2, <2>3, <2>4 DEF ElfRight
<1> QED
  BY <1>2, <1>3, Zenon DEF CheckHeader

\* A section: the bounds check is what keeps the ones read inside the file.
LEMMA ReadSectionRight == ElfRight /\ ReadSection => ElfRight'
<1> SUFFICES ASSUME ElfRight, ReadSection PROVE ElfRight'
  OBVIOUS
<1>1. phase = "sections" /\ i <= section_count /\ UNCHANGED <<env, current_landing_spot, heap, result>>
  BY Zenon DEF ReadSection
<1>2. CASE Fail
  BY <1>1, <1>2, FailRight
<1>3. CASE /\ bounds_check(sections[i].offset, sections[i].size)
           /\ i' = i + 1 /\ UNCHANGED <<phase, j, functions, size, linked>>
  <2>1. LoaderTyped'
    BY <1>1, <1>3 DEF ElfRight, LoaderTyped
  <2>2. TablesFound' /\ MainRead'
    BY <1>1, <1>3, Zenon DEF ElfRight, TablesFound, MainRead
  <2>3. HeapAccounted'
    BY <1>1, <1>3, ObjectKept, Zenon DEF ElfRight, HeapAccounted
  <2>4. sections[i].offset + sections[i].size <= env.elf.size
    <3>1. i \in DOMAIN sections
      BY <1>1 DEF ElfRight, LoaderTyped, IsObject, IsArray, section_count, sections
    <3>2. sections[i].offset \in 0..(Wrap - 1) /\ sections[i].size \in 0..(Wrap - 1)
      BY <3>1, Zenon DEF ElfRight, LoaderTyped, IsObject, sections
    <3> QED
      BY <1>3, <3>2, CheckedInFile, Zenon DEF ElfRight, LoaderTyped
  <2>5. SectionsInFile'
    <3>1. \A k \in 1..(i - 1) : sections[k].offset + sections[k].size <= env.elf.size
      BY <1>1, Zenon DEF ElfRight, SectionsInFile
    <3>2. \A k \in 1..i : sections[k].offset + sections[k].size <= env.elf.size
      BY <2>4, <3>1 DEF ElfRight, LoaderTyped
    <3>3. i' - 1 = i /\ phase' = "sections"
      BY <1>1, <1>3 DEF ElfRight, LoaderTyped
    <3> QED
      BY <1>1, <3>2, <3>3, ObjectKept, Zenon DEF SectionsInFile
  <2> QED
    BY <2>1, <2>2, <2>3, <2>5 DEF ElfRight
<1> QED
  BY <1>2, <1>3, Zenon DEF ReadSection
\* The string and symbol tables.
LEMMA FindTablesRight == ElfRight /\ FindTables => ElfRight'
<1> SUFFICES ASSUME ElfRight, FindTables PROVE ElfRight'
  OBVIOUS
<1>1. phase = "sections" /\ i > section_count /\ UNCHANGED <<env, current_landing_spot, result>>
  BY Zenon DEF FindTables
<1>2. CASE Fail /\ UNCHANGED heap
  BY <1>1, <1>2, FailRight, Zenon
<1>3. CASE /\ HasType("STRTAB") /\ HasType("SYMTAB")
           /\ phase' = "symbols" /\ i' = 1 /\ functions' = <<NULL>> /\ heap' = heap \cup {<<"table", 0>>}
           /\ UNCHANGED <<j, size, linked>>
  <2>1. LoaderTyped'
    BY <1>1, <1>3 DEF ElfRight, LoaderTyped
  <2>2. TablesFound' /\ MainRead'
    BY <1>1, <1>3, ObjectKept DEF TablesFound, MainRead
  <2>3. HeapAccounted'
    BY <1>1, <1>3, ObjectKept, Zenon DEF ElfRight, HeapAccounted, Released
  <2>4. SectionsInFile'
    <3>1. section_count \in Nat
      BY Zenon DEF ElfRight, LoaderTyped, IsObject, IsArray, section_count, sections
    <3>2. \A k \in 1..section_count : sections[k].offset + sections[k].size <= env.elf.size
      BY <1>1, <3>1 DEF ElfRight, LoaderTyped, SectionsInFile
    <3> QED
      BY <1>1, <1>3, <3>2, ObjectKept DEF SectionsInFile
  <2> QED
    BY <2>1, <2>2, <2>3, <2>4 DEF ElfRight
<1> QED
  BY <1>2, <1>3, Zenon DEF FindTables

\* What is freed, by the records in the table.
LEMMA ReleasedRecords ==
    \A h : h \in Released <=>
        \/ h = <<"table", 0>>
        \/ \E k \in DOMAIN functions : functions[k] # NULL /\ h = <<"function", functions[k].symbol>>
BY Zenon DEF Released

\* The record in slot 0 while the symbols are read.
LEMMA SlotTyped ==
    ASSUME ElfRight, phase = "symbols", functions[1] # NULL
    PROVE  functions[1].symbol \in Nat
<1>1. functions \in Seq(RelocatedFunctions \cup {NULL}) /\ Len(functions) > 0
  BY Zenon DEF ElfRight, LoaderTyped, TablesFound
<1>2. functions[1] \in RelocatedFunctions \cup {NULL}
  BY <1>1
<1> QED
  BY <1>2, Zenon DEF RelocatedFunctions

\* A record goes into the table, or NULL where there was no memory for one: whatever was
\* in the table still is, unless a second main function takes slot 0.
LEMMA StoreRight ==
    ASSUME ElfRight, phase = "symbols", i \in FunctionSymbols, UNCHANGED env,
           NEW r \in RelocatedFunctions \cup {NULL},
           functions' = IF IsMain(symbols[i]) THEN [functions EXCEPT ![1] = r] ELSE Append(functions, r)
    PROVE  /\ functions' \in Seq(RelocatedFunctions \cup {NULL}) /\ Len(functions') > 0
           /\ r # NULL => \A k \in 2..Len(functions') : functions'[k] # NULL
           /\ r # NULL => \E k \in DOMAIN functions' : functions'[k] = r
           /\ functions'[1] = functions[1] \/ (functions'[1] = r /\ i \in Mains)
           /\ MainOverwritten \/ Released \subseteq Released'
<1> DEFINE S == RelocatedFunctions \cup {NULL}
<1>1. functions \in Seq(S) /\ Len(functions) > 0 /\ HasType("SYMTAB") /\ IsObject(env.elf)
      /\ \A k \in 2..Len(functions) : functions[k] # NULL
  BY Zenon DEF ElfRight, LoaderTyped, TablesFound
<1> HIDE DEF S
<1>2. Len(functions) \in Nat /\ DOMAIN functions = 1..Len(functions)
  BY <1>1, LenProperties, Zenon
<1>3. (\A h : h \in Released <=>
          \/ h = <<"table", 0>>
          \/ \E k \in DOMAIN functions : functions[k] # NULL /\ h = <<"function", functions[k].symbol>>)'
  BY ReleasedRecords, PTL
<1>4. CASE IsMain(symbols[i])
  <2>1. i \in Mains
    BY <1>4, Zenon DEF Mains
  <2>2. functions' = [functions EXCEPT ![1] = r]
    BY <1>4, Zenon
  <2>3. functions' \in Seq(S) /\ Len(functions') = Len(functions)
        /\ functions'[1] = r /\ \A k \in 2..Len(functions) : functions'[k] = functions[k]
    <3>1. r \in S /\ 1 \in 1..Len(functions)
      BY <1>1, <1>2 DEF S
    <3>2. functions' \in Seq(S) /\ Len(functions') = Len(functions)
      BY <1>1, <2>2, <3>1, ExceptSeq
    <3>3. functions'[1] = r /\ \A k \in 2..Len(functions) : functions'[k] = functions[k]
      BY <1>2, <2>2, <3>1
    <3> QED
      BY <3>2, <3>3, Zenon
  <2>4. DOMAIN functions' = 1..Len(functions)
    BY <1>2, <2>2, Zenon
  <2>5. functions[1] # NULL => MainOverwritten
    <3>1. ASSUME functions[1] # NULL PROVE MainOverwritten
      <4>1. functions[1].symbol \in Mains /\ functions[1].symbol < i
        BY <3>1, Zenon DEF ElfRight, MainRead
      <4>2. functions[1].symbol # i
        BY <3>1, <4>1, SlotTyped DEF ElfRight, LoaderTyped
      <4> QED
        BY <1>1, <2>1, <4>1, <4>2, TwoMains
    <3> QED
      BY <3>1, Zenon
  <2>6. ASSUME functions[1] = NULL PROVE Released \subseteq Released'
    <3>1. \A k \in DOMAIN functions : functions[k] # NULL => k \in DOMAIN functions' /\ functions'[k] = functions[k]
      <4>1. \A k \in 1..Len(functions) : k = 1 \/ k \in 2..Len(functions)
        BY <1>2
      <4> QED
        BY <1>2, <2>3, <2>4, <2>6, <4>1, Zenon
    <3>2. ASSUME NEW h \in Released PROVE h \in Released'
      BY <1>3, <3>1, ReleasedRecords
    <3> QED
      BY <3>2, Zenon
  <2>7. r # NULL => \A k \in 2..Len(functions') : functions'[k] # NULL
    BY <1>1, <1>2, <2>3, Zenon
  <2>8. 1 \in DOMAIN functions' /\ functions'[1] = r
    <3>1. 1 \in 1..Len(functions)
      BY <1>1, <1>2
    <3> QED
      BY <2>3, <2>4, <3>1, Zenon
  <2> QED
    BY <1>1, <2>1, <2>3, <2>5, <2>6, <2>7, <2>8, Zenon DEF S
<1>5. CASE ~IsMain(symbols[i])
  <2>1. functions' = Append(functions, r)
    BY <1>5, Zenon
  <2>2. /\ functions' \in Seq(S) /\ Len(functions') = Len(functions) + 1
        /\ \A k \in 1..Len(functions) : functions'[k] = functions[k]
        /\ functions'[Len(functions) + 1] = r
    BY <1>1, <2>1, AppendProperties DEF S
  <2>3. DOMAIN functions' = 1..(Len(functions) + 1)
    BY <2>2, LenProperties, Zenon
  <2>4. Released \subseteq Released'
    BY <1>2, <1>3, <2>2, <2>3, ReleasedRecords
  <2>5. r # NULL => \A k \in 2..Len(functions') : functions'[k] # NULL
    BY <1>1, <1>2, <2>2
  <2>6. Len(functions) + 1 \in DOMAIN functions' /\ functions'[1] = functions[1]
    BY <1>1, <1>2, <2>2, <2>3
  <2> QED
    BY <1>1, <1>2, <2>2, <2>4, <2>5, <2>6 DEF S
<1> QED
  BY <1>4, <1>5, Zenon

\* A symbol: the record of a function is in the table when it is on the heap.
LEMMA ReadSymbolRight == ElfRight /\ ReadSymbol => ElfRight'
<1> SUFFICES ASSUME ElfRight, ReadSymbol PROVE ElfRight'
  OBVIOUS
<1>1. phase = "symbols" /\ i <= Len(symbols) /\ UNCHANGED <<env, current_landing_spot, result>>
  BY Zenon DEF ReadSymbol
<1>2. IsObject(env.elf) /\ HasType("SYMTAB") /\ i \in Nat \ {0} /\ size \in Nat
  BY <1>1, Zenon DEF ElfRight, LoaderTyped, TablesFound
<1>3. i \in DOMAIN symbols
  BY <1>1, <1>2, SymbolTable DEF IsArray
<1>4. symbols[i].shndx \in Nat /\ symbols[i].value \in Nat /\ symbols[i].size \in Nat
  BY <1>2, <1>3, SymbolTable, Zenon
<1>5. ASSUME phase' \in {"symbols", "error"} PROVE SectionsInFile'
  BY <1>1, <1>5, ObjectKept, Zenon DEF ElfRight, SectionsInFile
<1>6. CASE i' = i + 1 /\ UNCHANGED <<phase, j, functions, size, linked, heap>>
  <2>1. LoaderTyped'
    BY <1>1, <1>2, <1>6 DEF ElfRight, LoaderTyped
  <2>2. TablesFound'
    BY <1>1, <1>6, ObjectKept, Zenon DEF ElfRight, TablesFound
  <2>3. MainRead'
    BY <1>1, <1>2, <1>6, SlotTyped, ObjectKept DEF ElfRight, MainRead
  <2>4. HeapAccounted'
    BY <1>1, <1>6, ObjectKept, Zenon DEF ElfRight, HeapAccounted, Released
  <2> QED
    BY <1>1, <1>5, <1>6, <2>1, <2>2, <2>3, <2>4 DEF ElfRight
<1>7. CASE symbols[i].type = "FUNC" /\ AddFunction(symbols[i])
  <2> DEFINE rf == [symbol |-> i, section |-> symbols[i].shndx, start |-> symbols[i].value,
                    size |-> symbols[i].size, landed |-> 0]
             Store(r) == functions' = IF IsMain(symbols[i]) THEN [functions EXCEPT ![1] = r] ELSE Append(functions, r)
  <2>1. i \in FunctionSymbols
    BY <1>3, <1>7, Zenon DEF FunctionSymbols
  <2>2. CASE Fail /\ UNCHANGED heap
    BY <1>1, <2>2, FailRight
  <2>3. CASE /\ Store(rf) /\ heap' = heap \cup {<<"function", i>>}
             /\ size' = size + symbols[i].size /\ i' = i + 1 /\ UNCHANGED <<phase, j, linked>>
    <3>1. rf \in RelocatedFunctions /\ rf # NULL /\ rf.symbol = i
      BY <1>2, <1>4, LoaderAssumption DEF RelocatedFunctions
    <3> HIDE DEF rf
    <3>2. /\ functions' \in Seq(RelocatedFunctions \cup {NULL}) /\ Len(functions') > 0
          /\ \A k \in 2..Len(functions') : functions'[k] # NULL
          /\ \E k \in DOMAIN functions' : functions'[k] = rf
          /\ functions'[1] = functions[1] \/ (functions'[1] = rf /\ i \in Mains)
          /\ MainOverwritten \/ Released \subseteq Released'
      BY <1>1, <2>1, <2>3, <3>1, StoreRight
    <3>3. LoaderTyped'
      BY <1>1, <1>2, <1>4, <2>3, <3>2 DEF ElfRight, LoaderTyped
    <3>4. TablesFound'
      BY <1>1, <1>2, <2>3, <3>2, ObjectKept, Zenon DEF TablesFound
    <3>5. MainRead'
      BY <1>1, <1>2, <2>3, <3>1, <3>2, SlotTyped, ObjectKept DEF ElfRight, MainRead
    <3>6. HeapAccounted'
      <4>1. <<"function", i>> \in Released'
        BY <3>1, <3>2, Zenon DEF Released
      <4>2. MainOverwritten \/ heap \subseteq Released \cup {<<"program", 0>>}
        BY <1>1, Zenon DEF ElfRight, HeapAccounted
      <4>3. MainOverwritten \/ heap' \subseteq Released' \cup {<<"program", 0>>}
        BY <2>3, <3>2, <4>1, <4>2
      <4> QED
        BY <1>1, <2>3, <4>3, ObjectKept, Zenon DEF HeapAccounted
    <3> QED
      BY <1>1, <1>5, <2>3, <3>3, <3>4, <3>5, <3>6 DEF ElfRight
  <2>4. CASE /\ Store(NULL) /\ size' = size + symbols[i].size
             /\ phase' = "error" /\ UNCHANGED <<i, j, linked, heap>>
    <3>1. /\ functions' \in Seq(RelocatedFunctions \cup {NULL})
          /\ MainOverwritten \/ Released \subseteq Released'
      BY <1>1, <2>1, <2>4, StoreRight
    <3>2. LoaderTyped'
      BY <1>1, <1>2, <1>4, <2>4, <3>1 DEF ElfRight, LoaderTyped
    <3>3. TablesFound' /\ MainRead'
      BY <2>4, Zenon DEF TablesFound, MainRead
    <3>4. HeapAccounted'
      <4>1. MainOverwritten \/ heap' \subseteq Released' \cup {<<"program", 0>>}
        BY <1>1, <2>4, <3>1, Zenon DEF ElfRight, HeapAccounted
      <4> QED
        BY <1>1, <2>4, <4>1, ObjectKept, Zenon DEF HeapAccounted
    <3> QED
      BY <1>5, <2>4, <3>2, <3>3, <3>4 DEF ElfRight
  <2> QED
    BY <1>7, <2>2, <2>3, <2>4 DEF AddFunction
<1> QED
  BY <1>6, <1>7, Zenon DEF ReadSymbol

\* The program is allocated, with a main function in slot 0.
LEMMA LinkRight == ElfRight /\ Link => ElfRight'
<1> SUFFICES ASSUME ElfRight, Link PROVE ElfRight'
  OBVIOUS
<1>1. phase = "symbols" /\ UNCHANGED <<env, current_landing_spot, result>>
  BY Zenon DEF Link
<1>2. CASE Fail /\ UNCHANGED heap
  BY <1>1, <1>2, FailRight, Zenon
<1>3. CASE /\ functions[1] # NULL
           /\ linked' = [n \in 1..size |-> ZeroInstruction] /\ heap' = heap \cup {<<"program", 0>>}
           /\ phase' = "copy" /\ i' = 1 /\ UNCHANGED <<j, functions, size>>
  <2>1. IsTable(linked', size')
    BY <1>3, Zenon DEF IsTable
  <2>2. LoaderTyped'
    BY <1>1, <1>3, <2>1 DEF ElfRight, LoaderTyped
  <2>3. TablesFound' /\ MainRead'
    BY <1>1, <1>3, ObjectKept DEF ElfRight, LoaderTyped, TablesFound, MainRead
  <2>4. HeapAccounted'
    <3>1. Released' = Released
      BY <1>3, Zenon DEF Released
    <3> QED
      BY <1>1, <1>3, <3>1, ObjectKept DEF ElfRight, HeapAccounted
  <2>5. SectionsInFile'
    BY <1>1, <1>3, ObjectKept DEF ElfRight, SectionsInFile
  <2> QED
    BY <2>2, <2>3, <2>4, <2>5 DEF ElfRight
<1> QED
  BY <1>2, <1>3, Zenon DEF Link

\* A function is copied: its record learns where it landed and nothing else.
LEMMA CopyFunctionRight == ElfRight /\ CopyFunction => ElfRight'
<1> SUFFICES ASSUME ElfRight, CopyFunction PROVE ElfRight'
  OBVIOUS
<1> DEFINE f == functions[i]
           g == [f EXCEPT !.landed = current_landing_spot]
           S == RelocatedFunctions \cup {NULL}
<1>1. phase = "copy" /\ UNCHANGED <<env, size, heap, result>>
      /\ functions' = [functions EXCEPT ![i] = g] /\ current_landing_spot' = current_landing_spot + f.size
  BY Zenon DEF CopyFunction
<1>2. IF i < Len(functions) THEN i' = i + 1 /\ phase' = "copy" ELSE i' = 1 /\ phase' = "relocate"
  BY <1>1, Zenon DEF CopyFunction
<1>3. IsTable(linked', size')
  BY <1>1, Zenon DEF CopyFunction, IsTable
<1>4. /\ functions \in Seq(S) /\ i \in 1..Len(functions) /\ Len(functions) \in Nat
      /\ \A k \in 1..Len(functions) : functions[k] # NULL
  BY <1>1 DEF ElfRight, LoaderTyped, TablesFound
<1>5. DOMAIN functions = 1..Len(functions) /\ f \in RelocatedFunctions /\ current_landing_spot \in Nat
  BY <1>4 DEF ElfRight, LoaderTyped
<1>6. g \in RelocatedFunctions /\ g.symbol = f.symbol /\ f.size \in Nat
  BY <1>5, Zenon DEF RelocatedFunctions
<1>7. g # NULL /\ g \in S
  BY <1>6, LoaderAssumption, Zenon
<1> HIDE DEF f, g, S
<1>8. functions' \in Seq(S) /\ Len(functions') = Len(functions)
  BY <1>1, <1>4, <1>7, ExceptSeq
<1>9. /\ DOMAIN functions' = 1..Len(functions) /\ functions'[i] = g
      /\ \A k \in 1..Len(functions) : k # i => functions'[k] = functions[k]
  BY <1>1, <1>4, <1>5, Zenon
<1>10. \A k \in 1..Len(functions) : functions'[k] # NULL /\ functions'[k].symbol = functions[k].symbol
  <2>1. f = functions[i]
    BY Zenon DEF f
  <2> QED
    BY <1>4, <1>6, <1>7, <1>9, <2>1, Zenon
<1>11. LoaderTyped'
  BY <1>1, <1>2, <1>3, <1>5, <1>6, <1>8 DEF ElfRight, LoaderTyped, S
<1>12. TablesFound' /\ MainRead'
  <2>1. 1 \in 1..Len(functions) /\ \A k \in 2..Len(functions') : k \in 1..Len(functions)
    BY <1>4, <1>8
  <2>2. functions'[1] # NULL /\ \A k \in 2..Len(functions') : functions'[k] # NULL
    BY <1>10, <2>1, Zenon
  <2>3. phase' = "copy" => i' <= Len(functions')
    BY <1>2, <1>4, <1>8
  <2>4. phase' \in {"copy", "relocate"} /\ Len(functions') > 0
    BY <1>2, <1>4, <1>8
  <2> QED
    BY <1>1, <2>2, <2>3, <2>4, ObjectKept, Zenon DEF ElfRight, TablesFound, MainRead
<1>13. HeapAccounted'
  <2>1. (\A h : h \in Released <=>
            \/ h = <<"table", 0>>
            \/ \E k \in DOMAIN functions : functions[k] # NULL /\ h = <<"function", functions[k].symbol>>)'
    BY ReleasedRecords, PTL
  <2>2. ASSUME NEW h \in Released PROVE h \in Released'
    BY <1>5, <1>9, <1>10, <2>1, ReleasedRecords
  <2>3. phase' \in {"copy", "relocate"}
    BY <1>2, Zenon
  <2> QED
    BY <1>1, <2>2, <2>3, ObjectKept DEF ElfRight, HeapAccounted
<1>14. SectionsInFile'
  BY <1>1, <1>2, ObjectKept, Zenon DEF ElfRight, SectionsInFile
<1> QED
  BY <1>11, <1>12, <1>13, <1>14 DEF ElfRight

\* A step among the relocations that keeps the program's length.
LEMMA RelocatingRight ==
    ASSUME ElfRight, phase = "relocate", i' \in Nat \ {0}, IsTable(linked', size),
           UNCHANGED <<env, phase, functions, size, current_landing_spot, heap, result>>
    PROVE  ElfRight'
<1>1. LoaderTyped'
  BY Zenon DEF ElfRight, LoaderTyped
<1>2. TablesFound' /\ MainRead'
  BY ObjectKept, Zenon DEF ElfRight, TablesFound, MainRead
<1>3. HeapAccounted'
  BY ObjectKept, Zenon DEF ElfRight, HeapAccounted, Released
<1>4. SectionsInFile'
  BY ObjectKept, Zenon DEF ElfRight, SectionsInFile
<1> QED
  BY <1>1, <1>2, <1>3, <1>4 DEF ElfRight

\* Entering and leaving a section of relocations.
LEMMA SectionsRight == ElfRight /\ (EnterSection \/ LeaveSection) => ElfRight'
<1> SUFFICES ASSUME ElfRight, EnterSection \/ LeaveSection PROVE ElfRight'
  BY Zenon
<1>1. phase = "relocate" /\ UNCHANGED <<env, current_landing_spot, heap, result>>
  BY Zenon DEF EnterSection, LeaveSection
<1>2. i \in Nat \ {0} /\ IsTable(linked, size)
  BY <1>1, Zenon DEF ElfRight, LoaderTyped
<1>3. CASE Fail
  BY <1>1, <1>3, FailRight, Zenon
<1>4. CASE i' \in {i, i + 1} /\ UNCHANGED <<phase, functions, size, linked>>
  BY <1>1, <1>2, <1>4, RelocatingRight
<1> QED
  BY <1>3, <1>4, Zenon DEF EnterSection, LeaveSection

\* A relocation changes immediates only.
LEMMA RelocateKeepsLength ==
    ASSUME NEW r, IsTable(linked, size), Relocate(r) # NULL
    PROVE  IsTable(Relocate(r), size)
<1>1. ASSUME NEW at, NEW a, NEW b
      PROVE  /\ IsTable([linked EXCEPT ![at].imm = a], size)
             /\ IsTable([linked EXCEPT ![at].imm = a, ![at + 1].imm = b], size)
  BY Zenon DEF IsTable
<1>2. \A sym, at : RelocateData(r, sym, at) = NULL \/ IsTable(RelocateData(r, sym, at), size)
  BY <1>1, Zenon DEF RelocateData
<1>3. \A sym, at : RelocateCall(sym, at) = NULL \/ IsTable(RelocateCall(sym, at), size)
  BY <1>1, Zenon DEF RelocateCall
<1>4. \A sym, at : RelocateHelper(sym, at) = NULL \/ IsTable(RelocateHelper(sym, at), size)
  BY <1>1, Zenon DEF RelocateHelper
<1> QED
  BY <1>2, <1>3, <1>4, Zenon DEF Relocate

\* A relocation is applied or refused.
LEMMA ApplyRelocationRight == ElfRight /\ ApplyRelocation => ElfRight'
<1> SUFFICES ASSUME ElfRight, ApplyRelocation PROVE ElfRight'
  OBVIOUS
<1> DEFINE r == sections[i].data[j]
<1>1. phase = "relocate" /\ UNCHANGED <<env, current_landing_spot, heap, result>>
  BY Zenon DEF ApplyRelocation
<1>2. CASE Fail
  BY <1>1, <1>2, FailRight, Zenon
<1>3. CASE Relocate(r) # NULL /\ linked' = Relocate(r) /\ UNCHANGED <<phase, i, functions, size>>
  <2>1. i \in Nat \ {0} /\ IsTable(linked, size)
    BY <1>1, Zenon DEF ElfRight, LoaderTyped
  <2> HIDE DEF r
  <2>2. IsTable(linked', size)
    BY <1>3, <2>1, RelocateKeepsLength, Zenon
  <2> QED
    BY <1>1, <1>3, <2>1, <2>2, RelocatingRight
<1> QED
  BY <1>2, <1>3, Zenon DEF ApplyRelocation

\* The records are freed, and validate() gets the linked program.
LEMMA StartLoadRight == LoaderRight /\ StartLoad => LoaderRight'
<1> SUFFICES ASSUME LoaderRight, StartLoad PROVE LoaderRight'
  OBVIOUS
<1>1. /\ ElfRight /\ phase = "relocate" /\ phase' = "load" /\ heap' = heap \ Released
      /\ Begin(Loader, linked)
      /\ UNCHANGED <<env, i, functions, size, linked, current_landing_spot, result>>
  BY Zenon DEF LoaderRight, StartLoad
<1>2. IsTable(linked, size) /\ size \in Nat
  BY <1>1, Zenon DEF ElfRight, LoaderTyped
<1>3. FilterRight'
  BY <1>1, <1>2, TableIsArray, BeginRight, LoaderAssumption DEF LoaderRight
<1>4. LoaderTyped' /\ TablesFound' /\ MainRead'
  BY <1>1, Zenon DEF ElfRight, LoaderTyped, TablesFound, MainRead
<1>5. HeapAccounted'
  BY <1>1, ObjectKept, Zenon DEF ElfRight, HeapAccounted
<1>6. SectionsInFile'
  BY <1>1, ObjectKept, Zenon DEF ElfRight, SectionsInFile
<1> QED
  BY <1>3, <1>4, <1>5, <1>6 DEF LoaderRight, ElfRight

\* The call returns, from ubpf_load or from the error path.
LEMMA ReturnRight == ElfRight /\ (FinishLoad \/ ReturnError) => ElfRight'
<1> SUFFICES ASSUME ElfRight, FinishLoad \/ ReturnError PROVE ElfRight'
  OBVIOUS
<1>1. phase' = "returned" /\ UNCHANGED <<env, i, functions, size, current_landing_spot>>
  BY Zenon DEF FinishLoad, ReturnError
<1>2. LoaderTyped' /\ TablesFound' /\ MainRead' /\ SectionsInFile'
  BY <1>1, Zenon DEF ElfRight, LoaderTyped, TablesFound, MainRead, SectionsInFile
<1>3. MainOverwritten \/ heap' = {}
  BY Zenon DEF ElfRight, HeapAccounted, FinishLoad, ReturnError
<1>4. HeapAccounted'
  BY <1>1, <1>3, ObjectKept, Zenon DEF HeapAccounted
<1> QED
  BY <1>2, <1>4, Zenon DEF ElfRight

\* The loader starts with nothing read and nothing allocated.
LEMMA LoaderInitRight == Init => LoaderRight
<1> SUFFICES ASSUME Init PROVE LoaderRight
  BY Zenon
<1>1. FilterRight
  BY FilterInitRight, Zenon DEF Init
<1>2. LoaderInit
  BY Zenon DEF Init
<1>3. LoaderTyped
  BY <1>2, LoaderAssumption DEF LoaderInit, LoaderTyped
<1>4. TablesFound /\ MainRead /\ HeapAccounted /\ SectionsInFile
  BY <1>2, Zenon DEF LoaderInit, TablesFound, MainRead, HeapAccounted, SectionsInFile
<1> QED
  BY <1>1, <1>3, <1>4, Zenon DEF LoaderRight, ElfRight

\* What the loader does between the validations leaves the filter alone.
LEMMA FilterKept == FilterRight /\ UNCHANGED filter_vars => FilterRight'
BY DEF FilterRight, filter_vars

\* Every step of the loader and of the other threads.
LEMMA LoaderStepRight == LoaderRight /\ [Next]_vars => LoaderRight'
<1> SUFFICES ASSUME LoaderRight, [Next]_vars PROVE LoaderRight'
  BY Zenon
<1>1. ElfRight /\ FilterRight
  BY Zenon DEF LoaderRight
<1>2. CASE CheckHeader
  BY <1>1, <1>2, CheckHeaderRight, FilterKept DEF CheckHeader, LoaderRight
<1>3. CASE ReadSection
  BY <1>1, <1>3, ReadSectionRight, FilterKept DEF ReadSection, LoaderRight
<1>4. CASE FindTables
  BY <1>1, <1>4, FindTablesRight, FilterKept DEF FindTables, LoaderRight
<1>5. CASE ReadSymbol
  BY <1>1, <1>5, ReadSymbolRight, FilterKept DEF ReadSymbol, LoaderRight
<1>6. CASE Link
  BY <1>1, <1>6, LinkRight, FilterKept DEF Link, LoaderRight
<1>7. CASE CopyFunction
  BY <1>1, <1>7, CopyFunctionRight, FilterKept DEF CopyFunction, LoaderRight
<1>8. CASE EnterSection \/ LeaveSection
  BY <1>1, <1>8, SectionsRight, FilterKept DEF EnterSection, LeaveSection, LoaderRight
<1>9. CASE ApplyRelocation
  BY <1>1, <1>9, ApplyRelocationRight, FilterKept DEF ApplyRelocation, LoaderRight
<1>10. CASE StartLoad
  BY <1>10, StartLoadRight, Zenon
<1>11. CASE FinishLoad \/ ReturnError
  BY <1>1, <1>11, ReturnRight, FilterKept DEF FinishLoad, ReturnError, LoaderRight
<1>12. CASE Validate(Loader) /\ UNCHANGED elf_vars
  BY <1>1, <1>12, ElfKept, ValidateRight, LoaderAssumption DEF LoaderRight
<1>13. CASE OtherStep
  <2>1. PICK t \in Threads \ {Loader} : Validate(t) \/ \E p \in RawPrograms : Begin(t, p)
    BY <1>13, Zenon DEF OtherStep
  <2>2. CASE Validate(t)
    BY <1>1, <1>13, <2>2, ElfKept, ValidateRight DEF OtherStep, LoaderRight
  <2>3. CASE \E p \in RawPrograms : Begin(t, p)
    BY <1>1, <1>13, <2>3, ElfKept, BeginRight, LoaderAssumption DEF OtherStep, LoaderRight
  <2> QED
    BY <2>1, <2>2, <2>3, Zenon
<1>14. CASE UNCHANGED vars
  <2>1. UNCHANGED elf_vars /\ UNCHANGED filter_vars
    BY <1>14, Zenon DEF vars
  <2> QED
    BY <1>1, <2>1, ElfKept, FilterKept DEF LoaderRight
<1> QED
  BY <1>2, <1>3, <1>4, <1>5, <1>6, <1>7, <1>8, <1>9, <1>10, <1>11, <1>12, <1>13, <1>14 DEF Next, LoaderStep

\* The invariant holds in every reachable state.
THEOREM LoaderAlwaysRight == Spec => []LoaderRight
<1>1. Init => LoaderRight
  BY LoaderInitRight, Zenon
<1>2. LoaderRight /\ [Next]_vars => LoaderRight'
  BY LoaderStepRight, Zenon
<1> QED
  BY <1>1, <1>2, PTL DEF Spec

\* bounds_check keeps every section that is read inside the file, whatever offsets and
\* sizes the object claims, for every modulus of the sum.
THEOREM SectionsAlwaysInFile == Spec => []SectionsInFile
<1>1. LoaderRight => SectionsInFile
  BY Zenon DEF LoaderRight, ElfRight
<1> QED
  BY <1>1, LoaderAlwaysRight, PTL

\* ubpf_load_elf_ex frees all it allocated, on success and on every error path, unless
\* two symbols match the main function.
THEOREM AlwaysAllReleased == Spec => []AllReleased
<1>1. LoaderRight => AllReleased
  BY Zenon DEF LoaderRight, ElfRight, LoaderTyped, HeapAccounted, MainOverwritten, AllReleased
<1> QED
  BY <1>1, LoaderAlwaysRight, PTL

\* Every validation ends with the filter's verdict, however the threads that fill the
\* lookup table on first use interleave.
THEOREM VerdictsAlwaysRight == Spec => []VerdictsRight
<1>1. LoaderRight => VerdictsRight
  BY RightVerdicts, Zenon DEF LoaderRight
<1> QED
  BY <1>1, LoaderAlwaysRight, PTL

\* While the symbols are read, every function in the table has a symbol behind i.
RoomLeft == phase = "symbols" => Len(functions) <= IF i = 1 THEN 1 ELSE i - 1

\* The table of functions, sized by the number of symbols with slot 0 kept for the
\* main function, never overflows: the reserved first symbol makes up for slot 0.
THEOREM FunctionsAlwaysFit == Spec => []FunctionsFit
<1> DEFINE Inv == FunctionsFit /\ RoomLeft
<1>1. Init => Inv
  BY Zenon DEF Init, LoaderInit, FunctionsFit, RoomLeft
<1>2. LoaderRight /\ Inv /\ [Next]_vars => Inv'
  <2> SUFFICES ASSUME LoaderRight, FunctionsFit, RoomLeft, [Next]_vars PROVE FunctionsFit' /\ RoomLeft'
    BY Zenon
  <2>1. ElfRight /\ IsObject(env.elf) /\ i \in Nat \ {0} /\ functions \in Seq(RelocatedFunctions \cup {NULL})
    BY Zenon DEF LoaderRight, ElfRight, LoaderTyped
  <2>2. Len(functions) \in Nat
    BY <2>1, LenProperties, Zenon
  <2>3. ASSUME UNCHANGED <<env, functions>>, phase' # "symbols" \/ (phase' = phase /\ i' = i)
        PROVE  FunctionsFit' /\ RoomLeft'
    BY <2>3, ObjectKept, Zenon DEF FunctionsFit, RoomLeft
  <2>4. CASE FindTables
    <3>1. CASE Fail /\ UNCHANGED env
      BY <2>3, <3>1, Zenon DEF Fail
    <3>2. CASE HasType("SYMTAB") /\ UNCHANGED env /\ i' = 1 /\ functions' = <<NULL>>
      <4>1. Len(symbols) \in Nat /\ Len(symbols) > 0 /\ symbols' = symbols
        BY <2>1, <3>2, SymbolTable, ObjectKept, Zenon DEF IsArray
      <4>2. Len(functions') = 1
        BY <3>2
      <4> QED
        BY <3>2, <4>1, <4>2 DEF FunctionsFit, RoomLeft
    <3> QED
      BY <2>4, <3>1, <3>2, Zenon DEF FindTables
  <2>5. CASE ReadSymbol
    <3>1. phase = "symbols" /\ i <= Len(symbols) /\ UNCHANGED env /\ symbols' = symbols /\ HasType("SYMTAB")
      BY <2>1, <2>5, ObjectKept, Zenon DEF ReadSymbol, ElfRight, TablesFound
    <3>2. Len(functions) > 0 /\ Len(functions) <= (IF i = 1 THEN 1 ELSE i - 1)
      BY <2>1, <3>1, Zenon DEF RoomLeft, ElfRight, TablesFound
    <3>3. Len(symbols) \in Nat /\ symbols[1].type # "FUNC"
      BY <2>1, <3>1, SymbolTable, Zenon DEF IsArray
    <3>4. CASE UNCHANGED functions /\ i' = i + 1
      BY <2>1, <2>2, <3>1, <3>2, <3>3, <3>4 DEF FunctionsFit, RoomLeft
    <3>5. CASE Fail
      BY <2>3, <3>1, <3>5, Zenon DEF Fail
    <3>6. ASSUME symbols[i].type = "FUNC", NEW r \in RelocatedFunctions \cup {NULL},
                 functions' = IF IsMain(symbols[i]) THEN [functions EXCEPT ![1] = r] ELSE Append(functions, r),
                 i' = i + 1 \/ phase' = "error"
          PROVE  FunctionsFit' /\ RoomLeft'
      <4>1. i # 1
        BY <3>3, <3>6, Zenon
      <4>2. Len(functions') <= Len(functions) + 1
        <5>1. Len(Append(functions, r)) = Len(functions) + 1
          BY <2>1, <3>6, AppendProperties
        <5>2. Len([functions EXCEPT ![1] = r]) = Len(functions)
          BY <2>1, <2>2, <3>2, <3>6, ExceptSeq
        <5> QED
          BY <2>2, <3>6, <5>1, <5>2
      <4>3. Len(functions') \in Nat
        BY <2>1, <2>2, <3>2, <3>6, ExceptSeq, AppendProperties
      <4> QED
        BY <2>1, <2>2, <3>1, <3>2, <3>3, <3>6, <4>1, <4>2, <4>3 DEF FunctionsFit, RoomLeft
    <3>7. ASSUME symbols[i].type = "FUNC", AddFunction(symbols[i]), ~Fail
          PROVE  \E r \in RelocatedFunctions \cup {NULL} :
                    /\ functions' = IF IsMain(symbols[i]) THEN [functions EXCEPT ![1] = r] ELSE Append(functions, r)
                    /\ i' = i + 1 \/ phase' = "error"
      <4> DEFINE rf == [symbol |-> i, section |-> symbols[i].shndx, start |-> symbols[i].value,
                        size |-> symbols[i].size, landed |-> 0]
      <4>1. i \in DOMAIN symbols
        BY <2>1, <3>1, <3>3, SymbolTable DEF IsArray
      <4>2. rf \in RelocatedFunctions
        BY <2>1, <3>1, <4>1, SymbolTable DEF RelocatedFunctions
      <4> QED
        BY <3>7, <4>2, Zenon DEF AddFunction
    <3> QED
      BY <2>5, <3>4, <3>5, <3>6, <3>7, Zenon DEF ReadSymbol
  <2>6. CASE CopyFunction
    <3>1. phase' # "symbols" /\ UNCHANGED env /\ phase = "copy"
      BY <2>6, Zenon DEF CopyFunction
    <3>2. functions # <<>> /\ Len(functions') = Len(functions)
      <4>1. Len(functions) > 0 /\ functions' = [functions EXCEPT ![i].landed = current_landing_spot]
        BY <2>1, <2>6, <3>1, Zenon DEF CopyFunction, ElfRight, TablesFound
      <4> QED
        BY <2>1, <2>2, <4>1
    <3> QED
      BY <3>1, <3>2, ObjectKept, Zenon DEF FunctionsFit, RoomLeft
  <2>7. CASE CheckHeader \/ ReadSection \/ EnterSection \/ LeaveSection \/ ApplyRelocation
    BY <2>3, <2>7, Zenon DEF CheckHeader, ReadSection, EnterSection, LeaveSection, ApplyRelocation, Fail
  <2>8. CASE Link \/ StartLoad \/ FinishLoad \/ ReturnError
    BY <2>3, <2>8, Zenon DEF Link, StartLoad, FinishLoad, ReturnError, Fail
  <2>9. CASE UNCHANGED elf_vars
    BY <2>3, <2>9, Zenon DEF elf_vars
  <2> QED
    BY <2>4, <2>5, <2>6, <2>7, <2>8, <2>9, Zenon DEF Next, LoaderStep, OtherStep, vars
<1> QED
  BY <1>1, <1>2, LoaderAlwaysRight, PTL DEF Spec

=============================================================================
