------------------------ MODULE UbpfRelocationProofs ------------------------
(***************************************************************************)
(* Every relocation is honoured in the program that ubpf_load gets, for    *)
(* every object a compiler makes.                                          *)
(***************************************************************************)
EXTENDS UbpfLayoutProofs

\* The sections of relocations that the loader applies, their relocations, the place of each
\* in the file and the instruction there.
RelSections == {k \in DOMAIN sections : sections[k].type = "REL" /\ IsCode(Section(sections[k].info))}
Rel(k, l) == sections[k].data[l]
Place(k, l) == PlaceOf(sections[k], Rel(k, l))
Behind(k, l) == <<sections[k].info, Rel(k, l).offset + 1>>
Native(k, l) == Section(sections[k].info).data[Rel(k, l).offset + 1]

\* The relocations are those of a compiler: there is one main function and no function is
\* empty, symbols are those of the symbol table, and no two relocations write the same
\* instruction.
Relocatable ==
    /\ ~MainOverwritten
    /\ HasType("SYMTAB") =>
          /\ \A f \in FunctionSymbols : symbols[f].size > 0
          /\ \A k \in RelSections : sections[k].link + 1 = FirstOf("SYMTAB")
    /\ \A k, n \in RelSections : \A l \in DOMAIN sections[k].data : \A m \in DOMAIN sections[n].data :
          k # n \/ l # m =>
              /\ Place(k, l) # Place(n, m)
              /\ Rel(k, l).type = "64_64" => Behind(k, l) # Place(n, m)

\* The types of relocation that calls have.
CallTypes == {"64_32", "64_32_LEGACY"}

\* The instruction at x of the program has what the l-th relocation of section k asks for.
Granted(k, l, x, program) ==
    /\ Rel(k, l).type = "64_64" =>
          /\ program[x].imm = DataAddress[1] /\ program[x + 1].imm = DataAddress[2]
          /\ x + 1 \in 1..size /\ program[x + 1].origin = Behind(k, l)
    /\ Rel(k, l).type \in CallTypes /\ Native(k, l).src = 1 =>
          /\ x + 1 + program[x].imm \in 1..size
          /\ program[x + 1 + program[x].imm].origin = <<symbols[Rel(k, l).symbol + 1].shndx, Native(k, l).imm + 1>>
    /\ Rel(k, l).type \in CallTypes /\ Native(k, l).src # 1 =>
          program[x].imm = env.helpers[symbols[Rel(k, l).symbol + 1].name]

\* A relocation that is applied is granted, and the instruction of another is still the one
\* of the file.
Served(k, l, program) == \E x \in 1..size : program[x].origin = Place(k, l) /\ Granted(k, l, x, program)
Waiting(k, l, program) == \A x \in 1..size : program[x].origin = Place(k, l) => program[x] = Native(k, l)
Applied(k, l) == phase = "load" \/ k < i \/ (k = i /\ l < j)

\* The inductive invariant of the relocations.
RelocationsRight ==
    phase \in {"relocate", "load"} =>
        \A k \in RelSections : \A l \in DOMAIN sections[k].data :
            IF Applied(k, l) THEN Served(k, l, linked) ELSE Waiting(k, l, linked)

\* Writing the immediate of an instruction, and of nothing else.
LEMMA OneWritten ==
    ASSUME IsTable(linked, size), NEW at \in 1..size, IsInstruction(linked[at]), NEW a,
           linked' = [linked EXCEPT ![at].imm = a]
    PROVE  linked'[at].imm = a /\ \A y \in 1..size : y # at => linked'[y] = linked[y]
<1>1. DOMAIN linked = 1..size
  BY Zenon DEF IsTable
<1>2. linked'[at] = [linked[at] EXCEPT !.imm = a]
  BY <1>1, Zenon
<1>3. "imm" \in DOMAIN linked[at]
  BY Zenon DEF IsInstruction, Fields
<1> QED
  BY <1>1, <1>2, <1>3, Zenon

\* Writing the immediates of an LDDW.
LEMMA TwoWritten ==
    ASSUME IsTable(linked, size), NEW at \in 1..size, at + 1 \in 1..size,
           IsInstruction(linked[at]), IsInstruction(linked[at + 1]), NEW a, NEW b,
           linked' = [linked EXCEPT ![at].imm = a, ![at + 1].imm = b]
    PROVE  /\ linked'[at].imm = a /\ linked'[at + 1].imm = b
           /\ \A y \in 1..size : y # at /\ y # at + 1 => linked'[y] = linked[y]
<1> DEFINE h == [linked EXCEPT ![at].imm = a]
<1>1. DOMAIN linked = 1..size
  BY Zenon DEF IsTable
<1>2. at # at + 1
  OBVIOUS
<1>3. /\ DOMAIN h = 1..size /\ h[at] = [linked[at] EXCEPT !.imm = a]
      /\ \A y \in 1..size : y # at => h[y] = linked[y]
  BY <1>1, Zenon
<1>4. linked' = [h EXCEPT ![at + 1].imm = b]
  BY Zenon
<1> HIDE DEF h
<1>5. /\ linked'[at + 1] = [h[at + 1] EXCEPT !.imm = b]
      /\ \A y \in 1..size : y # at + 1 => linked'[y] = h[y]
  BY <1>3, <1>4, Zenon
<1>6. "imm" \in DOMAIN linked[at] /\ "imm" \in DOMAIN linked[at + 1]
  BY Zenon DEF IsInstruction, Fields
<1>7. linked'[at] = [linked[at] EXCEPT !.imm = a] /\ linked'[at + 1] = [linked[at + 1] EXCEPT !.imm = b]
  BY <1>2, <1>3, <1>5, Zenon
<1>8. linked'[at].imm = a /\ linked'[at + 1].imm = b
  BY <1>6, <1>7, Zenon
<1> QED
  BY <1>3, <1>5, <1>8, Zenon

\* The loops over the functions take the first that matches.
LEMMA FirstTaken ==
    ASSUME functions \in Seq(RelocatedFunctions \cup {NULL}), NEW S, S \subseteq DOMAIN functions, S # {}
    PROVE  Min(S) \in S /\ Min(S) \in 1..Len(functions)
<1>1. DOMAIN functions = 1..Len(functions) /\ S \in SUBSET Nat
  OBVIOUS
<1>2. \E k \in S : \A l \in S : k <= l
  BY <1>1, LeastElement, Zenon
<1>3. Min(S) \in S
  BY <1>2, Zenon DEF Min
<1> QED
  BY <1>1, <1>3, Zenon

\* What a relocation does to the instruction in its place.
Effect(r, sym, at) ==
    /\ r.type = "64_64" =>
          /\ linked[at].opcode = "lddw"
          /\ linked' = [linked EXCEPT ![at].imm = DataAddress[1], ![at + 1].imm = DataAddress[2]]
    /\ r.type \in CallTypes /\ linked[at].src = 1 =>
          \E f \in 1..Len(functions) :
              /\ functions[f].section = sym.shndx /\ functions[f].start = linked[at].imm + 1
              /\ linked' = [linked EXCEPT ![at].imm = functions[f].landed - at]
    /\ r.type \in CallTypes /\ linked[at].src # 1 => linked' = [linked EXCEPT ![at].imm = env.helpers[sym.name]]
    /\ r.type \notin CallTypes \cup {"64_64"} => linked' = linked

\* A relocation that is not refused has this effect where the function that holds it landed.
LEMMA RelocationEffect ==
    ASSUME NEW r, RelocationUsable(r), Relocate(r) # NULL, linked' = Relocate(r),
           functions \in Seq(RelocatedFunctions \cup {NULL})
    PROVE  \E k \in 1..Len(functions) :
              /\ functions[k].section = sections[i].info
              /\ r.offset \in functions[k].start..(functions[k].start + functions[k].size - 1)
              /\ Effect(r, Section(sections[i].link).data[r.symbol + 1],
                        functions[k].landed + (r.offset - functions[k].start) + 1)
<1> DEFINE K == Min(Holders(r))
           at == functions[K].landed + (r.offset - functions[K].start) + 1
           sym == Section(sections[i].link).data[r.symbol + 1]
<1>1. K \in Holders(r) /\ K \in 1..Len(functions)
  BY FirstTaken, Zenon DEF RelocationUsable, Holders
<1>2. /\ functions[K].section = sections[i].info
      /\ r.offset \in functions[K].start..(functions[K].start + functions[K].size - 1)
  <2>1. \A k \in Holders(r) : /\ functions[k].section = sections[i].info
                             /\ r.offset \in functions[k].start..(functions[k].start + functions[k].size - 1)
    BY Zenon DEF Holders
  <2> HIDE DEF K
  <2> QED
    BY <1>1, <2>1, Zenon
<1>3. /\ r.type = "64_64" => Relocate(r) = RelocateData(r, sym, at)
      /\ r.type \in CallTypes /\ linked[at].src = 1 => Relocate(r) = RelocateCall(sym, at)
      /\ r.type \in CallTypes /\ linked[at].src # 1 => Relocate(r) = RelocateHelper(sym, at)
      /\ r.type \notin CallTypes \cup {"64_64"} => Relocate(r) = linked
  BY Zenon DEF Relocate, CallTypes
<1> HIDE DEF K, at, sym
<1>4. r.type = "64_64" =>
        /\ linked[at].opcode = "lddw"
        /\ linked' = [linked EXCEPT ![at].imm = DataAddress[1], ![at + 1].imm = DataAddress[2]]
  BY <1>3, Zenon DEF RelocateData, DataRelocatable
<1>5. ASSUME r.type \in CallTypes, linked[at].src = 1
      PROVE  \E f \in 1..Len(functions) :
                /\ functions[f].section = sym.shndx /\ functions[f].start = linked[at].imm + 1
                /\ linked' = [linked EXCEPT ![at].imm = functions[f].landed - at]
  <2> DEFINE targets == {k \in DOMAIN functions : functions[k].section = sym.shndx /\ functions[k].start = linked[at].imm + 1}
  <2>1. RelocateCall(sym, at) # NULL /\ linked' = RelocateCall(sym, at)
    BY <1>3, <1>5, Zenon
  <2>2. targets # {} /\ linked' = [linked EXCEPT ![at].imm = functions[Min(targets)].landed - at]
    BY <2>1, Zenon DEF RelocateCall, CallImm
  <2>3. Min(targets) \in targets /\ Min(targets) \in 1..Len(functions)
    <3>1. targets \subseteq DOMAIN functions
      BY Zenon
    <3> HIDE DEF targets
    <3> QED
      BY <2>2, <3>1, FirstTaken, Zenon
  <2>4. functions[Min(targets)].section = sym.shndx /\ functions[Min(targets)].start = linked[at].imm + 1
    BY <2>3, Zenon
  <2> HIDE DEF targets
  <2> QED
    BY <2>2, <2>3, <2>4, Zenon
<1>6. r.type \in CallTypes /\ linked[at].src # 1 => linked' = [linked EXCEPT ![at].imm = env.helpers[sym.name]]
  BY <1>3, Zenon DEF RelocateHelper
<1>7. Effect(r, sym, at)
  BY <1>3, <1>4, <1>5, <1>6, Zenon DEF Effect
<1> QED
  BY <1>1, <1>2, <1>7, Zenon DEF at, sym

\* The object and its relocations do not change.
LEMMA RelocationsKept ==
    ASSUME env' = env
    PROVE  /\ sections' = sections /\ symbols' = symbols /\ RelSections' = RelSections
           /\ \A k, l : /\ (Rel(k, l))' = Rel(k, l) /\ (Place(k, l))' = Place(k, l)
                        /\ (Behind(k, l))' = Behind(k, l) /\ (Native(k, l))' = Native(k, l)
<1>1. sections' = sections /\ symbols' = symbols
  BY ObjectKept, Zenon
<1> QED
  BY <1>1, Zenon DEF RelSections, Section, IsCode, Rel, Place, PlaceOf, Behind, Native

\* What the invariant says after a step is a function of the object and of the program.
LEMMA RelocationsNext ==
    ASSUME env' = env, size' = size,
           \A k \in RelSections : \A l \in DOMAIN sections[k].data :
               IF Applied(k, l)' THEN Served(k, l, linked') ELSE Waiting(k, l, linked')
    PROVE  RelocationsRight'
<1>1. /\ sections' = sections /\ symbols' = symbols /\ RelSections' = RelSections
      /\ \A k, l : /\ (Rel(k, l))' = Rel(k, l) /\ (Place(k, l))' = Place(k, l)
                   /\ (Behind(k, l))' = Behind(k, l) /\ (Native(k, l))' = Native(k, l)
  BY RelocationsKept, Zenon
<1>2. ASSUME NEW k, NEW l PROVE (Waiting(k, l, linked))' <=> Waiting(k, l, linked')
  BY <1>1, Zenon DEF Waiting
<1>3. ASSUME NEW k, NEW l, NEW x PROVE (Granted(k, l, x, linked))' <=> Granted(k, l, x, linked')
  BY <1>1, Zenon DEF Granted, CallTypes
<1>4. ASSUME NEW k, NEW l PROVE (Served(k, l, linked))' <=> Served(k, l, linked')
  BY <1>1, <1>3, Zenon DEF Served
<1> QED
  BY <1>1, <1>2, <1>4, Zenon DEF RelocationsRight

\* The instruction of the offset o of a section, in the function that holds it.
LEMMA InstructionAt ==
    ASSUME Image, IsObject(env.elf), HasType("SYMTAB"), Linkable, NEW k \in 1..Len(functions),
           NEW o \in functions[k].start..(functions[k].start + functions[k].size - 1),
           NEW at, at = functions[k].landed + (o - functions[k].start) + 1
    PROVE  /\ at \in 1..size /\ IsInstruction(linked[at]) /\ linked[at].origin = <<functions[k].section, o>>
           /\ linked[at].opcode = "lddw" =>
                 /\ at + 1 \in 1..size /\ IsInstruction(linked[at + 1])
                 /\ linked[at + 1].origin = <<functions[k].section, o + 1>>
<1>1. functions[k] \in RelocatedFunctions /\ Describes(functions[k], Len(symbols) + 1)
  BY Zenon DEF Image
<1>2. functions[k].start \in Nat /\ functions[k].size \in Nat /\ functions[k].landed \in Nat
  BY <1>1, Zenon DEF RelocatedFunctions
<1> DEFINE m == (o - functions[k].start) + 1
<1>3. Numbered(functions[k].start, functions[k].size, functions[k].landed, o, m)
  BY <1>2, OffsetPlace, Zenon
<1> HIDE DEF m
<1>4. /\ m \in 1..functions[k].size /\ m \in Nat
      /\ o = functions[k].start + m - 1 /\ at = functions[k].landed + m
      /\ o + 1 = functions[k].start + (m + 1) - 1 /\ at + 1 = functions[k].landed + (m + 1)
  BY <1>3, Zenon DEF Numbered
<1>5. \A n \in 1..functions[k].size :
         /\ functions[k].landed + n \in 1..size
         /\ Placed(functions[k], n, linked[functions[k].landed + n])
         /\ linked[functions[k].landed + n].origin = <<functions[k].section, functions[k].start + n - 1>>
  BY Zenon DEF Image
<1>6. Placed(functions[k], m, linked[at]) /\ at \in 1..size /\ linked[at].origin = <<functions[k].section, o>>
  BY <1>4, <1>5, Zenon
<1>7. ASSUME linked[at].opcode = "lddw"
      PROVE  /\ at + 1 \in 1..size /\ IsInstruction(linked[at + 1])
             /\ linked[at + 1].origin = <<functions[k].section, o + 1>>
  <2>1. NativeData(functions[k], m).opcode = "lddw"
    BY <1>6, <1>7, Zenon DEF Placed
  <2>2. m < functions[k].size
    BY <1>1, <1>4, <2>1, NativeInstruction, Zenon
  <2>3. m + 1 \in 1..functions[k].size
    BY <1>2, <1>4, <2>2, NextPlace, Zenon
  <2> QED
    BY <1>4, <1>5, <2>3, Zenon DEF Placed
<1> QED
  BY <1>6, <1>7, Zenon DEF Placed

\* A relocation moves no instruction.
LEMMA OriginsKept ==
    ASSUME Image, Image', functions' = functions, size' = size, NEW x \in 1..size
    PROVE  linked'[x].origin = linked[x].origin
<1>1. PICK k \in 1..Len(functions) : \E m \in 1..functions[k].size : x = functions[k].landed + m
  BY Zenon DEF Image
<1>2. PICK m \in 1..functions[k].size : x = functions[k].landed + m
  BY <1>1, Zenon
<1>3. \A l \in 1..Len(functions) : \A n \in 1..functions[l].size :
         /\ functions[l].landed + n \in 1..size
         /\ Placed(functions[l], n, linked[functions[l].landed + n])
         /\ linked[functions[l].landed + n].origin = <<functions[l].section, functions[l].start + n - 1>>
  BY Zenon DEF Image
<1>4. \A l \in 1..Len(functions) : \A n \in 1..functions[l].size :
         linked'[functions[l].landed + n].origin = <<functions[l].section, functions[l].start + n - 1>>
  <2>1. \A l \in 1..Len(functions') : \A n \in 1..functions'[l].size :
           /\ functions'[l].landed + n \in 1..size'
           /\ (Placed(functions[l], n, linked[functions[l].landed + n]))'
           /\ linked'[functions'[l].landed + n].origin = <<functions'[l].section, functions'[l].start + n - 1>>
    BY Zenon DEF Image
  <2> QED
    BY <2>1, Zenon
<1> QED
  BY <1>2, <1>3, <1>4, Zenon

\* The immediates a relocation writes, and that it writes nothing else.
LEMMA EffectWrites ==
    ASSUME IsTable(linked, size), NEW at \in 1..size, IsInstruction(linked[at]),
           linked[at].opcode = "lddw" => at + 1 \in 1..size /\ IsInstruction(linked[at + 1]),
           NEW r, NEW sym, Effect(r, sym, at)
    PROVE  /\ \A y \in 1..size : y # at /\ ~(r.type = "64_64" /\ y = at + 1) => linked'[y] = linked[y]
           /\ r.type = "64_64" => linked'[at].imm = DataAddress[1] /\ linked'[at + 1].imm = DataAddress[2]
           /\ r.type \in CallTypes /\ linked[at].src = 1 =>
                 \E f \in 1..Len(functions) :
                     /\ functions[f].section = sym.shndx /\ functions[f].start = linked[at].imm + 1
                     /\ linked'[at].imm = functions[f].landed - at
           /\ r.type \in CallTypes /\ linked[at].src # 1 => linked'[at].imm = env.helpers[sym.name]
<1>1. CASE r.type = "64_64"
  <2>1. /\ linked[at].opcode = "lddw"
        /\ linked' = [linked EXCEPT ![at].imm = DataAddress[1], ![at + 1].imm = DataAddress[2]]
    BY <1>1, Zenon DEF Effect
  <2>2. /\ linked'[at].imm = DataAddress[1] /\ linked'[at + 1].imm = DataAddress[2]
        /\ \A y \in 1..size : y # at /\ y # at + 1 => linked'[y] = linked[y]
    BY <2>1, TwoWritten, Zenon
  <2>3. r.type \notin CallTypes
    BY <1>1, Zenon DEF CallTypes
  <2> QED
    BY <1>1, <2>2, <2>3, Zenon
<1>2. CASE r.type \in CallTypes /\ linked[at].src = 1
  <2>1. PICK f \in 1..Len(functions) :
            /\ functions[f].section = sym.shndx /\ functions[f].start = linked[at].imm + 1
            /\ linked' = [linked EXCEPT ![at].imm = functions[f].landed - at]
    BY <1>2, Zenon DEF Effect
  <2>2. linked'[at].imm = functions[f].landed - at /\ \A y \in 1..size : y # at => linked'[y] = linked[y]
    BY <2>1, OneWritten, Zenon
  <2>3. r.type # "64_64"
    BY <1>2, Zenon DEF CallTypes
  <2> QED
    BY <1>2, <2>1, <2>2, <2>3, Zenon
<1>3. CASE r.type \in CallTypes /\ linked[at].src # 1
  <2>1. linked' = [linked EXCEPT ![at].imm = env.helpers[sym.name]]
    BY <1>3, Zenon DEF Effect
  <2>2. linked'[at].imm = env.helpers[sym.name] /\ \A y \in 1..size : y # at => linked'[y] = linked[y]
    BY <2>1, OneWritten, Zenon
  <2>3. r.type # "64_64"
    BY <1>3, Zenon DEF CallTypes
  <2> QED
    BY <1>3, <2>2, <2>3, Zenon
<1>4. CASE r.type \notin CallTypes \cup {"64_64"}
  BY <1>4, Zenon DEF Effect
<1> QED
  BY <1>1, <1>2, <1>3, <1>4, Zenon

\* The step that applies a relocation wrote to the instruction at its place, and nowhere else.
Wrote(at) ==
    LET r == Rel(i, j)
        sym == symbols[Rel(i, j).symbol + 1]
    IN /\ at \in 1..size /\ linked[at].origin = Place(i, j)
       /\ r.type = "64_64" => at + 1 \in 1..size /\ linked[at + 1].origin = Behind(i, j)
       /\ \A y \in 1..size : y # at /\ ~(r.type = "64_64" /\ y = at + 1) => linked'[y] = linked[y]
       /\ r.type = "64_64" => linked'[at].imm = DataAddress[1] /\ linked'[at + 1].imm = DataAddress[2]
       /\ r.type \in CallTypes /\ linked[at].src = 1 =>
             \E f \in 1..Len(functions) :
                 /\ functions[f].section = sym.shndx /\ functions[f].start = linked[at].imm + 1
                 /\ linked'[at].imm = functions[f].landed - at
       /\ r.type \in CallTypes /\ linked[at].src # 1 => linked'[at].imm = env.helpers[sym.name]

\* The relocation whose turn it is.
LEMMA RelocationTurn ==
    ASSUME ElfRight, LayoutRight, phase = "relocate", j > 0, j <= Len(sections[i].data)
    PROVE  i \in RelSections /\ j \in DOMAIN sections[i].data
<1>1. i \in DOMAIN sections /\ sections[i].type = "REL" /\ IsCode(Section(sections[i].info)) /\ j \in Nat
  BY Zenon DEF LayoutRight, Counters
<1>2. IsArray(sections[i].data)
  BY <1>1, Zenon DEF ElfRight, LoaderTyped, IsObject, sections
<1> QED
  BY <1>1, <1>2 DEF IsArray, RelSections

\* A relocation that is applied writes at its place.
LEMMA RelocationWrote ==
    ASSUME ElfRight, LayoutRight, Relocatable, Image, ApplyRelocation, phase' = "relocate"
    PROVE  \E at \in 1..size : Wrote(at)
<1> DEFINE r == Rel(i, j)
<1>1. phase = "relocate" /\ j > 0 /\ j <= Len(sections[i].data)
  BY Zenon DEF ApplyRelocation
<1>2. RelocationUsable(r) /\ Relocate(r) # NULL /\ linked' = Relocate(r)
  BY <1>1, Zenon DEF ApplyRelocation, Fail, Rel
<1>3. /\ IsObject(env.elf) /\ HasType("SYMTAB") /\ Linkable /\ IsTable(linked, size)
      /\ functions \in Seq(RelocatedFunctions \cup {NULL})
  BY <1>1, Zenon DEF ElfRight, LoaderTyped, TablesFound, LayoutRight
<1>4. Section(sections[i].link).data[r.symbol + 1] = symbols[r.symbol + 1]
  <2>1. sections[i].link + 1 = FirstOf("SYMTAB")
    BY <1>1, <1>3, RelocationTurn, Zenon DEF Relocatable
  <2> QED
    BY <2>1, Zenon DEF Section, symbols
<1>5. PICK k \in 1..Len(functions) :
              /\ functions[k].section = sections[i].info
              /\ r.offset \in functions[k].start..(functions[k].start + functions[k].size - 1)
              /\ Effect(r, Section(sections[i].link).data[r.symbol + 1],
                        functions[k].landed + (r.offset - functions[k].start) + 1)
  <2> HIDE DEF r
  <2> QED
    BY <1>2, <1>3, RelocationEffect, Zenon
<1> DEFINE at == functions[k].landed + (r.offset - functions[k].start) + 1
<1>6. at = functions[k].landed + (r.offset - functions[k].start) + 1
  BY Zenon
<1> HIDE DEF r, at
<1>7. Effect(r, symbols[r.symbol + 1], at)
  BY <1>4, <1>5, <1>6, Zenon
<1>8. /\ at \in 1..size /\ IsInstruction(linked[at]) /\ linked[at].origin = <<functions[k].section, r.offset>>
      /\ linked[at].opcode = "lddw" =>
            /\ at + 1 \in 1..size /\ IsInstruction(linked[at + 1])
            /\ linked[at + 1].origin = <<functions[k].section, r.offset + 1>>
  BY <1>3, <1>5, <1>6, InstructionAt, Zenon
<1>9. /\ \A y \in 1..size : y # at /\ ~(r.type = "64_64" /\ y = at + 1) => linked'[y] = linked[y]
      /\ r.type = "64_64" => linked'[at].imm = DataAddress[1] /\ linked'[at + 1].imm = DataAddress[2]
      /\ r.type \in CallTypes /\ linked[at].src = 1 =>
            \E f \in 1..Len(functions) :
                /\ functions[f].section = symbols[r.symbol + 1].shndx /\ functions[f].start = linked[at].imm + 1
                /\ linked'[at].imm = functions[f].landed - at
      /\ r.type \in CallTypes /\ linked[at].src # 1 => linked'[at].imm = env.helpers[symbols[r.symbol + 1].name]
  <2>1. /\ IsTable(linked, size) /\ at \in 1..size /\ IsInstruction(linked[at])
        /\ linked[at].opcode = "lddw" => at + 1 \in 1..size /\ IsInstruction(linked[at + 1])
    BY <1>3, <1>8, Zenon
  <2> QED
    BY <1>7, <2>1, EffectWrites
<1>10. r.type = "64_64" => at + 1 \in 1..size /\ linked[at + 1].origin = <<functions[k].section, r.offset + 1>>
  BY <1>7, <1>8, Zenon DEF Effect
<1>11. Place(i, j) = <<functions[k].section, r.offset>> /\ Behind(i, j) = <<functions[k].section, r.offset + 1>>
  BY <1>5, Zenon DEF Place, PlaceOf, Behind, r
<1> QED
  BY <1>8, <1>9, <1>10, <1>11, Zenon DEF Wrote, r

\* The first instruction of a function, which a call to it must reach from at.
LEMMA CallReaches ==
    ASSUME Image, Relocatable, HasType("SYMTAB"), NEW f \in 1..Len(functions), NEW at \in 1..size
    PROVE  /\ at + 1 + (functions[f].landed - at) \in 1..size
           /\ linked[at + 1 + (functions[f].landed - at)].origin = <<functions[f].section, functions[f].start>>
<1>1. functions[f] \in RelocatedFunctions /\ Describes(functions[f], Len(symbols) + 1)
  BY Zenon DEF Image
<1>2. functions[f].start \in Nat /\ functions[f].size \in Nat /\ functions[f].landed \in Nat
  BY <1>1, Zenon DEF RelocatedFunctions
<1>3. functions[f].size > 0
  BY <1>1, Zenon DEF Describes, Relocatable
<1>4. /\ 1 \in 1..functions[f].size /\ functions[f].start + 1 - 1 = functions[f].start
      /\ at + 1 + (functions[f].landed - at) = functions[f].landed + 1
  <2>1. size \in Nat
    BY Zenon DEF Image
  <2> QED
    BY <1>2, <1>3, <2>1
<1>5. \A n \in 1..functions[f].size :
         /\ functions[f].landed + n \in 1..size
         /\ Placed(functions[f], n, linked[functions[f].landed + n])
         /\ linked[functions[f].landed + n].origin = <<functions[f].section, functions[f].start + n - 1>>
  BY Zenon DEF Image
<1>6. /\ functions[f].landed + 1 \in 1..size
      /\ linked[functions[f].landed + 1].origin = <<functions[f].section, functions[f].start + 1 - 1>>
  BY <1>4, <1>5, Zenon
<1> QED
  BY <1>4, <1>6, Zenon

\* The relocation that is applied is granted.
LEMMA ServedHere ==
    ASSUME Image, Image', functions' = functions, size' = size, Relocatable, HasType("SYMTAB"),
           NEW at \in 1..size, Wrote(at), linked[at] = Native(i, j)
    PROVE  Served(i, j, linked')
<1> DEFINE r == Rel(i, j)
           sym == symbols[Rel(i, j).symbol + 1]
           native == Native(i, j)
<1>1. \A x \in 1..size : linked'[x].origin = linked[x].origin
  BY OriginsKept, Zenon
<1>2. linked'[at].origin = Place(i, j)
  BY <1>1, Zenon DEF Wrote
<1>3. r.type = "64_64" =>
        /\ linked'[at].imm = DataAddress[1] /\ linked'[at + 1].imm = DataAddress[2]
        /\ at + 1 \in 1..size /\ linked'[at + 1].origin = Behind(i, j)
  BY <1>1, Zenon DEF Wrote
<1>4. ASSUME r.type \in CallTypes, native.src = 1
      PROVE  /\ at + 1 + linked'[at].imm \in 1..size
             /\ linked'[at + 1 + linked'[at].imm].origin = <<sym.shndx, native.imm + 1>>
  <2>1. PICK f \in 1..Len(functions) :
            /\ functions[f].section = sym.shndx /\ functions[f].start = native.imm + 1
            /\ linked'[at].imm = functions[f].landed - at
    BY <1>4, Zenon DEF Wrote
  <2>2. /\ at + 1 + (functions[f].landed - at) \in 1..size
        /\ linked[at + 1 + (functions[f].landed - at)].origin = <<functions[f].section, functions[f].start>>
    BY CallReaches, Zenon
  <2> HIDE DEF sym, native
  <2> QED
    BY <1>1, <2>1, <2>2, Zenon
<1>5. r.type \in CallTypes /\ native.src # 1 => linked'[at].imm = env.helpers[sym.name]
  BY Zenon DEF Wrote
<1>6. Granted(i, j, at, linked')
  BY <1>3, <1>4, <1>5, Zenon DEF Granted
<1> QED
  BY <1>2, <1>6, Zenon DEF Served

\* The instructions of the other relocations are not written.
LEMMA OthersKept ==
    ASSUME Relocatable, i \in RelSections, j \in DOMAIN sections[i].data, NEW at \in 1..size, Wrote(at),
           NEW k \in RelSections, NEW l \in DOMAIN sections[k].data, k # i \/ l # j, NEW x \in 1..size
    PROVE  /\ linked[x].origin = Place(k, l) => linked'[x] = linked[x]
           /\ /\ linked[x].origin = Place(k, l) /\ Rel(k, l).type = "64_64"
              /\ x + 1 \in 1..size /\ linked[x + 1].origin = Behind(k, l)
              => linked'[x + 1] = linked[x + 1]
<1>1. \A a, b \in RelSections : \A c \in DOMAIN sections[a].data : \A d \in DOMAIN sections[b].data :
         a # b \/ c # d => Place(a, c) # Place(b, d) /\ (Rel(a, c).type = "64_64" => Behind(a, c) # Place(b, d))
  BY Zenon DEF Relocatable
<1>2. /\ Place(k, l) # Place(i, j)
      /\ Rel(i, j).type = "64_64" => Behind(i, j) # Place(k, l)
      /\ Rel(k, l).type = "64_64" => Behind(k, l) # Place(i, j)
  BY <1>1, Zenon
<1>3. /\ linked[at].origin = Place(i, j)
      /\ Rel(i, j).type = "64_64" => linked[at + 1].origin = Behind(i, j)
      /\ \A y \in 1..size : y # at /\ ~(Rel(i, j).type = "64_64" /\ y = at + 1) => linked'[y] = linked[y]
  BY Zenon DEF Wrote
<1>4. ASSUME linked[x].origin = Place(k, l)
      PROVE  x # at /\ ~(Rel(i, j).type = "64_64" /\ x = at + 1)
  BY <1>2, <1>3, <1>4, Zenon
<1>5. ASSUME linked[x].origin = Place(k, l), Rel(k, l).type = "64_64", x + 1 \in 1..size, linked[x + 1].origin = Behind(k, l)
      PROVE  linked'[x + 1] = linked[x + 1]
  <2>1. x + 1 # at
    BY <1>2, <1>3, <1>5, Zenon
  <2>2. x + 1 # at + 1
    BY <1>4, <1>5
  <2> QED
    BY <1>3, <1>5, <2>1, <2>2, Zenon
<1> QED
  BY <1>3, <1>4, <1>5, Zenon

\* What the other relocations have, or wait for, is left alone.
LEMMA OthersServed ==
    ASSUME Relocatable, i \in RelSections, j \in DOMAIN sections[i].data, NEW at \in 1..size, Wrote(at),
           \A x \in 1..size : linked'[x].origin = linked[x].origin,
           NEW k \in RelSections, NEW l \in DOMAIN sections[k].data, k # i \/ l # j
    PROVE  /\ Served(k, l, linked) => Served(k, l, linked')
           /\ Waiting(k, l, linked) => Waiting(k, l, linked')
<1>1. \A x \in 1..size : linked[x].origin = Place(k, l) => linked'[x] = linked[x]
  BY OthersKept, Zenon
<1>2. ASSUME Served(k, l, linked) PROVE Served(k, l, linked')
  <2>1. PICK x \in 1..size : linked[x].origin = Place(k, l) /\ Granted(k, l, x, linked)
    BY <1>2, Zenon DEF Served
  <2>2. linked'[x] = linked[x]
    BY <1>1, <2>1, Zenon
  <2>3. Rel(k, l).type = "64_64" =>
           /\ linked'[x].imm = DataAddress[1] /\ linked'[x + 1].imm = DataAddress[2]
           /\ x + 1 \in 1..size /\ linked'[x + 1].origin = Behind(k, l)
    <3>1. Rel(k, l).type = "64_64" =>
             /\ linked[x].imm = DataAddress[1] /\ linked[x + 1].imm = DataAddress[2]
             /\ x + 1 \in 1..size /\ linked[x + 1].origin = Behind(k, l)
      BY <2>1, Zenon DEF Granted
    <3>2. Rel(k, l).type = "64_64" => linked'[x + 1] = linked[x + 1]
      BY <2>1, <3>1, OthersKept, Zenon
    <3> QED
      BY <2>2, <3>1, <3>2, Zenon
  <2>4. Granted(k, l, x, linked')
    BY <2>1, <2>2, <2>3, Zenon DEF Granted
  <2> QED
    BY <2>1, <2>2, <2>4, Zenon DEF Served
<1>3. ASSUME Waiting(k, l, linked) PROVE Waiting(k, l, linked')
  BY <1>1, <1>3, Zenon DEF Waiting
<1> QED
  BY <1>2, <1>3, Zenon

\* A relocation is applied, and it is that one's turn and no other's.
LEMMA TurnTaken ==
    ASSUME phase = "relocate", phase' = "relocate", i' = i, j' = j + 1, i \in Nat, j \in Nat,
           NEW k \in Nat, NEW l \in Nat
    PROVE  /\ k = i /\ l = j => Applied(k, l)'
           /\ k # i \/ l # j => (Applied(k, l)' <=> Applied(k, l))
BY DEF Applied

\* A relocation is applied.
LEMMA RelocationApplied ==
    ASSUME ElfRight, LayoutRight, Relocatable, RelocationsRight, Image, Image', ApplyRelocation, phase' = "relocate"
    PROVE  RelocationsRight'
<1>1. /\ phase = "relocate" /\ j > 0 /\ j <= Len(sections[i].data) /\ env' = env
      /\ i' = i /\ j' = j + 1 /\ functions' = functions /\ size' = size
  BY Zenon DEF ApplyRelocation, Fail
<1>2. i \in RelSections /\ j \in DOMAIN sections[i].data
  BY <1>1, RelocationTurn, Zenon
<1>3. IsObject(env.elf) /\ HasType("SYMTAB")
  BY <1>1, Zenon DEF ElfRight, LoaderTyped, TablesFound
<1>4. \A k \in RelSections : k \in Nat /\ \A l \in DOMAIN sections[k].data : l \in Nat
  <2>1. IsArray(sections) /\ \A k \in DOMAIN sections : IsArray(sections[k].data)
    BY <1>3, Zenon DEF IsObject, sections
  <2>2. \A k \in RelSections : k \in DOMAIN sections
    BY Zenon DEF RelSections
  <2> QED
    BY <2>1, <2>2 DEF IsArray
<1>5. PICK at \in 1..size : Wrote(at)
  BY RelocationWrote, Zenon
<1>6. \A k \in RelSections : \A l \in DOMAIN sections[k].data :
         IF Applied(k, l) THEN Served(k, l, linked) ELSE Waiting(k, l, linked)
  BY <1>1, Zenon DEF RelocationsRight
<1>7. linked[at] = Native(i, j)
  <2>1. ~Applied(i, j)
    BY <1>1, <1>2, <1>4 DEF Applied
  <2>2. linked[at].origin = Place(i, j)
    BY <1>5, Zenon DEF Wrote
  <2> QED
    BY <1>2, <1>6, <2>1, <2>2, Zenon DEF Waiting
<1>8. \A x \in 1..size : linked'[x].origin = linked[x].origin
  BY <1>1, OriginsKept, Zenon
<1>9. ASSUME NEW k \in RelSections, NEW l \in DOMAIN sections[k].data
      PROVE  IF Applied(k, l)' THEN Served(k, l, linked') ELSE Waiting(k, l, linked')
  <2>1. CASE k # i \/ l # j
    <3>1. Applied(k, l)' <=> Applied(k, l)
      BY <1>1, <1>2, <1>4, <2>1, TurnTaken, Zenon
    <3>2. /\ Served(k, l, linked) => Served(k, l, linked')
          /\ Waiting(k, l, linked) => Waiting(k, l, linked')
      BY <1>2, <1>5, <1>8, <2>1, OthersServed, Zenon
    <3> QED
      BY <1>6, <3>1, <3>2, Zenon
  <2>2. CASE k = i /\ l = j
    <3>1. Applied(k, l)'
      BY <1>1, <1>2, <1>4, <2>2, TurnTaken, Zenon
    <3>2. Served(i, j, linked')
      BY <1>1, <1>3, <1>5, <1>7, ServedHere, Zenon
    <3> QED
      BY <2>2, <3>1, <3>2, Zenon
  <2> QED
    BY <2>1, <2>2, Zenon
<1> QED
  BY <1>1, <1>9, RelocationsNext, Zenon

\* The object is one a compiler made, and does not change.
LEMMA RelocatableKept == ASSUME Relocatable, env' = env PROVE Relocatable'
<1>1. /\ sections' = sections /\ symbols' = symbols /\ RelSections' = RelSections
      /\ \A k, l : /\ (Rel(k, l))' = Rel(k, l) /\ (Place(k, l))' = Place(k, l)
                   /\ (Behind(k, l))' = Behind(k, l) /\ (Native(k, l))' = Native(k, l)
  BY RelocationsKept, Zenon
<1>2. /\ MainOverwritten' = MainOverwritten /\ (HasType("SYMTAB"))' = HasType("SYMTAB")
      /\ FunctionSymbols' = FunctionSymbols /\ (FirstOf("SYMTAB"))' = FirstOf("SYMTAB")
  BY <1>1, ObjectKept, Zenon DEF FunctionSymbols, FirstOf
<1> QED
  BY <1>1, <1>2 DEF Relocatable

\* The numbers of the sections and of their relocations.
LEMMA RelocationNumbers ==
    ASSUME IsObject(env.elf), NEW k \in RelSections
    PROVE  /\ k \in 1..section_count /\ section_count \in Nat /\ Len(sections[k].data) \in Nat
           /\ \A l \in DOMAIN sections[k].data : l \in 1..Len(sections[k].data)
<1>1. IsArray(sections) /\ \A l \in DOMAIN sections : IsArray(sections[l].data)
  BY Zenon DEF IsObject, sections
<1>2. k \in DOMAIN sections
  BY Zenon DEF RelSections
<1> QED
  BY <1>1, <1>2, Zenon DEF IsArray, section_count

\* A step that applies no relocation.
LEMMA RelocationsSame ==
    ASSUME RelocationsRight, phase \in {"relocate", "load"}, UNCHANGED <<env, size, linked>>,
           \A k \in RelSections : \A l \in DOMAIN sections[k].data : Applied(k, l)' <=> Applied(k, l)
    PROVE  RelocationsRight'
<1>1. \A k \in RelSections : \A l \in DOMAIN sections[k].data :
         IF Applied(k, l) THEN Served(k, l, linked) ELSE Waiting(k, l, linked)
  BY Zenon DEF RelocationsRight
<1>2. env' = env /\ size' = size /\ linked' = linked
  BY Zenon
<1>3. \A k \in RelSections : \A l \in DOMAIN sections[k].data :
         IF Applied(k, l)' THEN Served(k, l, linked') ELSE Waiting(k, l, linked')
  BY <1>1, <1>2, Zenon
<1> QED
  BY <1>2, <1>3, RelocationsNext, Zenon

\* No relocation is applied by a step to a section, or from its last relocation to the next section.
LEMMA SectionTurn ==
    ASSUME NEW k \in Nat, NEW l \in Nat, l > 0, i \in Nat, j \in Nat, phase' = phase,
           \/ j = 0 /\ j' = 0 /\ i' = i + 1 /\ k # i
           \/ j = 0 /\ j' = 1 /\ i' = i
           \/ (k = i => l < j) /\ i' = i + 1 /\ j' = 0
    PROVE  Applied(k, l)' <=> Applied(k, l)
BY DEF Applied

\* The relocations of a section begin or end: those of the sections before it are applied.
LEMMA SectionsHonoured ==
    ASSUME ElfRight, LayoutRight, RelocationsRight, EnterSection \/ LeaveSection
    PROVE  RelocationsRight'
<1>1. /\ phase = "relocate" /\ env' = env /\ i \in Nat /\ j \in Nat /\ IsObject(env.elf)
  BY Zenon DEF EnterSection, LeaveSection, ElfRight, LoaderTyped, LayoutRight, Counters
<1>2. CASE phase' = "error"
  BY <1>2, Zenon DEF RelocationsRight
<1>3. CASE phase' = "relocate" /\ UNCHANGED <<size, linked>>
  <2> SUFFICES ASSUME NEW k \in RelSections, NEW l \in DOMAIN sections[k].data
               PROVE  Applied(k, l)' <=> Applied(k, l)
    BY <1>1, <1>3, RelocationsSame, Zenon
  <2>1. k \in Nat /\ l \in Nat /\ l > 0 /\ l <= Len(sections[k].data) /\ Len(sections[k].data) \in Nat
    BY <1>1, RelocationNumbers
  <2>2. CASE j = 0 /\ j' = 0 /\ i' = i + 1 /\ i \notin RelSections
    <3>1. k # i
      BY <2>2, Zenon
    <3> QED
      BY <1>1, <1>3, <2>1, <2>2, <3>1, SectionTurn, Zenon
  <2>3. CASE j = 0 /\ j' = 1 /\ i' = i
    BY <1>1, <1>3, <2>1, <2>3, SectionTurn, Zenon
  <2>4. CASE j > Len(sections[i].data) /\ i' = i + 1 /\ j' = 0
    <3>1. k = i => l < j
      BY <1>1, <2>1, <2>4
    <3> QED
      BY <1>1, <1>3, <2>1, <2>4, <3>1, SectionTurn, Zenon
  <2>5. CASE LeaveSection
    BY <2>4, <2>5, Zenon DEF LeaveSection
  <2>6. CASE EnterSection
    <3>1. sections[i].type # "REL" \/ ~IsCode(Section(sections[i].info)) => i \notin RelSections
      BY Zenon DEF RelSections
    <3> QED
      BY <1>3, <2>2, <2>3, <2>6, <3>1, Zenon DEF EnterSection, Fail
  <2> QED
    BY <2>5, <2>6, Zenon
<1> QED
  BY <1>1, <1>2, <1>3, Zenon DEF EnterSection, LeaveSection, Fail

\* All relocations are applied when the program is given to ubpf_load.
LEMMA StartLoadHonoured ==
    ASSUME ElfRight, RelocationsRight, StartLoad
    PROVE  RelocationsRight'
<1>1. /\ phase = "relocate" /\ phase' = "load" /\ UNCHANGED <<env, size, linked>> /\ i > section_count
      /\ i \in Nat /\ IsObject(env.elf)
  BY Zenon DEF StartLoad, ElfRight, LoaderTyped
<1>2. ASSUME NEW k \in RelSections, NEW l \in DOMAIN sections[k].data PROVE Applied(k, l)' <=> Applied(k, l)
  <2>1. k \in 1..section_count /\ section_count \in Nat
    BY <1>1, RelocationNumbers, Zenon
  <2> QED
    BY <1>1, <2>1 DEF Applied
<1> QED
  BY <1>1, <1>2, RelocationsSame, Zenon

\* The copy of a function is exact: the last one leaves every instruction as it is in the file.
LEMMA CopyExact ==
    ASSUME ElfRight, LayoutRight, ~MainOverwritten, CopyFunction, phase' = "relocate",
           NEW k \in 1..Len(functions'), NEW m \in 1..functions'[k].size
    PROVE  linked'[functions'[k].landed + m] = NativeData(functions'[k], m)
<1>1. phase = "copy" /\ i \in Nat /\ functions \in Seq(RelocatedFunctions \cup {NULL})
  BY Zenon DEF CopyFunction, ElfRight, LoaderTyped
<1>2. /\ IsObject(env.elf) /\ HasType("SYMTAB") /\ Linkable /\ size \in Nat /\ i \in 1..Len(functions)
      /\ \A l \in 1..Len(functions) : functions[l] # NULL
  BY <1>1 DEF ElfRight, LoaderTyped, TablesFound, LayoutRight
<1>3. i = Len(functions)
  <2>1. ~(i < Len(functions))
    BY <1>1, Zenon DEF CopyFunction
  <2> QED
    BY <1>1, <1>2, <2>1
<1>4. Len(functions') = Len(functions)
  <2>1. functions' = [functions EXCEPT ![i] = [functions[i] EXCEPT !.landed = current_landing_spot]]
    BY Zenon DEF CopyFunction
  <2>2. functions[i] \in RelocatedFunctions /\ current_landing_spot \in Nat
    BY <1>1, <1>2 DEF ElfRight, LoaderTyped
  <2>3. [functions[i] EXCEPT !.landed = current_landing_spot] \in RelocatedFunctions \cup {NULL}
    BY <2>2, Zenon DEF RelocatedFunctions
  <2> QED
    BY <1>1, <1>2, <2>1, <2>3, ExceptSeq
<1>5. PICK p : /\ Prefix(p, functions, size) /\ Laid(p, functions, linked, i - 1)
               /\ current_landing_spot = p[i - 1] /\ TableExact(functions, Read)
  <2>1. LaidOut /\ phase \in {"symbols", "copy", "relocate", "load"} /\ Done = i - 1
    BY <1>1, Zenon DEF LayoutRight, Done
  <2> QED
    BY <1>1, <2>1, Zenon DEF LaidOut
<1>6. Laid(p, functions', linked', i)
  BY <1>1, <1>2, <1>5, CopyLaid, Zenon
<1>7. Placed(functions'[k], m, linked'[functions'[k].landed + m])
  BY <1>3, <1>4, <1>6, Zenon DEF Laid
<1>8. phase \notin {"relocate", "load"}
  BY <1>1, Zenon
<1> QED
  BY <1>7, <1>8, Zenon DEF Placed

\* Before the first relocation, the program has the instructions of the file.
LEMMA CopyFunctionHonoured ==
    ASSUME ElfRight, LayoutRight, Relocatable, CopyFunction, phase' = "relocate", Image'
    PROVE  RelocationsRight'
<1>1. env' = env /\ size' = size /\ i' = 1 /\ j' = 0 /\ IsObject(env.elf)
  BY Zenon DEF CopyFunction, ElfRight, LoaderTyped, LayoutRight, Counters
<1>2. ASSUME NEW k \in RelSections, NEW l \in DOMAIN sections[k].data, NEW x \in 1..size,
             linked'[x].origin = Place(k, l)
      PROVE  linked'[x] = Native(k, l)
  <2>1. /\ \A y \in 1..size' : \E f \in 1..Len(functions') : \E n \in 1..functions'[f].size : y = functions'[f].landed + n
        /\ \A f \in 1..Len(functions') :
              /\ functions'[f] \in RelocatedFunctions /\ (Describes(functions[f], Len(symbols) + 1))'
              /\ \A n \in 1..functions'[f].size :
                    /\ functions'[f].landed + n \in 1..size'
                    /\ (Placed(functions[f], n, linked[functions[f].landed + n]))'
                    /\ linked'[functions'[f].landed + n].origin = <<functions'[f].section, functions'[f].start + n - 1>>
    BY Zenon DEF Image
  <2>2. PICK f \in 1..Len(functions') : \E n \in 1..functions'[f].size : x = functions'[f].landed + n
    BY <1>1, <2>1, Zenon
  <2>3. PICK m \in 1..functions'[f].size : x = functions'[f].landed + m
    BY <2>2, Zenon
  <2>4. linked'[x] = NativeData(functions'[f], m)
    BY <2>3, CopyExact, Zenon DEF Relocatable
  <2>5. linked'[x].origin = <<functions'[f].section, functions'[f].start + m - 1>> /\ functions'[f] \in RelocatedFunctions
    BY <2>1, <2>3, Zenon
  <2>6. <<sections[k].info, Rel(k, l).offset>> = <<functions'[f].section, functions'[f].start + m - 1>>
    BY <1>2, <2>5, Zenon DEF Place, PlaceOf
  <2>7. functions'[f].start \in Nat
    BY <2>5, Zenon DEF RelocatedFunctions
  <2>8. sections[k].info = functions'[f].section /\ Rel(k, l).offset + 1 = functions'[f].start + m
    BY <2>6, <2>7
  <2>9. Native(k, l) = NativeData(functions'[f], m)
    BY <2>8, Zenon DEF Native, NativeData
  <2> QED
    BY <2>4, <2>9, Zenon
<1>3. ASSUME NEW k \in RelSections, NEW l \in DOMAIN sections[k].data PROVE ~Applied(k, l)'
  <2>1. k \in 1..section_count /\ l \in 1..Len(sections[k].data) /\ Len(sections[k].data) \in Nat /\ section_count \in Nat
    BY <1>1, RelocationNumbers, Zenon
  <2> QED
    BY <1>1, <2>1 DEF Applied
<1>4. \A k \in RelSections : \A l \in DOMAIN sections[k].data :
         IF Applied(k, l)' THEN Served(k, l, linked') ELSE Waiting(k, l, linked')
  BY <1>2, <1>3, Zenon DEF Waiting
<1> QED
  BY <1>1, <1>4, RelocationsNext, Zenon

\* The relocations are right before the call does anything.
LEMMA RelocationsInit == Init => RelocationsRight
BY Zenon DEF Init, LoaderInit, RelocationsRight

\* The linked program while it is relocated and loaded.
Linked == phase \in {"relocate", "load"} => Image

\* It is the image of the object.
LEMMA ImageOfObject == ElfRight /\ LayoutRight /\ Relocatable => Linked
BY ImageLaid, Zenon DEF Relocatable, Linked

\* Every step keeps the relocations right.
LEMMA RelocationsStep ==
    ASSUME ElfRight, ElfRight', LayoutRight, LayoutRight', Relocatable, Relocatable', RelocationsRight, [Next]_vars
    PROVE  RelocationsRight'
<1>1. phase \in {"relocate", "load"} => Image
  BY ImageOfObject, Zenon DEF Linked
<1>2. phase' \in {"relocate", "load"} => Image'
  <2>1. Linked'
    BY ImageOfObject, PTL
  <2> QED
    BY <2>1, Zenon DEF Linked
<1>3. CASE phase' \notin {"relocate", "load"}
  BY <1>3, Zenon DEF RelocationsRight
<1>4. CASE CheckHeader \/ ReadSection \/ FindTables \/ ReadSymbol \/ Link \/ FinishLoad \/ ReturnError
  <2>1. phase' \notin {"relocate", "load"}
    BY <1>4, Zenon DEF CheckHeader, ReadSection, FindTables, ReadSymbol, AddFunction, Link, FinishLoad, ReturnError, Fail
  <2> QED
    BY <2>1, Zenon DEF RelocationsRight
<1>5. CASE CopyFunction
  <2>1. phase' \in {"copy", "relocate"}
    BY <1>5, Zenon DEF CopyFunction
  <2> QED
    BY <1>2, <1>3, <1>5, <2>1, CopyFunctionHonoured, Zenon
<1>6. CASE EnterSection \/ LeaveSection
  BY <1>6, SectionsHonoured, Zenon
<1>7. CASE ApplyRelocation
  <2>1. phase = "relocate" /\ phase' \in {"relocate", "error"}
    BY <1>7, Zenon DEF ApplyRelocation, Fail
  <2> QED
    BY <1>1, <1>2, <1>3, <1>7, <2>1, RelocationApplied, Zenon
<1>8. CASE StartLoad
  BY <1>8, StartLoadHonoured, Zenon
<1>9. CASE UNCHANGED elf_vars
  <2>1. UNCHANGED <<env, phase, i, j, size, linked>>
    BY <1>9, Zenon DEF elf_vars
  <2>2. \A k, l : Applied(k, l)' <=> Applied(k, l)
    BY <2>1, Zenon DEF Applied
  <2> QED
    BY <1>3, <2>1, <2>2, RelocationsSame, Zenon
<1>10. CASE UNCHANGED vars
  BY <1>9, <1>10, Zenon DEF vars
<1> QED
  BY <1>4, <1>5, <1>6, <1>7, <1>8, <1>9, <1>10, Zenon DEF Next, LoaderStep, OtherStep

\* A relocation that is granted is honoured in the sense of the property.
LEMMA GrantedHonoured ==
    ASSUME Image, NEW k \in RelSections, NEW l \in DOMAIN sections[k].data, Served(k, l, linked)
    PROVE  LET at == At(Place(k, l))
               sym == symbols[Rel(k, l).symbol + 1]
           IN /\ Rel(k, l).type = "64_64" =>
                    linked[at].imm = DataAddress[1] /\ linked[at + 1].imm = DataAddress[2]
              /\ Rel(k, l).type \in CallTypes /\ Native(k, l).src = 1 =>
                    /\ at + 1 + linked[at].imm \in DOMAIN linked
                    /\ linked[at + 1 + linked[at].imm].origin = <<sym.shndx, Native(k, l).imm + 1>>
              /\ Rel(k, l).type \in CallTypes /\ Native(k, l).src # 1 => linked[at].imm = env.helpers[sym.name]
<1>1. PICK x \in 1..size : linked[x].origin = Place(k, l) /\ Granted(k, l, x, linked)
  BY Zenon DEF Served
<1>2. At(Place(k, l)) = x
  <2>1. At(linked[x].origin) = x
    BY PlaceFound, Zenon
  <2> QED
    BY <1>1, <2>1, Zenon
<1>3. DOMAIN linked = 1..size
  BY Zenon DEF Image
<1> QED
  BY <1>1, <1>2, <1>3, Zenon DEF Granted

\* The invariant gives the property.
LEMMA RelocationsGiven ==
    ASSUME ElfRight, LayoutRight, Relocatable, RelocationsRight
    PROVE  RelocationsHonoured
<1> SUFFICES ASSUME phase = "load", NEW k \in RelSections, NEW l \in DOMAIN sections[k].data
             PROVE  LET s == sections[k]
                        r == s.data[l]
                        sym == symbols[r.symbol + 1]
                        native == Section(s.info).data[r.offset + 1]
                        at == At(PlaceOf(s, r))
                    IN CASE r.type = "64_64" ->
                              linked[at].imm = DataAddress[1] /\ linked[at + 1].imm = DataAddress[2]
                         [] r.type \in {"64_32", "64_32_LEGACY"} /\ native.src = 1 ->
                              /\ at + 1 + linked[at].imm \in DOMAIN linked
                              /\ linked[at + 1 + linked[at].imm].origin = <<sym.shndx, native.imm + 1>>
                         [] r.type \in {"64_32", "64_32_LEGACY"} /\ native.src # 1 ->
                              linked[at].imm = env.helpers[sym.name]
                         [] OTHER -> TRUE
  BY Zenon DEF RelocationsHonoured, RelSections
<1> DEFINE r == sections[k].data[l]
           sym == symbols[r.symbol + 1]
           native == Section(sections[k].info).data[r.offset + 1]
           at == At(PlaceOf(sections[k], r))
<1>1. Image
  BY ImageOfObject, Zenon DEF Linked
<1>2. Served(k, l, linked)
  BY Zenon DEF RelocationsRight, Applied
<1>3. /\ r.type = "64_64" => linked[at].imm = DataAddress[1] /\ linked[at + 1].imm = DataAddress[2]
      /\ r.type \in CallTypes /\ native.src = 1 =>
            /\ at + 1 + linked[at].imm \in DOMAIN linked
            /\ linked[at + 1 + linked[at].imm].origin = <<sym.shndx, native.imm + 1>>
      /\ r.type \in CallTypes /\ native.src # 1 => linked[at].imm = env.helpers[sym.name]
  BY <1>1, <1>2, GrantedHonoured, Zenon DEF Rel, Native, Place
<1> HIDE DEF r, sym, native, at
<1>4. (CASE r.type = "64_64" -> linked[at].imm = DataAddress[1] /\ linked[at + 1].imm = DataAddress[2]
        [] r.type \in {"64_32", "64_32_LEGACY"} /\ native.src = 1 ->
             /\ at + 1 + linked[at].imm \in DOMAIN linked
             /\ linked[at + 1 + linked[at].imm].origin = <<sym.shndx, native.imm + 1>>
        [] r.type \in {"64_32", "64_32_LEGACY"} /\ native.src # 1 -> linked[at].imm = env.helpers[sym.name]
        [] OTHER -> TRUE)
  BY <1>3, Zenon DEF CallTypes
<1> QED
  BY <1>4, Zenon DEF r, sym, native, at

\* Whatever the object a compiler makes and wherever linking moves its functions, every
\* relocation is honoured in the program that ubpf_load gets: a local call reaches the
\* function it named, a helper call has the index of its helper, an LDDW both halves of
\* its address.
THEOREM RelocationsAlwaysHonoured == Spec /\ Linkable /\ Relocatable => []RelocationsHonoured
<1>1. Init => RelocationsRight
  BY RelocationsInit, Zenon
<1>2. Init /\ Linkable => LayoutRight
  BY LayoutInit, Zenon
<1>3. LoaderRight /\ LayoutRight /\ [Next]_vars => LayoutRight'
  BY LayoutStep, Zenon DEF LoaderRight
<1>4. Relocatable /\ [Next]_vars => Relocatable'
  <2>1. [Next]_vars => env' = env
    BY Zenon DEF Next, LoaderStep, OtherStep, CheckHeader, ReadSection, FindTables, ReadSymbol, Link, CopyFunction,
       EnterSection, ApplyRelocation, LeaveSection, StartLoad, FinishLoad, ReturnError, elf_vars, vars
  <2> QED
    BY <2>1, RelocatableKept, Zenon
<1>5. /\ LoaderRight /\ LayoutRight /\ Relocatable /\ RelocationsRight /\ [Next]_vars
      /\ LoaderRight' /\ LayoutRight' /\ Relocatable'
      => RelocationsRight'
  BY RelocationsStep, Zenon DEF LoaderRight
<1>6. LoaderRight /\ LayoutRight /\ Relocatable /\ RelocationsRight => RelocationsHonoured
  BY RelocationsGiven, Zenon DEF LoaderRight
<1>7. Spec => []LoaderRight
  BY LoaderAlwaysRight, Zenon
<1> QED
  BY <1>1, <1>2, <1>3, <1>4, <1>5, <1>6, <1>7, PTL DEF Spec

=============================================================================
