-------------------------- MODULE UbpfLayoutProofs --------------------------
(***************************************************************************)
(* The linked program is the functions of the object, whole, each once,     *)
(* with the main function first, for every object a compiler can make.      *)
(***************************************************************************)
EXTENDS UbpfLoaderProofs

\* The fields of an instruction, and a value that has them.
Fields == {"opcode", "dst", "src", "imm", "offset", "origin"}
IsInstruction(x) == x = [field \in Fields |-> x[field]]

\* The object is one a compiler makes: instructions are labelled with where they are,
\* functions lie inside their sections, apart from each other and not through the middle
\* of an LDDW, and the main function is not empty.
Linkable ==
    /\ \A k \in DOMAIN sections : IsCode(sections[k]) =>
          \A n \in DOMAIN sections[k].data :
              IsInstruction(sections[k].data[n]) /\ sections[k].data[n].origin = <<k - 1, n - 1>>
    /\ HasType("SYMTAB") =>
          /\ \A f \in FunctionSymbols :
                LET s == symbols[f]
                    data == Section(s.shndx).data
                IN /\ s.shndx < section_count /\ s.value + s.size <= Len(data)
                   /\ \A n \in (s.value + 1)..(s.value + s.size) :
                         data[n].opcode = "lddw" => n < s.value + s.size /\ data[n + 1].opcode = "zero"
          /\ \A f, g \in FunctionSymbols : f # g /\ symbols[f].shndx = symbols[g].shndx =>
                \/ symbols[f].value + symbols[f].size <= symbols[g].value
                \/ symbols[g].value + symbols[g].size <= symbols[f].value
          /\ \A m \in Mains : symbols[m].size > 0

\* The record f is that of a function symbol before the read-th.
Describes(f, read) ==
    /\ f.symbol \in FunctionSymbols /\ f.symbol < read
    /\ f.section = symbols[f.symbol].shndx /\ f.start = symbols[f.symbol].value
    /\ f.size = symbols[f.symbol].size /\ IsCode(Section(f.section))

\* The table fs holds one record for each function symbol before the read-th, and in slot 0
\* only that of a main function.
TableExact(fs, read) ==
    /\ \A k \in DOMAIN fs : fs[k] # NULL => Describes(fs[k], read)
    /\ \A k, l \in DOMAIN fs : fs[k] # NULL /\ fs[l] # NULL /\ fs[k].symbol = fs[l].symbol => k = l
    /\ \A s \in FunctionSymbols : s < read => \E k \in DOMAIN fs : fs[k] # NULL /\ fs[k].symbol = s
    /\ fs[1] # NULL => fs[1].symbol \in Mains

\* An empty slot has no instructions.
SizeOf(f) == IF f = NULL THEN 0 ELSE f.size

\* p[k] instructions belong to the first k functions of the table, n to all of them.
Prefix(p, fs, n) ==
    /\ p \in [0..Len(fs) -> Nat] /\ p[0] = 0 /\ p[Len(fs)] = n
    /\ \A k \in 1..Len(fs) : p[k] = p[k - 1] + SizeOf(fs[k])
    /\ \A k, l \in 0..Len(fs) : k <= l => p[k] <= p[l]

\* x is the m-th instruction of the function f, but for an immediate that is relocated.
Placed(f, m, x) ==
    /\ IsInstruction(x)
    /\ x.opcode = NativeData(f, m).opcode /\ x.src = NativeData(f, m).src /\ x.origin = NativeData(f, m).origin
    /\ \/ x = NativeData(f, m)
       \/ phase \in {"relocate", "load"} /\ (x.origin \in RelocatedPlaces \/ x.opcode = "zero")

\* The first done functions are where the ones before them end.
Laid(p, fs, program, done) ==
    \A k \in 1..done :
        /\ fs[k] # NULL /\ fs[k].landed = p[k - 1]
        /\ \A m \in 1..fs[k].size : Placed(fs[k], m, program[fs[k].landed + m])

\* How many symbols are read, and how many functions are copied.
Read == IF phase = "symbols" THEN i ELSE Len(symbols) + 1
Done == IF phase = "symbols" THEN 0 ELSE IF phase = "copy" THEN i - 1 ELSE Len(functions)

\* The table is exact so far, and the copies are in its order, each where the one before it ends.
LaidOut ==
    phase \in {"symbols", "copy", "relocate", "load"} =>
        \/ MainOverwritten
        \/ /\ TableExact(functions, Read)
           /\ \E p : /\ Prefix(p, functions, size) /\ Laid(p, functions, linked, Done)
                     /\ phase = "copy" => current_landing_spot = p[i - 1]

\* What the phases before leave behind, and which section the relocations are of.
Counters ==
    /\ phase \in {"header", "sections"} => size = 0
    /\ phase \in {"header", "sections", "symbols"} => current_landing_spot = 0
    /\ phase = "load" => HasType("SYMTAB") /\ Len(functions) > 0
    /\ j \in Nat /\ (phase \in {"header", "sections", "symbols", "copy"} => j = 0)
    /\ phase = "relocate" /\ j > 0 =>
          i \in DOMAIN sections /\ sections[i].type = "REL" /\ IsCode(Section(sections[i].info))

\* The inductive invariant of the layout.
LayoutRight == Linkable /\ Counters /\ LaidOut

\* The instruction behind the m-th of the s instructions of a function, when it is not the last.
LEMMA NextPlace ==
    ASSUME NEW s \in Nat, NEW l \in Nat, NEW m \in 1..s, m < s
    PROVE  m + 1 \in 1..s /\ l + (m + 1) = (l + m) + 1
OBVIOUS

\* Instructions are counted from 0 in the file, and from 1 here.
Counted(start, k) ==
    /\ start + 1 - 1 = start /\ start + (k + 1) - 1 = start + k
    /\ start + (k + 1) = (start + 1) + k

\* The two ways of counting agree.
LEMMA CountedFromOne ==
    ASSUME NEW s \in Nat, NEW k \in 0..(s - 1), NEW start \in Nat
    PROVE  1 \in 1..s /\ k + 1 \in 1..s /\ Counted(start, k)
BY DEF Counted

\* The m-th instruction of a function is in the section that the function is in.
LEMMA PlaceInSection ==
    ASSUME NEW start \in Nat, NEW s \in Nat, NEW n \in Nat, start + s <= n, NEW m \in 1..s
    PROVE  start + m \in 1..n /\ start + m \in (start + 1)..(start + s)
OBVIOUS

\* Instructions of a function at the same offset are the same.
LEMMA SameOffset ==
    ASSUME NEW start \in Nat, NEW s \in Nat, NEW m \in 1..s, NEW n \in 1..s, start + m - 1 = start + n - 1
    PROVE  m = n
OBVIOUS

\* The offset o of a section is that of the m-th instruction of the function of n instructions
\* that starts at s and landed at l.
Numbered(s, n, l, o, m) ==
    /\ m \in 1..n /\ m \in Nat /\ s + m - 1 = o /\ l + (o - s) + 1 = l + m
    /\ o + 1 = s + (m + 1) - 1 /\ (l + m) + 1 = l + (m + 1)

\* Every offset inside a function is that of one of its instructions.
LEMMA OffsetPlace ==
    ASSUME NEW s \in Nat, NEW n \in Nat, NEW o \in s..(s + n - 1), NEW l \in Nat
    PROVE  Numbered(s, n, l, o, (o - s) + 1)
BY DEF Numbered

\* As many origins as instructions, when no two have the same.
LEMMA DistinctCount ==
    ASSUME NEW n \in Nat, NEW F, \A a, b \in 1..n : F[a] = F[b] => a = b
    PROVE  Cardinality({F[k] : k \in 1..n}) = n
<1> DEFINE T == {F[k] : k \in 1..n}
           G == [k \in 1..n |-> F[k]]
<1>1. G \in [1..n -> T] /\ \A a, b \in 1..n : G[a] = G[b] => a = b
  BY Zenon
<1>2. \A t \in T : \E k \in 1..n : G[k] = t
  BY Zenon
<1> HIDE DEF G, T
<1>3. G \in Bijection(1..n, T)
  BY <1>1, <1>2, Zenon DEF Bijection, Injection, Surjection, IsInjective
<1>4. ExistsBijection(1..n, T)
  BY <1>3, Zenon DEF ExistsBijection
<1> QED
  BY <1>4, FS_CountingElements, Zenon DEF T

\* Every position of the program belongs to some function.
LEMMA Covered ==
    ASSUME NEW fs, Len(fs) \in Nat, NEW n \in Nat, NEW p, Prefix(p, fs, n), NEW x \in 1..n
    PROVE  \E k \in 1..Len(fs) : p[k - 1] < x /\ x <= p[k]
<1>1. p \in [0..Len(fs) -> Nat] /\ p[0] = 0 /\ p[Len(fs)] = n
  BY Zenon DEF Prefix
<1> DEFINE S == {k \in 0..Len(fs) : x <= p[k]}
<1>2. S \in SUBSET Nat /\ Len(fs) \in S
  BY <1>1
<1>3. PICK k \in S : \A l \in S : k <= l
  BY <1>2, LeastElement, Zenon
<1>4. k # 0
  BY <1>1
<1>5. k \in 1..Len(fs) /\ k - 1 \in 0..Len(fs) /\ k - 1 \notin S
  BY <1>3, <1>4
<1>6. p[k - 1] \in Nat /\ ~(x <= p[k - 1])
  BY <1>1, <1>5, Zenon
<1> QED
  BY <1>5, <1>6

\* A record behind the others adds its size to the program's.
LEMMA PrefixAppend ==
    ASSUME NEW fs \in Seq(RelocatedFunctions \cup {NULL}), NEW r \in RelocatedFunctions,
           NEW n \in Nat, NEW p, Prefix(p, fs, n)
    PROVE  \E q : Prefix(q, Append(fs, r), n + r.size)
<1> DEFINE L == Len(fs)
           gs == Append(fs, r)
           q == [k \in 0..(L + 1) |-> IF k <= L THEN p[k] ELSE n + r.size]
<1>1. /\ Len(gs) = L + 1 /\ L \in Nat /\ gs[L + 1] = r
      /\ \A k \in 1..L : gs[k] = fs[k]
  BY AppendProperties
<1>2. r # NULL /\ r.size \in Nat
  BY LoaderAssumption, Zenon DEF RelocatedFunctions
<1>3. /\ p \in [0..L -> Nat] /\ p[0] = 0 /\ p[L] = n
      /\ \A k \in 1..L : p[k] = p[k - 1] + SizeOf(fs[k])
      /\ \A k, l \in 0..L : k <= l => p[k] <= p[l]
  BY Zenon DEF Prefix
<1> HIDE DEF L, gs
<1>4. q \in [0..(L + 1) -> Nat] /\ q[0] = 0 /\ q[L + 1] = n + r.size
  BY <1>1, <1>2, <1>3
<1>5. \A k \in 1..(L + 1) : q[k] = q[k - 1] + SizeOf(gs[k])
  <2>1. ASSUME NEW k \in 1..(L + 1), k <= L PROVE q[k] = q[k - 1] + SizeOf(gs[k])
    <3>1. k \in 1..L /\ k - 1 \in 0..L /\ k - 1 <= L
      BY <1>1, <2>1
    <3> QED
      BY <1>1, <1>3, <2>1, <3>1
  <2>2. ASSUME NEW k \in 1..(L + 1), k = L + 1 PROVE q[k] = q[k - 1] + SizeOf(gs[k])
    <3>1. k - 1 = L /\ q[L] = n /\ SizeOf(gs[k]) = r.size
      BY <1>1, <1>2, <1>3, <2>2 DEF SizeOf
    <3> QED
      BY <1>4, <2>2, <3>1, Zenon
  <2>3. \A k \in 1..(L + 1) : k <= L \/ k = L + 1
    BY <1>1
  <2> HIDE DEF q
  <2> QED
    BY <2>1, <2>2, <2>3, Zenon
<1>6. \A k, l \in 0..(L + 1) : k <= l => q[k] <= q[l]
  <2> SUFFICES ASSUME NEW k \in 0..(L + 1), NEW l \in 0..(L + 1), k <= l PROVE q[k] <= q[l]
    BY Zenon
  <2>1. CASE l <= L
    BY <1>1, <1>3, <2>1
  <2>2. CASE l = L + 1 /\ k <= L
    <3>1. p[k] <= n /\ p[k] \in Nat
      BY <1>1, <1>3, <2>2
    <3> QED
      BY <1>1, <1>2, <2>2, <3>1
  <2>3. CASE l = L + 1 /\ k = L + 1
    BY <1>1, <1>2, <2>3
  <2> QED
    BY <1>1, <2>1, <2>2, <2>3
<1> HIDE DEF q
<1>7. Prefix(q, gs, n + r.size)
  BY <1>1, <1>4, <1>5, <1>6, Zenon DEF Prefix
<1> QED
  BY <1>7, Zenon DEF gs

\* So does one in slot 0, when that is free.
LEMMA PrefixMain ==
    ASSUME NEW fs \in Seq(RelocatedFunctions \cup {NULL}), NEW r \in RelocatedFunctions,
           Len(fs) > 0, fs[1] = NULL, NEW n \in Nat, NEW p, Prefix(p, fs, n)
    PROVE  \E q : Prefix(q, [fs EXCEPT ![1] = r], n + r.size)
<1> DEFINE L == Len(fs)
           gs == [fs EXCEPT ![1] = r]
           q == [k \in 0..L |-> IF k = 0 THEN 0 ELSE p[k] + r.size]
<1>1. /\ Len(gs) = L /\ L \in Nat \ {0} /\ gs[1] = r
      /\ \A k \in 2..L : gs[k] = fs[k]
  <2>1. 1 \in 1..Len(fs) /\ Len(fs) \in Nat /\ DOMAIN fs = 1..Len(fs)
    OBVIOUS
  <2>2. Len(gs) = L
    BY <2>1, ExceptSeq
  <2> QED
    BY <2>1, <2>2
<1>2. r # NULL /\ r.size \in Nat
  BY LoaderAssumption, Zenon DEF RelocatedFunctions
<1>3. /\ p \in [0..L -> Nat] /\ p[0] = 0 /\ p[L] = n
      /\ \A k \in 1..L : p[k] = p[k - 1] + SizeOf(fs[k])
      /\ \A k, l \in 0..L : k <= l => p[k] <= p[l]
  BY Zenon DEF Prefix
<1> HIDE DEF L, gs
<1>4. q \in [0..L -> Nat] /\ q[0] = 0 /\ q[L] = n + r.size
  BY <1>1, <1>2, <1>3
<1>5. \A k \in 1..L : q[k] = q[k - 1] + SizeOf(gs[k])
  <2>1. ASSUME NEW k \in 2..L PROVE q[k] = q[k - 1] + SizeOf(gs[k])
    <3>1. k \in 1..L /\ k - 1 \in 1..L /\ p[k] \in Nat /\ p[k - 1] \in Nat
      BY <1>1, <1>3, <2>1
    <3>2. q[k] = p[k] + r.size /\ q[k - 1] = p[k - 1] + r.size /\ p[k] = p[k - 1] + SizeOf(fs[k])
      BY <1>3, <3>1
    <3>3. SizeOf(fs[k]) = SizeOf(gs[k])
      BY <1>1, <2>1, Zenon
    <3>4. SizeOf(fs[k]) \in Nat
      <4>1. fs[k] \in RelocatedFunctions \cup {NULL}
        BY <3>1 DEF L
      <4>2. \A f \in RelocatedFunctions : f.size \in Nat
        BY Zenon DEF RelocatedFunctions
      <4> QED
        BY <4>1, <4>2, Zenon DEF SizeOf
    <3> QED
      BY <1>2, <3>1, <3>2, <3>3, <3>4
  <2>2. ASSUME NEW k \in 1..L, k = 1 PROVE q[k] = q[k - 1] + SizeOf(gs[k])
    <3>1. k - 1 = 0 /\ p[1] = p[0] + SizeOf(fs[1]) /\ 1 \in 0..L
      BY <1>1, <1>3, <2>2
    <3>2. SizeOf(fs[1]) = 0 /\ SizeOf(gs[k]) = r.size
      BY <1>1, <1>2, <2>2, Zenon DEF SizeOf
    <3> QED
      BY <1>2, <1>3, <1>4, <2>2, <3>1, <3>2
  <2>3. \A k \in 1..L : k \in 2..L \/ k = 1
    BY <1>1
  <2> HIDE DEF q
  <2> QED
    BY <2>1, <2>2, <2>3, Zenon
<1>6. \A k, l \in 0..L : k <= l => q[k] <= q[l]
  <2> SUFFICES ASSUME NEW k \in 0..L, NEW l \in 0..L, k <= l PROVE q[k] <= q[l]
    BY Zenon
  <2>1. p[k] \in Nat /\ p[l] \in Nat /\ p[k] <= p[l]
    BY <1>1, <1>3, Zenon
  <2> QED
    BY <1>1, <1>2, <2>1
<1> HIDE DEF q
<1>7. Prefix(q, gs, n + r.size)
  BY <1>1, <1>4, <1>5, <1>6, Zenon DEF Prefix
<1> QED
  BY <1>7, Zenon DEF gs

\* An instruction of a function that the table describes.
LEMMA NativeInstruction ==
    ASSUME IsObject(env.elf), HasType("SYMTAB"), Linkable,
           NEW f, NEW read, Describes(f, read), NEW m \in 1..f.size
    PROVE  /\ f.section \in Nat /\ f.start \in Nat /\ f.size \in Nat
           /\ IsInstruction(NativeData(f, m))
           /\ NativeData(f, m).origin = <<f.section, f.start + m - 1>>
           /\ NativeData(f, m).opcode = "lddw" => m < f.size /\ NativeData(f, m + 1).opcode = "zero"
<1> DEFINE s == symbols[f.symbol]
           k == f.section + 1
           n == f.start + m
<1>1. /\ f.symbol \in FunctionSymbols /\ f.section = s.shndx /\ f.start = s.value /\ f.size = s.size
      /\ IsCode(sections[k])
  BY Zenon DEF Describes, Section
<1>2. s.shndx \in Nat /\ s.value \in Nat /\ s.size \in Nat
  BY <1>1, SymbolTable, Zenon DEF FunctionSymbols
<1>3. /\ s.shndx < section_count /\ s.value + s.size <= Len(sections[k].data)
      /\ \A x \in (s.value + 1)..(s.value + s.size) :
            sections[k].data[x].opcode = "lddw" => x < s.value + s.size /\ sections[k].data[x + 1].opcode = "zero"
  BY <1>1, Zenon DEF Linkable, Section
<1>4. k \in DOMAIN sections /\ IsArray(sections[k].data)
  <2>1. DOMAIN sections = 1..section_count /\ section_count \in Nat
    BY Zenon DEF IsObject, IsArray, sections, section_count
  <2>2. f.section \in Nat /\ f.section < section_count
    BY <1>1, <1>2, <1>3, Zenon
  <2>3. k \in DOMAIN sections
    BY <2>1, <2>2
  <2> QED
    BY <2>3, Zenon DEF IsObject, sections
<1>5. f.section \in Nat /\ f.start \in Nat /\ f.size \in Nat /\ f.start + f.size <= Len(sections[k].data)
  BY <1>1, <1>2, <1>3, Zenon
<1>6. n \in DOMAIN sections[k].data /\ n \in (f.start + 1)..(f.start + f.size)
  <2>1. DOMAIN sections[k].data = 1..Len(sections[k].data) /\ Len(sections[k].data) \in Nat
    BY <1>4, Zenon DEF IsArray
  <2> QED
    BY <1>5, <2>1, PlaceInSection, Zenon
<1>7. IsInstruction(sections[k].data[n]) /\ sections[k].data[n].origin = <<k - 1, n - 1>>
  BY <1>1, <1>4, <1>6, Zenon DEF Linkable
<1>8. k - 1 = f.section /\ n - 1 = f.start + m - 1
  BY <1>5
<1>9. NativeData(f, m) = sections[k].data[n] /\ NativeData(f, m + 1) = sections[k].data[n + 1]
  <2>1. f.start + (m + 1) = n + 1
    BY <1>5
  <2> QED
    BY <2>1, Zenon DEF NativeData, Section
<1>10. sections[k].data[n].opcode = "lddw" => m < f.size /\ sections[k].data[n + 1].opcode = "zero"
  <2>1. \A x \in (f.start + 1)..(f.start + f.size) :
            sections[k].data[x].opcode = "lddw" => x < f.start + f.size /\ sections[k].data[x + 1].opcode = "zero"
    BY <1>1, <1>3, Zenon
  <2>2. n < f.start + f.size => m < f.size
    BY <1>5
  <2> QED
    BY <1>6, <2>1, <2>2, Zenon
<1> QED
  BY <1>5, <1>7, <1>8, <1>9, <1>10, Zenon

\* The instruction y is x but for the immediate.
Rewritten(x, y) == \E c : y = [x EXCEPT !.imm = c]

\* Writing an immediate leaves an instruction in its place, if there is a relocation for it.
LEMMA ImmediateOnly ==
    ASSUME NEW x, IsInstruction(x), NEW y, Rewritten(x, y)
    PROVE  IsInstruction(y) /\ y.opcode = x.opcode /\ y.src = x.src /\ y.origin = x.origin
<1>1. PICK c : y = [x EXCEPT !.imm = c]
  BY Zenon DEF Rewritten
<1> QED
  BY <1>1, Zenon DEF IsInstruction, Fields

\* An instruction that a relocation is for, or the second half of an LDDW, may be rewritten.
LEMMA PlacedRewritten ==
    ASSUME phase \in {"relocate", "load"}, NEW f, NEW m, NEW x, Placed(f, m, x), NEW y, Rewritten(x, y),
           x.origin \in RelocatedPlaces \/ x.opcode = "zero"
    PROVE  Placed(f, m, y)
BY ImmediateOnly, Zenon DEF Placed

\* The table after the record of symbol i is stored at the index at.
LEMMA TableGrows ==
    ASSUME NEW n \in Nat, NEW fs, TableExact(fs, n), FunctionSymbols \subseteq Nat,
           NEW r, r # NULL, r.symbol = n, Describes(r, n + 1),
           NEW gs, NEW at \in DOMAIN gs, gs[at] = r,
           \A k \in DOMAIN fs : fs[k] # NULL => k \in DOMAIN gs /\ gs[k] = fs[k] /\ k # at,
           \A k \in DOMAIN gs : k = at \/ (k \in DOMAIN fs /\ gs[k] = fs[k]),
           gs[1] # NULL => gs[1].symbol \in Mains
    PROVE  TableExact(gs, n + 1)
<1>1. ASSUME NEW k \in DOMAIN gs, gs[k] # NULL PROVE Describes(gs[k], n + 1)
  <2>1. CASE k = at
    BY <2>1, Zenon
  <2>2. CASE k # at
    <3>1. k \in DOMAIN fs /\ gs[k] = fs[k] /\ Describes(fs[k], n)
      BY <1>1, <2>2, Zenon DEF TableExact
    <3>2. fs[k].symbol < n + 1
      <4>1. fs[k].symbol < n /\ fs[k].symbol \in Nat
        BY <3>1, Zenon DEF Describes
      <4> QED
        BY <4>1
    <3> QED
      BY <3>1, <3>2, Zenon DEF Describes
  <2> QED
    BY <2>1, <2>2, Zenon
<1>2. ASSUME NEW k \in DOMAIN fs, fs[k] # NULL PROVE fs[k].symbol # n
  <2>1. fs[k].symbol < n /\ fs[k].symbol \in Nat
    BY <1>2, Zenon DEF TableExact, Describes
  <2> QED
    BY <2>1
<1>3. ASSUME NEW k \in DOMAIN gs, NEW l \in DOMAIN gs, gs[k] # NULL, gs[l] # NULL, gs[k].symbol = gs[l].symbol
      PROVE  k = l
  <2>1. CASE k = at /\ l = at
    BY <2>1, Zenon
  <2>2. CASE k # at /\ l # at
    <3>1. k \in DOMAIN fs /\ l \in DOMAIN fs /\ gs[k] = fs[k] /\ gs[l] = fs[l]
      BY <2>2, Zenon
    <3>2. fs[k] # NULL /\ fs[l] # NULL /\ fs[k].symbol = fs[l].symbol
      BY <1>3, <3>1, Zenon
    <3> QED
      BY <3>1, <3>2, Zenon DEF TableExact
  <2>3. CASE k = at /\ l # at
    BY <1>2, <1>3, <2>3, Zenon
  <2>4. CASE k # at /\ l = at
    BY <1>2, <1>3, <2>4, Zenon
  <2> QED
    BY <2>1, <2>2, <2>3, <2>4, Zenon
<1>4. ASSUME NEW s \in FunctionSymbols, s < n + 1
      PROVE  \E k \in DOMAIN gs : gs[k] # NULL /\ gs[k].symbol = s
  <2>1. CASE s = n
    BY <2>1, Zenon
  <2>2. CASE s # n
    <3>1. s < n
      BY <1>4, <2>2
    <3>2. PICK k \in DOMAIN fs : fs[k] # NULL /\ fs[k].symbol = s
      BY <3>1, Zenon DEF TableExact
    <3> QED
      BY <3>2, Zenon
  <2> QED
    BY <2>1, <2>2, Zenon
<1> QED
  BY <1>1, <1>3, <1>4, Zenon DEF TableExact

\* What a relocation writes: the immediate of the instruction in its place, and for a data
\* relocation also that of the one behind it, when it is an LDDW.
Writes(at, changed) ==
    \A x \in 1..size : changed[x] = linked[x] \/
        /\ x = at \/ (x = at + 1 /\ linked[at].opcode = "lddw")
        /\ Rewritten(linked[x], changed[x])

\* The relocations of a place leave the program laid out: an immediate is written, in the
\* instruction that the relocation is for or in the second half of the LDDW that it is.
LEMMA ImmediatesLaid ==
    ASSUME phase = "relocate", IsObject(env.elf), HasType("SYMTAB"), Linkable, Len(functions) \in Nat,
           \A l \in 1..Len(functions) : Describes(functions[l], Read),
           \A l \in 1..Len(functions) : \A n \in 1..functions[l].size : functions[l].landed + n \in 1..size,
           NEW p, Laid(p, functions, linked, Len(functions)),
           NEW k \in 1..Len(functions), NEW m \in 1..functions[k].size, functions[k].landed \in Nat,
           NativeData(functions[k], m).origin \in RelocatedPlaces,
           Writes(functions[k].landed + m, linked')
    PROVE  Laid(p, functions, linked', Len(functions))
<1> DEFINE at == functions[k].landed + m
           done == Len(functions)
<1>1. Placed(functions[k], m, linked[at]) /\ Describes(functions[k], Read)
  BY Zenon DEF Laid
<1>2. linked[at].origin \in RelocatedPlaces
  BY <1>1, Zenon DEF Placed
<1>3. ASSUME linked[at].opcode = "lddw" PROVE linked[at + 1].opcode = "zero"
  <2>1. NativeData(functions[k], m).opcode = "lddw"
    BY <1>1, <1>3, Zenon DEF Placed
  <2>2. functions[k].size \in Nat /\ m < functions[k].size /\ NativeData(functions[k], m + 1).opcode = "zero"
    BY <1>1, <2>1, NativeInstruction, Zenon
  <2>3. m + 1 \in 1..functions[k].size /\ functions[k].landed + (m + 1) = at + 1
    BY <2>2, NextPlace, Zenon
  <2>4. Placed(functions[k], m + 1, linked[at + 1])
    BY <2>3, Zenon DEF Laid
  <2> QED
    BY <2>2, <2>4, Zenon DEF Placed
<1>4. ASSUME NEW l \in 1..done, NEW n \in 1..functions[l].size
      PROVE  Placed(functions[l], n, linked'[functions[l].landed + n])
  <2> DEFINE x == functions[l].landed + n
  <2>1. Placed(functions[l], n, linked[x])
    BY Zenon DEF Laid
  <2>2. x \in 1..size
    BY Zenon
  <2>3. linked'[x] = linked[x] \/
          /\ x = at \/ (x = at + 1 /\ linked[at].opcode = "lddw")
          /\ Rewritten(linked[x], linked'[x])
    BY <2>2, Zenon DEF Writes
  <2>4. CASE linked'[x] = linked[x]
    BY <2>1, <2>4, Zenon
  <2>5. CASE /\ x = at \/ (x = at + 1 /\ linked[at].opcode = "lddw")
             /\ Rewritten(linked[x], linked'[x])
    <3>1. linked[x].origin \in RelocatedPlaces \/ linked[x].opcode = "zero"
      BY <1>2, <1>3, <2>5, Zenon
    <3> QED
      BY <2>1, <2>5, <3>1, PlacedRewritten, Zenon
  <2> QED
    BY <2>3, <2>4, <2>5, Zenon
<1> QED
  BY <1>4, Zenon DEF Laid

\* What the layout says is a function of the object and of the state of the call.
LEMMA LayoutNext ==
    ASSUME env' = env, phase' \in {"symbols", "copy", "relocate", "load"},
           phase \in {"relocate", "load"} => phase' \in {"relocate", "load"},
           \/ MainOverwritten
           \/ /\ TableExact(functions', Read')
              /\ \E p : /\ Prefix(p, functions', size') /\ Laid(p, functions', linked', Done')
                        /\ phase' = "copy" => current_landing_spot' = p[i' - 1]
    PROVE  LaidOut'
<1>1. /\ sections' = sections /\ symbols' = symbols /\ Mains' = Mains /\ MainOverwritten' = MainOverwritten
      /\ FunctionSymbols' = FunctionSymbols
  BY ObjectKept, Zenon DEF FunctionSymbols
<1>2. RelocatedPlaces' = RelocatedPlaces
  BY <1>1 DEF RelocatedPlaces
<1>3. (TableExact(functions, Read))' <=> TableExact(functions', Read')
  BY <1>1, Zenon DEF TableExact, Describes, Section
<1>4. ASSUME NEW p, Laid(p, functions', linked', Done') PROVE (Laid(p, functions, linked, Done))'
  <2>1. ASSUME NEW k, NEW m, NEW x, Placed(functions'[k], m, linked'[x]) PROVE (Placed(functions[k], m, linked[x]))'
    BY <1>1, <1>2, <2>1, Zenon DEF Placed, NativeData, Section
  <2> QED
    BY <1>4, <2>1, Zenon DEF Laid
<1>5. ASSUME NEW p PROVE (Prefix(p, functions, size))' <=> Prefix(p, functions', size')
  BY Zenon DEF Prefix, SizeOf
<1> QED
  BY <1>1, <1>3, <1>4, <1>5, Zenon DEF LaidOut

\* A step that leaves the table, the program and what is read of the object alone.
LEMMA LayoutSame ==
    ASSUME LaidOut, env' = env, phase' = phase, i' = i, functions' = functions, size' = size, linked' = linked,
           current_landing_spot' = current_landing_spot
    PROVE  LaidOut'
<1>1. CASE phase \notin {"symbols", "copy", "relocate", "load"}
  BY <1>1, Zenon DEF LaidOut
<1>2. CASE phase \in {"symbols", "copy", "relocate", "load"}
  <2>1. Read' = Read /\ Done' = Done
    BY ObjectKept, Zenon DEF Read, Done
  <2>2. MainOverwritten \/
          /\ TableExact(functions', Read')
          /\ \E p : /\ Prefix(p, functions', size') /\ Laid(p, functions', linked', Done')
                    /\ phase' = "copy" => current_landing_spot' = p[i' - 1]
    BY <1>2, <2>1, Zenon DEF LaidOut
  <2> QED
    BY <1>2, <2>2, LayoutNext, Zenon
<1> QED
  BY <1>1, <1>2, Zenon

\* The object does not change.
LEMMA LinkableKept == Linkable /\ UNCHANGED env => Linkable'
<1> SUFFICES ASSUME Linkable, env' = env PROVE Linkable'
  BY Zenon
<1>1. /\ sections' = sections /\ symbols' = symbols /\ Mains' = Mains /\ section_count' = section_count
      /\ FunctionSymbols' = FunctionSymbols /\ (HasType("SYMTAB"))' = HasType("SYMTAB")
  BY ObjectKept, Zenon DEF FunctionSymbols
<1> QED
  BY <1>1 DEF Linkable, Section

\* A step to a phase in which nothing is said of the layout.
LEMMA LayoutLeft ==
    ASSUME Counters, phase' \in {"error", "returned"}, j' = j
    PROVE  Counters' /\ LaidOut'
BY Zenon DEF Counters, LaidOut

\* The header and the sections.
LEMMA HeadersLaid ==
    ASSUME LayoutRight, CheckHeader \/ ReadSection
    PROVE  Counters' /\ LaidOut'
<1>1. phase \in {"header", "sections"} /\ current_landing_spot' = current_landing_spot
  BY Zenon DEF CheckHeader, ReadSection
<1>2. CASE Fail
  BY <1>2, LayoutLeft, Zenon DEF Fail, LayoutRight
<1>3. CASE phase' = "sections" /\ UNCHANGED <<j, size>>
  BY <1>1, <1>3, Zenon DEF LayoutRight, Counters, LaidOut
<1> QED
  BY <1>2, <1>3, Zenon DEF CheckHeader, ReadSection

\* The table begins with slot 0 empty.
LEMMA FindTablesLaid ==
    ASSUME ElfRight, LayoutRight, FindTables
    PROVE  Counters' /\ LaidOut'
<1>1. phase = "sections" /\ env' = env /\ current_landing_spot' = current_landing_spot
  BY Zenon DEF FindTables
<1>2. CASE Fail
  BY <1>2, LayoutLeft, Zenon DEF Fail, LayoutRight
<1>3. CASE /\ HasType("SYMTAB") /\ phase' = "symbols" /\ i' = 1 /\ functions' = <<NULL>>
           /\ UNCHANGED <<j, size, linked>>
  <2>1. Counters'
    BY <1>1, <1>3, Zenon DEF LayoutRight, Counters
  <2>2. size' = 0 /\ Read' = 1 /\ Done' = 0
    BY <1>1, <1>3, Zenon DEF LayoutRight, Counters, Read, Done
  <2>3. TableExact(functions', 1)
    <3>1. DOMAIN functions' = {1} /\ functions'[1] = NULL
      BY <1>3
    <3>2. \A s \in FunctionSymbols : s \in Nat \ {0}
      BY <1>3, SymbolTable DEF ElfRight, LoaderTyped, IsArray, FunctionSymbols
    <3>3. \A s \in FunctionSymbols : ~(s < 1)
      BY <3>2
    <3> QED
      BY <3>1, <3>3, Zenon DEF TableExact
  <2>4. Prefix([k \in 0..1 |-> 0], functions', 0)
    <3>1. Len(functions') = 1 /\ functions'[1] = NULL
      BY <1>3, Zenon
    <3>2. \A k \in 1..1 : k = 1 /\ SizeOf(functions'[k]) = 0
      BY <3>1 DEF SizeOf
    <3> QED
      BY <3>1, <3>2 DEF Prefix
  <2>5. \A p : Laid(p, functions', linked', 0)
    BY DEF Laid
  <2>6. MainOverwritten \/
          /\ TableExact(functions', Read')
          /\ \E p : /\ Prefix(p, functions', size') /\ Laid(p, functions', linked', Done')
                    /\ phase' = "copy" => current_landing_spot' = p[i' - 1]
    BY <1>3, <2>2, <2>3, <2>4, <2>5, Zenon
  <2> QED
    BY <1>1, <1>3, <2>1, <2>6, LayoutNext
<1> QED
  BY <1>2, <1>3, Zenon DEF FindTables

\* The symbols are numbered from 1.
LEMMA SymbolNumbers ==
    ASSUME ElfRight, HasType("SYMTAB")
    PROVE  FunctionSymbols \subseteq 1..Len(symbols) /\ Len(symbols) \in Nat
BY SymbolTable, Zenon DEF ElfRight, LoaderTyped, IsArray, FunctionSymbols

\* A symbol: the record of a function joins the table.
LEMMA ReadSymbolLaid ==
    ASSUME ElfRight, LayoutRight, ReadSymbol
    PROVE  Counters' /\ LaidOut'
<1> DEFINE S == RelocatedFunctions \cup {NULL}
<1>1. /\ phase = "symbols" /\ i \in DOMAIN symbols /\ env' = env /\ HasType("SYMTAB")
      /\ current_landing_spot' = current_landing_spot
      /\ i \in Nat \ {0} /\ size \in Nat /\ functions \in Seq(S) /\ Len(functions) > 0
      /\ functions[1] # NULL => functions[1].symbol \in Mains /\ functions[1].symbol < i
  <2>1. phase = "symbols" /\ i <= Len(symbols) /\ env' = env /\ current_landing_spot' = current_landing_spot
    BY Zenon DEF ReadSymbol
  <2>2. /\ IsObject(env.elf) /\ HasType("SYMTAB") /\ i \in Nat \ {0} /\ size \in Nat
        /\ functions \in Seq(S) /\ Len(functions) > 0
        /\ functions[1] # NULL => functions[1].symbol \in Mains /\ functions[1].symbol < i
    BY <2>1, Zenon DEF ElfRight, LoaderTyped, TablesFound, MainRead
  <2>3. i \in DOMAIN symbols
    BY <2>1, <2>2, SymbolTable DEF IsArray
  <2> QED
    BY <2>1, <2>2, <2>3, Zenon
<1>2. \/ MainOverwritten
      \/ TableExact(functions, i) /\ \E p : Prefix(p, functions, size)
  BY <1>1, Zenon DEF LayoutRight, LaidOut, Read
<1>3. FunctionSymbols \subseteq Nat
  BY <1>1, SymbolNumbers
<1>4. ASSUME phase' = "symbols", i' = i + 1, j' = j,
             \/ MainOverwritten
             \/ TableExact(functions', i + 1) /\ \E p : Prefix(p, functions', size')
      PROVE  Counters' /\ LaidOut'
  <2>1. Counters'
    BY <1>1, <1>4, Zenon DEF LayoutRight, Counters
  <2>2. Read' = i + 1 /\ Done' = 0
    BY <1>4, Zenon DEF Read, Done
  <2>3. \A p : Laid(p, functions', linked', 0)
    BY DEF Laid
  <2>4. MainOverwritten \/
          /\ TableExact(functions', Read')
          /\ \E p : /\ Prefix(p, functions', size') /\ Laid(p, functions', linked', Done')
                    /\ phase' = "copy" => current_landing_spot' = p[i' - 1]
    BY <1>4, <2>2, <2>3, Zenon
  <2> QED
    BY <1>1, <1>4, <2>1, <2>4, LayoutNext, Zenon
<1>5. CASE symbols[i].type # "FUNC" /\ i' = i + 1 /\ UNCHANGED <<phase, j, functions, size>>
  <2>1. ASSUME TableExact(functions, i) PROVE TableExact(functions, i + 1)
    <3>1. i \notin FunctionSymbols
      BY <1>5, Zenon DEF FunctionSymbols
    <3>2. \A s \in FunctionSymbols : s < i + 1 <=> s < i
      BY <1>1, <1>3, <3>1
    <3>3. \A f : Describes(f, i) => Describes(f, i + 1)
      BY <3>2, Zenon DEF Describes
    <3> QED
      BY <2>1, <3>2, <3>3, Zenon DEF TableExact
  <2> QED
    BY <1>1, <1>2, <1>4, <1>5, <2>1, Zenon
<1>6. CASE symbols[i].type = "FUNC" /\ AddFunction(symbols[i])
  <2> DEFINE sym == symbols[i]
             rf == [symbol |-> i, section |-> sym.shndx, start |-> sym.value, size |-> sym.size, landed |-> 0]
  <2>1. i \in FunctionSymbols
    BY <1>1, <1>6, Zenon DEF FunctionSymbols
  <2>2. CASE phase' = "error" /\ j' = j
    BY <2>2, LayoutLeft, Zenon DEF LayoutRight
  <2>3. CASE /\ IsCode(Section(sym.shndx))
             /\ functions' = IF IsMain(sym) THEN [functions EXCEPT ![1] = rf] ELSE Append(functions, rf)
             /\ size' = size + sym.size /\ i' = i + 1 /\ UNCHANGED <<phase, j>>
    <3>1. sym.shndx \in Nat /\ sym.value \in Nat /\ sym.size \in Nat
      BY <1>1, SymbolTable, Zenon DEF ElfRight, LoaderTyped
    <3>2. rf \in RelocatedFunctions /\ rf # NULL
      BY <1>1, <3>1, LoaderAssumption DEF RelocatedFunctions
    <3>3. rf.symbol = i /\ rf.size = sym.size /\ Describes(rf, i + 1)
      <4>1. i < i + 1
        BY <1>1
      <4> QED
        BY <2>1, <2>3, <4>1, Zenon DEF Describes
    <3> HIDE DEF rf, sym
    <3>4. size' = size + rf.size
      BY <2>3, <3>3, Zenon
    <3>5. Len(functions) \in Nat /\ DOMAIN functions = 1..Len(functions)
      BY <1>1, LenProperties, Zenon
    <3>6. MainOverwritten \/ (TableExact(functions', i + 1) /\ \E p : Prefix(p, functions', size'))
      <4> SUFFICES ASSUME ~MainOverwritten
                   PROVE  TableExact(functions', i + 1) /\ \E p : Prefix(p, functions', size')
        BY Zenon
      <4>1. TableExact(functions, i)
        BY <1>2, Zenon
      <4>2. PICK p : Prefix(p, functions, size)
        BY <1>2, Zenon
      <4>3. CASE IsMain(sym)
        <5>1. i \in Mains
          BY <2>1, <4>3, Zenon DEF Mains, sym
        <5>2. functions[1] = NULL
          <6>1. ASSUME functions[1] # NULL PROVE FALSE
            <7>1. functions[1].symbol # i
              BY <1>1, <6>1, SlotTyped
            <7> QED
              BY <1>1, <5>1, <6>1, <7>1, TwoMains, Zenon DEF ElfRight, LoaderTyped
          <6> QED
            BY <6>1, Zenon
        <5>3. functions' = [functions EXCEPT ![1] = rf]
          BY <2>3, <4>3, Zenon
        <5>4. \E q : Prefix(q, functions', size')
          BY <1>1, <3>2, <3>4, <4>2, <5>2, <5>3, PrefixMain, Zenon
        <5>5. /\ DOMAIN functions' = DOMAIN functions /\ 1 \in DOMAIN functions' /\ functions'[1] = rf
              /\ \A k \in DOMAIN functions : k # 1 => functions'[k] = functions[k]
          BY <1>1, <3>5, <5>3
        <5>6. TableExact(functions', i + 1)
          BY <1>1, <1>3, <3>2, <3>3, <4>1, <5>1, <5>2, <5>5, TableGrows
        <5> QED
          BY <5>4, <5>6, Zenon
      <4>4. CASE ~IsMain(sym)
        <5>1. functions' = Append(functions, rf)
          BY <2>3, <4>4, Zenon
        <5>2. \E q : Prefix(q, functions', size')
          BY <1>1, <3>2, <3>4, <4>2, <5>1, PrefixAppend, Zenon
        <5>3. DOMAIN functions' = 1..(Len(functions) + 1) /\ functions'[Len(functions) + 1] = rf
              /\ \A k \in 1..Len(functions) : functions'[k] = functions[k]
          BY <1>1, <3>2, <5>1, AppendProperties, LenProperties
        <5>4. /\ Len(functions) + 1 \in DOMAIN functions' /\ functions'[1] = functions[1]
              /\ \A k \in DOMAIN functions : k \in DOMAIN functions' /\ functions'[k] = functions[k] /\ k # Len(functions) + 1
              /\ \A k \in DOMAIN functions' : k = Len(functions) + 1 \/ (k \in DOMAIN functions /\ functions'[k] = functions[k])
          BY <1>1, <3>5, <5>3
        <5>5. functions'[1] # NULL => functions'[1].symbol \in Mains
          BY <4>1, <5>4, Zenon DEF TableExact
        <5>6. TableExact(functions', i + 1)
          <6>1. PICK at : at = Len(functions) + 1
            BY Zenon
          <6>2. i \in Nat /\ at \in DOMAIN functions' /\ functions'[at] = rf
            BY <1>1, <5>3, <5>4, <6>1, Zenon
          <6>3. \A k \in DOMAIN functions : functions[k] # NULL => k \in DOMAIN functions' /\ functions'[k] = functions[k] /\ k # at
            BY <5>4, <6>1, Zenon
          <6>4. \A k \in DOMAIN functions' : k = at \/ (k \in DOMAIN functions /\ functions'[k] = functions[k])
            BY <5>4, <6>1, Zenon
          <6> QED
            BY <1>3, <3>2, <3>3, <4>1, <5>5, <6>2, <6>3, <6>4, TableGrows, Zenon
        <5> QED
          BY <5>2, <5>6
      <4> QED
        BY <4>3, <4>4, Zenon
    <3> QED
      BY <1>1, <1>4, <2>3, <3>6, Zenon
  <2> QED
    BY <1>6, <2>2, <2>3, Zenon DEF AddFunction, Fail
<1> QED
  BY <1>5, <1>6, Zenon DEF ReadSymbol

\* The m-th of s places behind a.
LEMMA PlaceBehind ==
    ASSUME NEW n \in Nat, NEW a \in Nat, NEW s \in Nat, a + s <= n, NEW m \in 1..s
    PROVE  a + m \in 1..n /\ a + m \in (a + 1)..(a + s) /\ (a + m) - a = m
OBVIOUS

\* A place that ends before a is not among the c places behind it.
LEMMA PlaceBefore ==
    ASSUME NEW n \in Nat, NEW a \in Nat, a <= n, NEW c \in Nat,
           NEW b \in Nat, NEW s \in Nat, b + s <= a, NEW m \in 1..s
    PROVE  b + m \in 1..n /\ ~(b + m \in (a + 1)..(a + c))
OBVIOUS

\* A function is copied behind the ones before it.
LEMMA CopyLaid ==
    ASSUME IsObject(env.elf), HasType("SYMTAB"), Linkable,
           size \in Nat, functions \in Seq(RelocatedFunctions \cup {NULL}), \A k \in 1..Len(functions) : functions[k] # NULL,
           NEW read, TableExact(functions, read), NEW p, Prefix(p, functions, size),
           i \in 1..Len(functions), Laid(p, functions, linked, i - 1), current_landing_spot = p[i - 1],
           CopyFunction
    PROVE  /\ TableExact(functions', read) /\ Prefix(p, functions', size) /\ Laid(p, functions', linked', i)
           /\ p[i - 1] + functions[i].size = p[i]
<1> DEFINE L == Len(functions)
           g == [functions[i] EXCEPT !.landed = p[i - 1]]
<1>1. functions' = [functions EXCEPT ![i] = [functions[i] EXCEPT !.landed = p[i - 1]]]
  BY Zenon DEF CopyFunction
<1>2. linked' = [x \in 1..size |-> IF x \in (p[i - 1] + 1)..(p[i - 1] + functions[i].size)
                                  THEN NativeData(functions[i], x - p[i - 1]) ELSE linked[x]]
  BY Zenon DEF CopyFunction
<1>3. L \in Nat /\ DOMAIN functions = 1..L /\ \A k \in 1..L : functions[k] \in RelocatedFunctions
  OBVIOUS
<1>4. /\ p \in [0..L -> Nat] /\ p[L] = size
      /\ \A k \in 1..L : p[k] = p[k - 1] + SizeOf(functions[k])
      /\ \A k, l \in 0..L : k <= l => p[k] <= p[l]
  BY Zenon DEF Prefix
<1>5. i - 1 \in 0..L /\ i \in 0..L /\ i \in Nat /\ i <= L /\ L \in 0..L
  BY <1>3
<1>6. p[i - 1] \in Nat /\ p[i] \in Nat /\ p[i] <= size
  <2> HIDE DEF L
  <2>1. p[i] <= p[L]
    BY <1>4, <1>5, Zenon
  <2> QED
    BY <1>4, <1>5, <2>1, Zenon
<1>7. \A k \in 1..L : functions[k].size \in Nat /\ p[k] = p[k - 1] + functions[k].size
  BY <1>3, <1>4, Zenon DEF SizeOf, RelocatedFunctions
<1>8. p[i] = p[i - 1] + functions[i].size /\ functions[i].size \in Nat
  BY <1>7, Zenon
<1>9. /\ g \in RelocatedFunctions /\ g.landed = p[i - 1] /\ g.symbol = functions[i].symbol
      /\ g.section = functions[i].section /\ g.start = functions[i].start /\ g.size = functions[i].size
  BY <1>3, <1>6, Zenon DEF RelocatedFunctions
<1>10. g # NULL
  BY <1>9, LoaderAssumption, Zenon
<1> HIDE DEF L, g
<1>11. /\ DOMAIN functions' = 1..L /\ functions'[i] = g
      /\ \A k \in 1..L : k # i => functions'[k] = functions[k]
  BY <1>3, <1>1, Zenon DEF g, L
<1>12. Len(functions') = L
  BY <1>9, <1>1, ExceptSeq DEF g, L
<1>13. \A k \in 1..L : /\ functions'[k] # NULL /\ functions'[k].symbol = functions[k].symbol /\ functions'[k].section = functions[k].section
                       /\ functions'[k].start = functions[k].start /\ functions'[k].size = functions[k].size
  BY <1>9, <1>10, <1>11, Zenon DEF L
<1>14. \A k \in 1..L : Describes(functions[k], read)
  BY <1>3, Zenon DEF TableExact, L
<1>15. TableExact(functions', read)
  <2>1. \A k \in 1..L : Describes(functions'[k], read)
    BY <1>13, <1>14 DEF Describes
  <2>2. \A k, l \in 1..L : functions'[k].symbol = functions'[l].symbol => k = l
    BY <1>3, <1>13 DEF TableExact, L
  <2>3. \A s \in FunctionSymbols : s < read => \E k \in 1..L : functions'[k] # NULL /\ functions'[k].symbol = s
    BY <1>3, <1>13 DEF TableExact
  <2>4. functions'[1].symbol \in Mains
    <3>1. 1 \in 1..L
      BY <1>3 DEF L
    <3> QED
      BY <1>13, <3>1, Zenon DEF TableExact, L
  <2> QED
    BY <1>11, <2>1, <2>2, <2>3, <2>4, Zenon DEF TableExact
<1>16. Prefix(p, functions', size)
  <2>1. \A k \in 1..L : SizeOf(functions'[k]) = SizeOf(functions[k])
    BY <1>13, Zenon DEF SizeOf, L
  <2> QED
    BY <1>12, <2>1, Zenon DEF Prefix, L
<1>17. \A k, m : NativeData(functions'[k], m) = Section(functions'[k].section).data[functions'[k].start + m]
  BY Zenon DEF NativeData
<1>18. Laid(p, functions', linked', i)
  <2> SUFFICES ASSUME NEW k \in 1..i
               PROVE  functions'[k].landed = p[k - 1] /\ \A m \in 1..functions'[k].size : Placed(functions'[k], m, linked'[functions'[k].landed + m])
    <3>1. \A k \in 1..i : k \in 1..L
      BY <1>3, <1>5
    <3>2. \A k \in 1..i : functions'[k] # NULL
      BY <1>13, <3>1, Zenon
    <3> QED
      BY <3>2, Zenon DEF Laid
  <2>1. k \in 1..L /\ k - 1 \in 0..L /\ k \in 0..L
    BY <1>3 DEF L
  <2>2. CASE k = i
    <3>1. functions'[k] = g /\ functions'[k].landed = p[k - 1] /\ functions'[k].size = functions[i].size /\ functions[i].size \in Nat
      BY <1>7, <1>9, <1>11, <2>1, <2>2, Zenon
    <3>2. ASSUME NEW m \in 1..functions[i].size PROVE Placed(functions'[k], m, linked'[functions'[k].landed + m])
      <4>1. /\ p[i - 1] + m \in 1..size /\ p[i - 1] + m \in (p[i - 1] + 1)..(p[i - 1] + functions[i].size)
            /\ (p[i - 1] + m) - p[i - 1] = m
        BY <1>6, <1>8, PlaceBehind
      <4>2. linked'[p[i - 1] + m] = NativeData(functions[i], m)
        <5>1. linked'[p[i - 1] + m] = NativeData(functions[i], (p[i - 1] + m) - p[i - 1])
          BY <1>2, <4>1, Zenon
        <5> QED
          BY <4>1, <5>1, Zenon
      <4>3. NativeData(functions'[k], m) = NativeData(functions[i], m)
        BY <1>9, <3>1, Zenon DEF NativeData
      <4>4. IsInstruction(NativeData(functions[i], m))
        BY <1>14, NativeInstruction, Zenon DEF L
      <4> QED
        BY <2>2, <3>1, <4>2, <4>3, <4>4, Zenon DEF Placed
    <3> QED
      BY <3>1, <3>2, Zenon
  <2>3. CASE k # i
    <3>1. k \in 1..(i - 1) /\ functions'[k] = functions[k] /\ k <= i - 1
      BY <1>5, <1>11, <2>1, <2>3
    <3>2. functions[k].landed = p[k - 1] /\ \A m \in 1..functions[k].size : Placed(functions[k], m, linked[functions[k].landed + m])
      BY <3>1, Zenon DEF Laid
    <3>3. p[k - 1] \in Nat /\ p[k] <= p[i - 1] /\ functions[k].size \in Nat /\ p[k] = p[k - 1] + functions[k].size /\ p[i - 1] <= p[i]
      <4>1. p[k - 1] \in Nat /\ functions[k].size \in Nat /\ p[k] = p[k - 1] + functions[k].size
        BY <1>4, <1>7, <2>1, Zenon
      <4>2. p[k] <= p[i - 1] /\ i - 1 <= i
        BY <1>4, <1>5, <2>1, <3>1
      <4> QED
        BY <1>4, <1>5, <4>1, <4>2, Zenon
    <3>4. ASSUME NEW m \in 1..functions[k].size PROVE linked'[functions[k].landed + m] = linked[functions[k].landed + m]
      <4>1. p[k - 1] + m \in 1..size /\ ~(p[k - 1] + m \in (p[i - 1] + 1)..(p[i - 1] + functions[i].size))
        <5>1. p[i - 1] <= size /\ p[k - 1] + functions[k].size <= p[i - 1]
          BY <1>6, <3>3
        <5> QED
          BY <1>6, <1>8, <3>3, <5>1, PlaceBefore, Zenon
      <4> QED
        BY <1>2, <3>2, <4>1, Zenon
    <3> QED
      BY <3>1, <3>2, <3>4, Zenon
  <2> QED
    BY <2>2, <2>3, Zenon
<1> QED
  BY <1>7, <1>15, <1>16, <1>18 DEF L

\* The program is allocated: nothing is copied yet.
LEMMA LinkLaid ==
    ASSUME ElfRight, LayoutRight, Link
    PROVE  Counters' /\ LaidOut'
<1>1. phase = "symbols" /\ i > Len(symbols) /\ env' = env /\ current_landing_spot' = current_landing_spot
  BY Zenon DEF Link
<1>2. CASE Fail
  BY <1>2, LayoutLeft DEF Fail, LayoutRight
<1>3. CASE phase' = "copy" /\ i' = 1 /\ UNCHANGED <<j, functions, size>>
  <2>1. HasType("SYMTAB") /\ i \in Nat
    BY <1>1, Zenon DEF ElfRight, LoaderTyped, TablesFound
  <2>2. \A s \in FunctionSymbols : s \in Nat /\ s < i /\ s < Len(symbols) + 1
    BY <1>1, <2>1, SymbolNumbers
  <2>3. Counters'
    BY <1>1, <1>3, Zenon DEF LayoutRight, Counters
  <2>4. Read' = Len(symbols) + 1 /\ Done' = 0 /\ i' - 1 = 0 /\ current_landing_spot' = 0
    BY <1>1, <1>3, ObjectKept DEF LayoutRight, Counters, Read, Done
  <2>5. \/ MainOverwritten
        \/ TableExact(functions, i) /\ \E p : Prefix(p, functions, size)
    BY <1>1, Zenon DEF LayoutRight, LaidOut, Read
  <2>6. ASSUME TableExact(functions, i) PROVE TableExact(functions, Len(symbols) + 1)
    <3>1. \A f : Describes(f, i) => Describes(f, Len(symbols) + 1)
      BY <2>2, Zenon DEF Describes
    <3> QED
      BY <2>2, <2>6, <3>1, Zenon DEF TableExact
  <2>7. \A p : Laid(p, functions', linked', 0)
    BY DEF Laid
  <2>8. \A p : Prefix(p, functions, size) => p[0] = 0
    BY Zenon DEF Prefix
  <2>9. MainOverwritten \/
          /\ TableExact(functions', Read')
          /\ \E p : /\ Prefix(p, functions', size') /\ Laid(p, functions', linked', Done')
                    /\ phase' = "copy" => current_landing_spot' = p[i' - 1]
    BY <1>3, <2>4, <2>5, <2>6, <2>7, <2>8
  <2> QED
    BY <1>1, <1>3, <2>3, <2>9, LayoutNext
<1> QED
  BY <1>2, <1>3, Zenon DEF Link

\* A function is copied.
LEMMA CopyFunctionLaid ==
    ASSUME ElfRight, LayoutRight, CopyFunction
    PROVE  Counters' /\ LaidOut'
<1>1. /\ phase = "copy" /\ env' = env /\ size' = size /\ j' = j
      /\ current_landing_spot' = current_landing_spot + functions[i].size
  BY Zenon DEF CopyFunction
<1>2. IF i < Len(functions) THEN i' = i + 1 /\ phase' = "copy" ELSE i' = 1 /\ phase' = "relocate"
  BY <1>1, Zenon DEF CopyFunction
<1>3. functions' = [functions EXCEPT ![i] = [functions[i] EXCEPT !.landed = current_landing_spot]]
  BY Zenon DEF CopyFunction
<1>4. linked' = [x \in 1..size |-> IF x \in (current_landing_spot + 1)..(current_landing_spot + functions[i].size)
                                   THEN NativeData(functions[i], x - current_landing_spot) ELSE linked[x]]
  BY Zenon DEF CopyFunction
<1>5. /\ IsObject(env.elf) /\ HasType("SYMTAB") /\ Linkable /\ size \in Nat
      /\ functions \in Seq(RelocatedFunctions \cup {NULL}) /\ i \in 1..Len(functions) /\ i \in Nat
      /\ \A k \in 1..Len(functions) : functions[k] # NULL
  BY <1>1 DEF ElfRight, LoaderTyped, TablesFound, LayoutRight
<1>6. Counters'
  BY <1>1, <1>2 DEF LayoutRight, Counters
<1>7. Len(functions') = Len(functions)
  <2>1. [functions[i] EXCEPT !.landed = current_landing_spot] \in RelocatedFunctions \cup {NULL}
    <3>1. functions[i] \in RelocatedFunctions /\ current_landing_spot \in Nat
      BY <1>5 DEF ElfRight, LoaderTyped
    <3> QED
      BY <3>1, Zenon DEF RelocatedFunctions
  <2> QED
    BY <1>3, <1>5, <2>1, ExceptSeq
<1>8. Read' = Read /\ Done' = i /\ Done = i - 1 /\ i' - 1 = IF i < Len(functions) THEN i ELSE 0
  <2>1. Len(functions) \in Nat
    BY <1>5
  <2> QED
    BY <1>1, <1>2, <1>5, <1>7, <2>1, ObjectKept DEF Read, Done
<1>9. MainOverwritten \/
        /\ TableExact(functions', Read')
        /\ \E p : /\ Prefix(p, functions', size') /\ Laid(p, functions', linked', Done')
                  /\ phase' = "copy" => current_landing_spot' = p[i' - 1]
  <2> SUFFICES ASSUME ~MainOverwritten
               PROVE  /\ TableExact(functions', Read)
                      /\ \E p : /\ Prefix(p, functions', size) /\ Laid(p, functions', linked', i)
                                /\ phase' = "copy" => current_landing_spot' = p[i' - 1]
    BY <1>1, <1>8, Zenon
  <2>1. PICK p : /\ Prefix(p, functions, size) /\ Laid(p, functions, linked, i - 1)
                 /\ current_landing_spot = p[i - 1] /\ TableExact(functions, Read)
    <3>1. LaidOut /\ phase \in {"symbols", "copy", "relocate", "load"}
      BY <1>1, Zenon DEF LayoutRight
    <3> QED
      BY <1>1, <1>8, <3>1, Zenon DEF LaidOut
  <2>2. /\ TableExact(functions', Read) /\ Prefix(p, functions', size) /\ Laid(p, functions', linked', i)
        /\ p[i - 1] + functions[i].size = p[i]
    BY <1>5, <2>1, CopyLaid, Zenon
  <2>3. phase' = "copy" => current_landing_spot' = p[i' - 1]
    BY <1>1, <1>2, <1>8, <2>1, <2>2, Zenon
  <2> QED
    BY <2>2, <2>3, Zenon
<1> QED
  BY <1>1, <1>2, <1>6, <1>9, LayoutNext

\* A function lies inside the program, behind the ones before it.
LEMMA Landed ==
    ASSUME functions \in Seq(RelocatedFunctions \cup {NULL}), size \in Nat,
           NEW p, Prefix(p, functions, size), Laid(p, functions, linked, Len(functions)),
           NEW k \in 1..Len(functions)
    PROVE  /\ functions[k] \in RelocatedFunctions /\ functions[k].landed = p[k - 1] /\ functions[k].landed \in Nat
           /\ functions[k].size \in Nat /\ functions[k].landed + functions[k].size = p[k] /\ p[k] <= size
           /\ \A m \in 1..functions[k].size : functions[k].landed + m \in 1..size
<1> DEFINE L == Len(functions)
<1>1. /\ p \in [0..L -> Nat] /\ p[L] = size
      /\ p[k] = p[k - 1] + SizeOf(functions[k])
      /\ \A l, m \in 0..L : l <= m => p[l] <= p[m]
  BY Zenon DEF Prefix
<1>2. functions[k] # NULL /\ functions[k].landed = p[k - 1]
  BY Zenon DEF Laid
<1>3. k - 1 \in 0..L /\ k \in 0..L /\ L \in 0..L /\ k <= L
  OBVIOUS
<1>4. functions[k] \in RelocatedFunctions
  BY <1>2
<1>5. functions[k].size \in Nat /\ p[k] = p[k - 1] + functions[k].size
  BY <1>1, <1>2, <1>4, Zenon DEF SizeOf, RelocatedFunctions
<1> HIDE DEF L
<1>6. p[k - 1] \in Nat /\ p[k] <= size
  BY <1>1, <1>3, Zenon
<1>7. \A m \in 1..functions[k].size : p[k - 1] + m \in 1..size
  BY <1>5, <1>6, PlaceBehind
<1> QED
  BY <1>2, <1>4, <1>5, <1>6, <1>7, Zenon

\* Writing the immediates of an LDDW.
LEMMA TwoImmediates ==
    ASSUME IsTable(linked, size), NEW at \in Int, linked[at].opcode = "lddw", NEW a, NEW b
    PROVE  Writes(at, [linked EXCEPT ![at].imm = a, ![at + 1].imm = b])
<1> DEFINE h == [linked EXCEPT ![at].imm = a]
           g == [h EXCEPT ![at + 1].imm = b]
<1>1. ASSUME NEW x \in 1..size
      PROVE  \/ g[x] = linked[x]
             \/ /\ x = at \/ x = at + 1
                /\ Rewritten(linked[x], g[x])
  <2>1. x \in DOMAIN linked /\ DOMAIN h = DOMAIN linked
    BY Zenon DEF IsTable
  <2>2. h[x] = IF x = at THEN [linked[x] EXCEPT !.imm = a] ELSE linked[x]
    BY <2>1, Zenon
  <2> HIDE DEF h
  <2>3. g[x] = IF x = at + 1 THEN [h[x] EXCEPT !.imm = b] ELSE h[x]
    BY <2>1, Zenon
  <2>4. at # at + 1
    OBVIOUS
  <2> HIDE DEF g
  <2>5. CASE x = at
    BY <2>2, <2>3, <2>4, <2>5, Zenon DEF Rewritten
  <2>6. CASE x = at + 1
    BY <2>2, <2>3, <2>4, <2>6, Zenon DEF Rewritten
  <2>7. CASE x # at /\ x # at + 1
    BY <2>2, <2>3, <2>7, Zenon
  <2> QED
    BY <2>5, <2>6, <2>7, Zenon
<1>2. g = [linked EXCEPT ![at].imm = a, ![at + 1].imm = b]
  BY Zenon
<1> HIDE DEF g
<1> QED
  BY <1>1, <1>2, Zenon DEF Writes

\* Writing the immediate of an instruction.
LEMMA OneImmediate ==
    ASSUME IsTable(linked, size), NEW at, NEW a
    PROVE  Writes(at, [linked EXCEPT ![at].imm = a])
<1> DEFINE g == [linked EXCEPT ![at].imm = a]
<1>1. ASSUME NEW x \in 1..size PROVE g[x] = linked[x] \/ (x = at /\ Rewritten(linked[x], g[x]))
  <2>1. x \in DOMAIN linked
    BY Zenon DEF IsTable
  <2>2. g[x] = IF x = at THEN [linked[x] EXCEPT !.imm = a] ELSE linked[x]
    BY <2>1, Zenon
  <2> HIDE DEF g
  <2> QED
    BY <2>2, Zenon DEF Rewritten
<1> HIDE DEF g
<1>2. Writes(at, g)
  BY <1>1, Zenon DEF Writes
<1> QED
  BY <1>2, Zenon DEF g


\* The three kinds of relocation that write.
LEMMA RelocationWrites ==
    ASSUME IsTable(linked, size), NEW r, NEW sym, NEW at \in Int
    PROVE  /\ RelocateData(r, sym, at) # NULL => Writes(at, RelocateData(r, sym, at))
           /\ RelocateCall(sym, at) # NULL => Writes(at, RelocateCall(sym, at))
           /\ RelocateHelper(sym, at) # NULL => Writes(at, RelocateHelper(sym, at))
           /\ Writes(at, linked)
<1>1. \A c : Writes(at, [linked EXCEPT ![at].imm = c])
  BY OneImmediate, Zenon
<1>2. ASSUME linked[at].opcode = "lddw", NEW a, NEW b
      PROVE  Writes(at, [linked EXCEPT ![at].imm = a, ![at + 1].imm = b])
  BY <1>2, TwoImmediates, Zenon
<1>3. RelocateData(r, sym, at) # NULL => Writes(at, RelocateData(r, sym, at))
  BY <1>2, Zenon DEF RelocateData, DataRelocatable
<1>4. RelocateCall(sym, at) # NULL => Writes(at, RelocateCall(sym, at))
  BY <1>1, Zenon DEF RelocateCall
<1>5. RelocateHelper(sym, at) # NULL => Writes(at, RelocateHelper(sym, at))
  BY <1>1, Zenon DEF RelocateHelper
<1>6. Writes(at, linked)
  BY Zenon DEF Writes
<1> QED
  BY <1>3, <1>4, <1>5, <1>6, Zenon

\* The place of a usable relocation: a function of the section that holds it is found, and
\* the relocation writes where that function landed.
LEMMA RelocationPlace ==
    ASSUME NEW r, RelocationUsable(r), Relocate(r) # NULL, IsTable(linked, size),
           functions \in Seq(RelocatedFunctions \cup {NULL}),
           \A k \in 1..Len(functions) : functions[k] \in RelocatedFunctions
    PROVE  \E k \in 1..Len(functions) :
              /\ functions[k].section = sections[i].info
              /\ r.offset \in functions[k].start..(functions[k].start + functions[k].size - 1)
              /\ Writes(functions[k].landed + (r.offset - functions[k].start) + 1, Relocate(r))
<1> DEFINE K == Min(Holders(r))
           at == functions[K].landed + (r.offset - functions[K].start) + 1
           sym == Section(sections[i].link).data[r.symbol + 1]
<1>1. K \in Holders(r)
  <2>1. Holders(r) # {} /\ Holders(r) \in SUBSET Nat
    BY DEF RelocationUsable, Holders
  <2>2. \E k \in Holders(r) : \A l \in Holders(r) : k <= l
    BY <2>1, LeastElement, Zenon
  <2> QED
    BY <2>2, Zenon DEF Min
<1>2. DOMAIN functions = 1..Len(functions)
  OBVIOUS
<1>3. K \in 1..Len(functions)
  BY <1>1, <1>2, Zenon DEF Holders
<1>4. /\ functions[K].section = sections[i].info
      /\ r.offset \in functions[K].start..(functions[K].start + functions[K].size - 1)
  BY <1>1, Zenon DEF Holders
<1>5. Relocate(r) \in {RelocateData(r, sym, at), RelocateCall(sym, at), RelocateHelper(sym, at), linked}
  BY Zenon DEF Relocate
<1> HIDE DEF K, sym
<1>6. at \in Int
  BY <1>3, <1>4 DEF RelocatedFunctions
<1> HIDE DEF at
<1>7. /\ RelocateData(r, sym, at) # NULL => Writes(at, RelocateData(r, sym, at))
      /\ RelocateCall(sym, at) # NULL => Writes(at, RelocateCall(sym, at))
      /\ RelocateHelper(sym, at) # NULL => Writes(at, RelocateHelper(sym, at))
      /\ Writes(at, linked)
  BY <1>6, RelocationWrites, Zenon
<1>8. \/ Relocate(r) = RelocateData(r, sym, at) \/ Relocate(r) = RelocateCall(sym, at)
      \/ Relocate(r) = RelocateHelper(sym, at) \/ Relocate(r) = linked
  BY <1>5, Zenon
<1>9. Writes(at, Relocate(r))
  <2>1. CASE Relocate(r) = RelocateData(r, sym, at)
    BY <1>7, <2>1, Zenon
  <2>2. CASE Relocate(r) = RelocateCall(sym, at)
    BY <1>7, <2>2, Zenon
  <2>3. CASE Relocate(r) = RelocateHelper(sym, at)
    BY <1>7, <2>3, Zenon
  <2>4. CASE Relocate(r) = linked
    BY <1>7, <2>4, Zenon
  <2> QED
    BY <1>8, <2>1, <2>2, <2>3, <2>4, Zenon
<1>10. Writes(functions[K].landed + (r.offset - functions[K].start) + 1, Relocate(r))
  BY <1>9, Zenon DEF at
<1> QED
  BY <1>3, <1>4, <1>10, Zenon

\* A relocation is applied or refused.
LEMMA ApplyRelocationLaid ==
    ASSUME ElfRight, LayoutRight, ApplyRelocation
    PROVE  Counters' /\ LaidOut'
<1> DEFINE r == sections[i].data[j]
<1>1. phase = "relocate" /\ env' = env /\ j > 0 /\ j <= Len(sections[i].data)
  BY Zenon DEF ApplyRelocation
<1>2. CASE Fail
  BY <1>2, LayoutLeft, Zenon DEF Fail, LayoutRight
<1>3. CASE RelocationUsable(r) /\ Relocate(r) # NULL /\ linked' = Relocate(r) /\ j' = j + 1
           /\ UNCHANGED <<phase, i, functions, size>>
  <2>1. /\ IsObject(env.elf) /\ HasType("SYMTAB") /\ size \in Nat /\ IsTable(linked, size) /\ i \in Nat
        /\ functions \in Seq(RelocatedFunctions \cup {NULL}) /\ Linkable /\ j \in Nat
    BY <1>1, Zenon DEF ElfRight, LoaderTyped, TablesFound, LayoutRight, Counters
  <2>2. i \in DOMAIN sections /\ sections[i].type = "REL" /\ IsCode(Section(sections[i].info))
    BY <1>1, Zenon DEF LayoutRight, Counters
  <2>3. PlaceOf(sections[i], r) \in RelocatedPlaces
    <3>1. IsArray(sections[i].data)
      BY <2>1, <2>2, Zenon DEF IsObject, sections
    <3>2. j \in DOMAIN sections[i].data
      BY <1>1, <2>1, <3>1 DEF IsArray
    <3> DEFINE Rels == {l \in DOMAIN sections : sections[l].type = "REL"}
               PlacesOf(k) == {PlaceOf(sections[k], sections[k].data[l]) : l \in DOMAIN sections[k].data}
    <3>3. PlaceOf(sections[i], r) \in PlacesOf(i) /\ i \in Rels
      BY <2>2, <3>2, Zenon
    <3> HIDE DEF r
    <3> QED
      BY <3>3, Zenon DEF RelocatedPlaces
  <2> HIDE DEF r
  <2>4. Counters'
    <3>1. /\ sections' = sections /\ j' \in Nat
          /\ (IsCode(Section(sections[i].info)))' <=> IsCode(Section(sections[i].info))
      BY <1>1, <1>3, <2>1, ObjectKept DEF Section
    <3> QED
      BY <1>1, <1>3, <2>2, <3>1, Zenon DEF Counters
  <2>5. MainOverwritten \/
          /\ TableExact(functions', Read')
          /\ \E p : /\ Prefix(p, functions', size') /\ Laid(p, functions', linked', Done')
                    /\ phase' = "copy" => current_landing_spot' = p[i' - 1]
    <3> SUFFICES ASSUME ~MainOverwritten
                 PROVE  /\ TableExact(functions, Read)
                        /\ \E p : Prefix(p, functions, size) /\ Laid(p, functions, linked', Len(functions))
      <4>1. Read' = Read /\ Done' = Len(functions) /\ phase' = "relocate"
        BY <1>1, <1>3, ObjectKept, Zenon DEF Read, Done
      <4> QED
        BY <1>3, <4>1, Zenon
    <3>1. PICK p : /\ Prefix(p, functions, size) /\ Laid(p, functions, linked, Len(functions))
                   /\ TableExact(functions, Read)
      <4>1. Done = Len(functions) /\ LaidOut
        BY <1>1, Zenon DEF Done, LayoutRight
      <4> QED
        BY <1>1, <4>1, Zenon DEF LaidOut
    <3>2. \A k \in 1..Len(functions) :
             /\ functions[k] \in RelocatedFunctions /\ functions[k].landed \in Nat
             /\ \A m \in 1..functions[k].size : functions[k].landed + m \in 1..size
      BY <2>1, <3>1, Landed, Zenon
    <3>3. PICK k \in 1..Len(functions) :
              /\ functions[k].section = sections[i].info
              /\ r.offset \in functions[k].start..(functions[k].start + functions[k].size - 1)
              /\ Writes(functions[k].landed + (r.offset - functions[k].start) + 1, Relocate(r))
      BY <1>3, <2>1, <3>2, RelocationPlace, Zenon
    <3>4. \A l \in 1..Len(functions) : Describes(functions[l], Read)
      <4>1. DOMAIN functions = 1..Len(functions) /\ \A l \in 1..Len(functions) : functions[l] # NULL
        BY <2>1, <3>2, LenProperties, LoaderAssumption, Zenon
      <4> QED
        BY <3>1, <4>1, Zenon DEF TableExact
    <3>5. /\ functions[k].landed \in Nat /\ functions[k].start \in Nat /\ functions[k].size \in Nat
          /\ r.offset \in Int
      BY <3>2, <3>3 DEF RelocatedFunctions
    <3> DEFINE m == (r.offset - functions[k].start) + 1
    <3>6. /\ m \in 1..functions[k].size /\ functions[k].start + m - 1 = r.offset
          /\ functions[k].landed + (r.offset - functions[k].start) + 1 = functions[k].landed + m
      <4>1. Numbered(functions[k].start, functions[k].size, functions[k].landed, r.offset, m)
        BY <3>3, <3>5, OffsetPlace, Zenon
      <4> HIDE DEF m
      <4> QED
        BY <4>1, Zenon DEF Numbered
    <3> HIDE DEF m
    <3>7. NativeData(functions[k], m).origin = <<functions[k].section, functions[k].start + m - 1>>
      BY <2>1, <3>4, <3>6, NativeInstruction, Zenon
    <3>8. NativeData(functions[k], m).origin \in RelocatedPlaces
      BY <2>3, <3>3, <3>6, <3>7, Zenon DEF PlaceOf
    <3>9. Writes(functions[k].landed + m, linked')
      BY <1>3, <3>3, <3>6, Zenon
    <3>10. Laid(p, functions, linked', Len(functions))
      <4>1. Len(functions) \in Nat
        BY <2>1
      <4>2. functions[k].landed \in Nat
        BY <3>5, Zenon
      <4> QED
        BY <1>1, <2>1, <3>1, <3>2, <3>4, <3>6, <3>8, <3>9, <4>1, <4>2, ImmediatesLaid, Zenon
    <3> QED
      BY <3>1, <3>10, Zenon
  <2> QED
    BY <1>1, <1>3, <2>4, <2>5, LayoutNext
<1> QED
  BY <1>2, <1>3, Zenon DEF ApplyRelocation

\* The table and the program are left alone while relocations are looked for.
LEMMA RelocatingLaid ==
    ASSUME LaidOut, phase = "relocate", phase' \in {"relocate", "load"},
           UNCHANGED <<env, functions, size, linked>>
    PROVE  LaidOut'
<1>1. Read' = Read /\ Done' = Done
  BY ObjectKept, Zenon DEF Read, Done
<1>2. MainOverwritten \/
        /\ TableExact(functions', Read')
        /\ \E p : /\ Prefix(p, functions', size') /\ Laid(p, functions', linked', Done')
                  /\ phase' = "copy" => current_landing_spot' = p[i' - 1]
  <2>1. functions' = functions /\ size' = size /\ linked' = linked /\ phase' # "copy"
    BY Zenon
  <2> QED
    BY <1>1, <2>1, Zenon DEF LaidOut
<1> QED
  BY <1>2, LayoutNext, Zenon

\* The relocations of a section begin or end.
LEMMA SectionsLaid ==
    ASSUME ElfRight, LayoutRight, EnterSection \/ LeaveSection
    PROVE  Counters' /\ LaidOut'
<1>1. phase = "relocate" /\ env' = env
  BY Zenon DEF EnterSection, LeaveSection
<1>2. CASE Fail
  BY <1>2, LayoutLeft, Zenon DEF Fail, LayoutRight
<1>3. CASE phase' = phase /\ j' = 0 /\ UNCHANGED <<functions, size, linked>>
  <2>1. Counters'
    BY <1>1, <1>3 DEF Counters
  <2> QED
    BY <1>1, <1>3, <2>1, RelocatingLaid, Zenon DEF LayoutRight
<1>4. CASE /\ phase' = phase /\ i' = i /\ j' = 1 /\ UNCHANGED <<functions, size, linked>>
           /\ i <= section_count /\ sections[i].type = "REL" /\ IsCode(Section(sections[i].info))
  <2>1. i \in DOMAIN sections
    <3>1. i \in Nat \ {0} /\ IsArray(sections)
      BY Zenon DEF ElfRight, LoaderTyped, IsObject, sections
    <3> QED
      BY <1>4, <3>1 DEF IsArray, section_count
  <2>2. sections' = sections /\ (IsCode(Section(sections[i].info)))' <=> IsCode(Section(sections[i].info))
    BY <1>1, <1>4, ObjectKept, Zenon DEF Section, IsCode
  <2>3. Counters'
    BY <1>1, <1>4, <2>1, <2>2, Zenon DEF Counters
  <2> QED
    BY <1>1, <1>4, <2>3, RelocatingLaid, Zenon DEF LayoutRight
<1>5. CASE LeaveSection
  BY <1>3, <1>5, Zenon DEF LeaveSection
<1>6. CASE EnterSection
  <2>1. j' = j => j' = 0
    BY <1>6, Zenon DEF EnterSection
  <2> QED
    BY <1>2, <1>3, <1>4, <1>6, <2>1, Zenon DEF EnterSection
<1> QED
  BY <1>5, <1>6, Zenon

\* The linked program is given to ubpf_load.
LEMMA StartLoadLaid ==
    ASSUME ElfRight, LayoutRight, StartLoad
    PROVE  Counters' /\ LaidOut'
<1>1. phase = "relocate" /\ phase' = "load" /\ UNCHANGED <<env, i, j, functions, size, linked>>
  BY Zenon DEF StartLoad
<1>2. HasType("SYMTAB") /\ Len(functions) > 0
  BY <1>1, Zenon DEF ElfRight, TablesFound
<1>3. (HasType("SYMTAB"))' = HasType("SYMTAB")
  BY <1>1, ObjectKept, Zenon
<1>4. Counters'
  BY <1>1, <1>2, <1>3, Zenon DEF LayoutRight, Counters
<1> QED
  BY <1>1, <1>4, RelocatingLaid, Zenon DEF LayoutRight

\* Steps of the validation and of the other threads.
LEMMA LoaderIdleLaid ==
    ASSUME LayoutRight, UNCHANGED elf_vars
    PROVE  Counters' /\ LaidOut'
<1>1. /\ env' = env /\ phase' = phase /\ i' = i /\ j' = j /\ functions' = functions /\ size' = size
      /\ linked' = linked /\ current_landing_spot' = current_landing_spot
  BY Zenon DEF elf_vars
<1>2. sections' = sections /\ (HasType("SYMTAB"))' = HasType("SYMTAB")
  BY <1>1, ObjectKept, Zenon
<1>3. (IsCode(Section(sections[i].info)))' <=> IsCode(Section(sections[i].info))
  BY <1>1, <1>2, Zenon DEF Section, IsCode
<1>4. Counters'
  BY <1>1, <1>2, <1>3, Zenon DEF LayoutRight, Counters
<1> QED
  BY <1>1, <1>4, LayoutSame, Zenon DEF LayoutRight

\* The layout is right before the call does anything.
LEMMA LayoutInit == Init /\ Linkable => LayoutRight
BY DEF Init, LoaderInit, LayoutRight, Counters, LaidOut

\* Every step keeps it right.
LEMMA LayoutStep == ElfRight /\ LayoutRight /\ [Next]_vars => LayoutRight'
<1> SUFFICES ASSUME ElfRight, LayoutRight, [Next]_vars PROVE LayoutRight'
  BY Zenon
<1>1. env' = env
  BY Zenon DEF Next, LoaderStep, OtherStep, CheckHeader, ReadSection, FindTables, ReadSymbol, Link, CopyFunction,
     EnterSection, ApplyRelocation, LeaveSection, StartLoad, FinishLoad, ReturnError, elf_vars, vars
<1>2. Linkable'
  BY <1>1, LinkableKept, Zenon DEF LayoutRight
<1>3. CASE CheckHeader \/ ReadSection
  BY <1>2, <1>3, HeadersLaid, Zenon DEF LayoutRight
<1>4. CASE FindTables
  BY <1>2, <1>4, FindTablesLaid, Zenon DEF LayoutRight
<1>5. CASE ReadSymbol
  BY <1>2, <1>5, ReadSymbolLaid, Zenon DEF LayoutRight
<1>6. CASE Link
  BY <1>2, <1>6, LinkLaid, Zenon DEF LayoutRight
<1>7. CASE CopyFunction
  BY <1>2, <1>7, CopyFunctionLaid, Zenon DEF LayoutRight
<1>8. CASE EnterSection \/ LeaveSection
  BY <1>2, <1>8, SectionsLaid, Zenon DEF LayoutRight
<1>9. CASE ApplyRelocation
  BY <1>2, <1>9, ApplyRelocationLaid, Zenon DEF LayoutRight
<1>10. CASE StartLoad
  BY <1>2, <1>10, StartLoadLaid, Zenon DEF LayoutRight
<1>11. CASE FinishLoad \/ ReturnError
  <2>1. phase' = "returned" /\ j' = j
    BY <1>11, Zenon DEF FinishLoad, ReturnError
  <2>2. Counters' /\ LaidOut'
    BY <2>1, LayoutLeft, Zenon DEF LayoutRight
  <2> QED
    BY <1>2, <2>2, Zenon DEF LayoutRight
<1>12. CASE UNCHANGED elf_vars
  BY <1>2, <1>12, LoaderIdleLaid, Zenon DEF LayoutRight
<1>13. CASE UNCHANGED vars
  BY <1>12, <1>13, Zenon DEF vars
<1> QED
  BY <1>3, <1>4, <1>5, <1>6, <1>7, <1>8, <1>9, <1>10, <1>11, <1>12, <1>13, Zenon DEF Next, LoaderStep, OtherStep

\* The linked program: a run of instructions for each function of the object, no two of
\* them from the same place, and nothing else.
Image ==
    /\ size \in Nat /\ DOMAIN linked = 1..size /\ Len(linked) = size
    /\ \A k \in 1..Len(functions) :
          /\ functions[k] \in RelocatedFunctions /\ Describes(functions[k], Len(symbols) + 1)
          /\ \A m \in 1..functions[k].size :
                /\ functions[k].landed + m \in 1..size
                /\ Placed(functions[k], m, linked[functions[k].landed + m])
                /\ linked[functions[k].landed + m].origin = <<functions[k].section, functions[k].start + m - 1>>
    /\ \A x \in 1..size : \E k \in 1..Len(functions) : \E m \in 1..functions[k].size : x = functions[k].landed + m
    /\ \A s \in FunctionSymbols : \E k \in 1..Len(functions) : functions[k].symbol = s
    /\ \A x, y \in 1..size : linked[x].origin = linked[y].origin => x = y

\* Two instructions from the same place are of the same function, as functions lie apart.
LEMMA FunctionsApart ==
    ASSUME IsObject(env.elf), HasType("SYMTAB"), Linkable, NEW f, NEW g, NEW read,
           f \in RelocatedFunctions, g \in RelocatedFunctions, Describes(f, read), Describes(g, read),
           NEW m \in 1..f.size, NEW n \in 1..g.size,
           f.section = g.section, f.start + m - 1 = g.start + n - 1
    PROVE  f.symbol = g.symbol
<1> SUFFICES ASSUME f.symbol # g.symbol PROVE FALSE
  BY Zenon
<1>1. /\ f.symbol \in FunctionSymbols /\ g.symbol \in FunctionSymbols
      /\ symbols[f.symbol].shndx = symbols[g.symbol].shndx
      /\ symbols[f.symbol].value = f.start /\ symbols[f.symbol].size = f.size
      /\ symbols[g.symbol].value = g.start /\ symbols[g.symbol].size = g.size
  BY Zenon DEF Describes
<1>2. f.start + f.size <= g.start \/ g.start + g.size <= f.start
  <2>1. \A a, b \in FunctionSymbols : a # b /\ symbols[a].shndx = symbols[b].shndx =>
           \/ symbols[a].value + symbols[a].size <= symbols[b].value
           \/ symbols[b].value + symbols[b].size <= symbols[a].value
    BY Zenon DEF Linkable
  <2> QED
    BY <1>1, <2>1, Zenon
<1>3. f.start \in Nat /\ f.size \in Nat /\ g.start \in Nat /\ g.size \in Nat
  BY Zenon DEF RelocatedFunctions
<1> QED
  BY <1>2, <1>3

\* What the invariant says once all functions are copied.
LEMMA ImageLaid ==
    ASSUME ElfRight, LayoutRight, phase \in {"relocate", "load"}, ~MainOverwritten
    PROVE  Image
<1> DEFINE L == Len(functions)
<1>1. /\ IsObject(env.elf) /\ size \in Nat /\ IsTable(linked, size)
      /\ functions \in Seq(RelocatedFunctions \cup {NULL}) /\ Linkable
  BY Zenon DEF ElfRight, LoaderTyped, LayoutRight
<1>2. HasType("SYMTAB")
  BY Zenon DEF ElfRight, TablesFound, LayoutRight, Counters
<1>3. PICK p : /\ Prefix(p, functions, size) /\ Laid(p, functions, linked, L)
               /\ TableExact(functions, Len(symbols) + 1)
  <2>1. Done = L /\ Read = Len(symbols) + 1 /\ LaidOut
    BY Zenon DEF Done, Read, LayoutRight
  <2> QED
    BY <2>1, Zenon DEF LaidOut
<1>4. DOMAIN linked = 1..size /\ Len(linked) = size
  BY <1>1, TableIsArray, Zenon DEF IsTable
<1>5. \A k \in 1..L :
         /\ functions[k] \in RelocatedFunctions /\ functions[k].landed = p[k - 1] /\ functions[k].landed \in Nat
         /\ functions[k].size \in Nat /\ functions[k].landed + functions[k].size = p[k]
         /\ \A m \in 1..functions[k].size : functions[k].landed + m \in 1..size
  BY <1>1, <1>3, Landed, Zenon
<1>6. DOMAIN functions = 1..L /\ L \in Nat /\ \A k \in 1..L : functions[k] # NULL
  BY <1>1, <1>5, LenProperties, LoaderAssumption
<1>7. \A k \in 1..L : Describes(functions[k], Len(symbols) + 1)
  BY <1>3, <1>6, Zenon DEF TableExact
<1>8. ASSUME NEW k \in 1..L, NEW m \in 1..functions[k].size
      PROVE  /\ Placed(functions[k], m, linked[functions[k].landed + m])
             /\ linked[functions[k].landed + m].origin = <<functions[k].section, functions[k].start + m - 1>>
  <2>1. Placed(functions[k], m, linked[functions[k].landed + m])
    BY <1>3, Zenon DEF Laid
  <2>2. NativeData(functions[k], m).origin = <<functions[k].section, functions[k].start + m - 1>>
    BY <1>1, <1>2, <1>7, NativeInstruction, Zenon
  <2> QED
    BY <2>1, <2>2, Zenon DEF Placed
<1>9. ASSUME NEW x \in 1..size
      PROVE  \E k \in 1..L : \E m \in 1..functions[k].size : x = functions[k].landed + m
  <2>1. PICK k \in 1..L : p[k - 1] < x /\ x <= p[k]
    BY <1>1, <1>3, <1>6, Covered, Zenon
  <2>2. /\ functions[k].landed = p[k - 1] /\ functions[k].landed \in Nat
        /\ functions[k].size \in Nat /\ functions[k].landed + functions[k].size = p[k]
    BY <1>5, Zenon
  <2>3. x - functions[k].landed \in 1..functions[k].size /\ x = functions[k].landed + (x - functions[k].landed)
    BY <2>1, <2>2
  <2> QED
    BY <2>3, Zenon
<1>10. ASSUME NEW s \in FunctionSymbols PROVE \E k \in 1..L : functions[k].symbol = s
  <2>1. s < Len(symbols) + 1
    BY <1>1, <1>2, SymbolTable DEF FunctionSymbols, IsArray
  <2> QED
    BY <1>3, <1>6, <2>1, Zenon DEF TableExact
<1>11. ASSUME NEW x \in 1..size, NEW y \in 1..size, linked[x].origin = linked[y].origin PROVE x = y
  <2>1. PICK k \in 1..L : \E m \in 1..functions[k].size : x = functions[k].landed + m
    BY <1>9, Zenon
  <2>2. PICK l \in 1..L : \E n \in 1..functions[l].size : y = functions[l].landed + n
    BY <1>9, Zenon
  <2>3. PICK m \in 1..functions[k].size : x = functions[k].landed + m
    BY <2>1, Zenon
  <2>4. PICK n \in 1..functions[l].size : y = functions[l].landed + n
    BY <2>2, Zenon
  <2>5. <<functions[k].section, functions[k].start + m - 1>> = <<functions[l].section, functions[l].start + n - 1>>
    BY <1>8, <1>11, <2>3, <2>4, Zenon
  <2>6. functions[k].section = functions[l].section /\ functions[k].start + m - 1 = functions[l].start + n - 1
    BY <2>5, Zenon
  <2>7. functions[k].symbol = functions[l].symbol
    BY <1>1, <1>2, <1>5, <1>7, <2>6, FunctionsApart, Zenon
  <2>8. k = l
    BY <1>3, <1>6, <2>7, Zenon DEF TableExact
  <2>9. functions[k].start \in Nat /\ functions[k].size \in Nat
    BY <1>5, Zenon DEF RelocatedFunctions
  <2>10. m = n
    BY <2>6, <2>8, <2>9, SameOffset, Zenon
  <2> QED
    BY <2>3, <2>4, <2>8, <2>10, Zenon
<1> QED
  BY <1>1, <1>4, <1>5, <1>7, <1>8, <1>9, <1>10, <1>11, Zenon DEF Image

\* The place of an instruction in the file names its place in the program.
LEMMA PlaceFound ==
    ASSUME Image, NEW x \in 1..size
    PROVE  At(linked[x].origin) = x
<1>1. DOMAIN linked = 1..size /\ \A y \in 1..size : linked[y].origin = linked[x].origin => y = x
  BY Zenon DEF Image
<1> QED
  BY <1>1, Zenon DEF At

\* The invariant gives the layout.
LEMMA ImagePreserved ==
    ASSUME ElfRight, LayoutRight, phase = "load", Cardinality(Mains) = 1
    PROVE  LayoutPreserved
<1> DEFINE L == Len(functions)
<1>1. ~MainOverwritten
  BY DEF MainOverwritten
<1>2. Image
  BY <1>1, ImageLaid, Zenon
<1>3. /\ IsObject(env.elf) /\ HasType("SYMTAB") /\ Linkable /\ L > 0 /\ L \in Nat
      /\ functions \in Seq(RelocatedFunctions \cup {NULL})
  BY DEF ElfRight, LoaderTyped, LayoutRight, Counters
<1>4. size \in Nat /\ DOMAIN linked = 1..size /\ Len(linked) = size
  BY <1>2, Zenon DEF Image
<1>5. \A k \in 1..L :
         /\ functions[k] \in RelocatedFunctions /\ functions[k].symbol \in FunctionSymbols
         /\ functions[k].section = symbols[functions[k].symbol].shndx
         /\ functions[k].start = symbols[functions[k].symbol].value
         /\ functions[k].size = symbols[functions[k].symbol].size
  BY <1>2, Zenon DEF Image, Describes
<1>6. ASSUME NEW m \in Mains PROVE linked[1].origin = <<symbols[m].shndx, symbols[m].value>>
  <2>1. functions[1].symbol \in Mains /\ functions[1].landed = 0
    <3>1. PICK p : /\ Prefix(p, functions, size) /\ Laid(p, functions, linked, L)
                   /\ TableExact(functions, Len(symbols) + 1)
      <4>1. Done = L /\ Read = Len(symbols) + 1 /\ LaidOut
        BY Zenon DEF Done, Read, LayoutRight
      <4> QED
        BY <1>1, <4>1, Zenon DEF LaidOut
    <3>2. 1 \in 1..L /\ 1 - 1 = 0
      BY <1>3
    <3>3. functions[1] # NULL /\ functions[1].landed = p[1 - 1] /\ p[0] = 0
      BY <3>1, <3>2, Zenon DEF Laid, Prefix
    <3>4. functions[1] # NULL => functions[1].symbol \in Mains
      BY <3>1, Zenon DEF TableExact
    <3> QED
      BY <3>2, <3>3, <3>4, Zenon
  <2>2. functions[1].symbol = m
    BY <1>1, <1>3, <2>1, TwoMains, Zenon
  <2>3. 1 \in 1..L /\ symbols[m].size \in Nat /\ symbols[m].value \in Nat /\ symbols[m].size > 0
    BY <1>3, SymbolTable DEF Mains, FunctionSymbols, Linkable
  <2>4. 1 \in 1..functions[1].size
    BY <1>5, <2>2, <2>3
  <2>5. linked[functions[1].landed + 1].origin = <<functions[1].section, functions[1].start + 1 - 1>>
    BY <1>2, <2>3, <2>4, Zenon DEF Image
  <2>6. functions[1].landed + 1 = 1 /\ functions[1].start + 1 - 1 = functions[1].start
    BY <1>5, <2>1, <2>2, <2>3
  <2> QED
    BY <1>5, <2>2, <2>3, <2>5, <2>6, Zenon
<1>7. Cardinality({linked[k].origin : k \in DOMAIN linked}) = Len(linked)
  <2> DEFINE F == [k \in 1..size |-> linked[k].origin]
  <2>1. \A k \in 1..size : F[k] = linked[k].origin
    BY Zenon
  <2> HIDE DEF F
  <2>2. {linked[k].origin : k \in DOMAIN linked} = {F[k] : k \in 1..size}
    BY <1>4, <2>1, Zenon
  <2>3. \A a, b \in 1..size : F[a] = F[b] => a = b
    <3>1. \A a, b \in 1..size : linked[a].origin = linked[b].origin => a = b
      BY <1>2, Zenon DEF Image
    <3> QED
      BY <2>1, <3>1, Zenon
  <2>4. Cardinality({F[k] : k \in 1..size}) = size
    BY <1>4, <2>3, DistinctCount
  <2> QED
    BY <1>4, <2>2, <2>4, Zenon
<1>8. ASSUME NEW f \in FunctionSymbols, NEW k \in 0..(symbols[f].size - 1)
      PROVE  linked[At(<<symbols[f].shndx, symbols[f].value>>) + k].origin = <<symbols[f].shndx, symbols[f].value + k>>
  <2>1. PICK l \in 1..L : functions[l].symbol = f
    BY <1>2, Zenon DEF Image
  <2>2. /\ functions[l].landed \in Nat /\ functions[l].start \in Nat /\ functions[l].size \in Nat
        /\ functions[l].start = symbols[f].value /\ functions[l].size = symbols[f].size
        /\ functions[l].section = symbols[f].shndx
    BY <1>5, <2>1, Zenon DEF RelocatedFunctions
  <2>3. 1 \in 1..functions[l].size /\ k + 1 \in 1..functions[l].size
    <3>1. symbols[f].size \in Nat
      BY <2>2, Zenon
    <3>2. 1 \in 1..symbols[f].size /\ k + 1 \in 1..symbols[f].size
      BY <2>2, <3>1, CountedFromOne, Zenon
    <3> QED
      BY <2>2, <3>2, Zenon
  <2>4. /\ functions[l].landed + 1 \in 1..size
        /\ linked[functions[l].landed + 1].origin = <<functions[l].section, functions[l].start + 1 - 1>>
        /\ linked[functions[l].landed + (k + 1)].origin = <<functions[l].section, functions[l].start + (k + 1) - 1>>
    BY <1>2, <2>1, <2>3, Zenon DEF Image
  <2>5. /\ functions[l].start + 1 - 1 = symbols[f].value /\ functions[l].start + (k + 1) - 1 = symbols[f].value + k
        /\ functions[l].landed + (k + 1) = (functions[l].landed + 1) + k
    <3>1. symbols[f].size \in Nat /\ symbols[f].value \in Nat
      BY <2>2, Zenon
    <3>2. Counted(symbols[f].value, k) /\ Counted(functions[l].landed, k)
      BY <2>2, <3>1, CountedFromOne, Zenon
    <3>3. /\ symbols[f].value + 1 - 1 = symbols[f].value /\ symbols[f].value + (k + 1) - 1 = symbols[f].value + k
          /\ functions[l].landed + (k + 1) = (functions[l].landed + 1) + k
      BY <3>2, Zenon DEF Counted
    <3> QED
      BY <2>2, <3>3, Zenon
  <2>6. At(<<symbols[f].shndx, symbols[f].value>>) = functions[l].landed + 1
    <3>1. linked[functions[l].landed + 1].origin = <<symbols[f].shndx, symbols[f].value>>
      BY <2>2, <2>4, <2>5, Zenon
    <3>2. At(linked[functions[l].landed + 1].origin) = functions[l].landed + 1
      BY <1>2, <2>4, PlaceFound, Zenon
    <3> QED
      BY <3>1, <3>2, Zenon
  <2> QED
    BY <2>2, <2>4, <2>5, <2>6, Zenon
<1>9. ASSUME NEW x \in DOMAIN linked
      PROVE  LET native == Section(linked[x].origin[1]).data[linked[x].origin[2] + 1] IN
             linked[x] = native \/ linked[x].origin \in RelocatedPlaces \/ native.opcode = "zero"
  <2>1. PICK l \in 1..L : \E m \in 1..functions[l].size : x = functions[l].landed + m
    BY <1>2, <1>4, Zenon DEF Image
  <2>2. PICK m \in 1..functions[l].size : x = functions[l].landed + m
    BY <2>1, Zenon
  <2>3. /\ Placed(functions[l], m, linked[x])
        /\ linked[x].origin = <<functions[l].section, functions[l].start + m - 1>>
    BY <1>2, <2>1, <2>2, Zenon DEF Image
  <2>4. functions[l].start \in Nat
    BY <1>5, Zenon DEF RelocatedFunctions
  <2>5. linked[x].origin[1] = functions[l].section /\ linked[x].origin[2] + 1 = functions[l].start + m
    BY <2>3, <2>4
  <2>6. Section(linked[x].origin[1]).data[linked[x].origin[2] + 1] = NativeData(functions[l], m)
    BY <2>5, Zenon DEF NativeData
  <2> QED
    BY <2>3, <2>6, Zenon DEF Placed
<1> QED
  BY <1>6, <1>7, <1>8, <1>9, Zenon DEF LayoutPreserved

\* The program that ubpf_load gets starts with the main function and holds every function
\* of the object once, whole and in one piece, changed only where there is a relocation, for
\* every object a compiler makes and wherever linking moves its functions.
THEOREM LayoutAlwaysPreserved == Spec /\ Linkable => []LayoutPreserved
<1>1. Init /\ Linkable => LayoutRight
  BY LayoutInit, Zenon
<1>2. LoaderRight /\ LayoutRight /\ [Next]_vars => LayoutRight'
  BY LayoutStep, Zenon DEF LoaderRight
<1>3. LoaderRight /\ LayoutRight => LayoutPreserved
  BY ImagePreserved, Zenon DEF LoaderRight, LayoutPreserved
<1>4. Spec => []LoaderRight
  BY LoaderAlwaysRight, Zenon
<1> QED
  BY <1>1, <1>2, <1>3, <1>4, PTL DEF Spec

=============================================================================
