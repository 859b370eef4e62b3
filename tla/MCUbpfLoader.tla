---------------------------- MODULE MCUbpfLoader ----------------------------
(***************************************************************************)
(* Small ELF objects: .text holds f (three instructions) and g (two), a     *)
(* second code section holds h (two), and .data holds two units.  The first *)
(* instruction of f and of h varies, with a relocation to match or one that *)
(* does not; so do the order of the symbols, the function to start at, and  *)
(* one fault of the object at a time.                                      *)
(***************************************************************************)
EXTENDS UbpfLoader

AnyImm == -16..16
MCFilter == <<
    [opcode |-> "call", dst |-> {0}, src |-> {0, 1}, imm |-> AnyImm, offset |-> {0}],
    [opcode |-> "lddw", dst |-> 0..9, src |-> {0}, imm |-> AnyImm, offset |-> {0}],
    [opcode |-> "exit", dst |-> {0}, src |-> {0}, imm |-> {0}, offset |-> {0}] >>

Instr(opcode, src, imm, origin) ==
    [opcode |-> opcode, dst |-> 0, src |-> src, imm |-> imm, offset |-> 0, origin |-> origin]
Exit(origin) == Instr("exit", 0, 0, origin)

\* Section indices.
Text == 3
Other == 4
Data == 5

\* Symbols in the file; "text" and "other" are section symbols.
Sym(type, name, shndx, value, length) ==
    [type |-> type, name |-> name, shndx |-> shndx, value |-> value, size |-> length]
FunctionSym(name) ==
    CASE name = "f" -> Sym("FUNC", "f", Text, 0, 3)
      [] name = "g" -> Sym("FUNC", "g", Text, 3, 2)
      [] name = "h" -> Sym("FUNC", "h", Other, 0, 2)
OtherSyms == << Sym("NOTYPE", "", 0, 0, 0), Sym("SECTION", "text", Text, 0, 0),
                Sym("SECTION", "other", Other, 0, 0), Sym("OBJECT", "map", Data, 1, 1),
                Sym("NOTYPE", "helper", 0, 0, 0), Sym("NOTYPE", "missing", 0, 0, 0) >>

\* The first instruction of a function, with its relocation: <<opcode, src, imm, symbol, type>>.
Sites == {
    <<"call", 1, 2, 1, "64_32">>,        \* g
    <<"call", 1, -1, 2, "64_32_LEGACY">>, \* h
    <<"call", 1, -1, 1, "64_32">>,       \* f
    <<"call", 0, 0, 4, "64_32">>,        \* a registered helper
    <<"lddw", 0, 0, 3, "64_64">> }
BadSites == {
    <<"call", 1, 0, 1, "64_32">>,        \* no function starts there
    <<"call", 0, 0, 5, "64_32">>,        \* no helper has this name
    <<"call", 0, 0, 3, "64_64">>,        \* not an LDDW
    <<"lddw", 0, 0, 1, "64_64">>,        \* not a data section
    <<"call", 0, 7, 4, "other">>,        \* skipped
    <<"bad", 0, 0, 4, "other">>,         \* an opcode the filter does not know
    <<"call", 0, 0, 99, "64_32">> }      \* no such symbol

Code(site, section) ==
    << Instr(site[1], site[2], site[3], <<section, 0>>) >> \o
    IF section = Other THEN << Exit(<<section, 1>>) >>
    ELSE << IF site[1] = "lddw" THEN Instr("zero", 0, 0, <<section, 1>>) ELSE Exit(<<section, 1>>),
            Exit(<<section, 2>>), Exit(<<section, 3>>), Exit(<<section, 4>>) >>
Rel(site, section, link) ==
    [type |-> "REL", flags |-> "", name |-> "", offset |-> 1, size |-> 1, info |-> section, link |-> link,
     data |-> << [offset |-> 0, symbol |-> site[4], type |-> site[5]] >>]
Sect(type, flags, name, length, data) ==
    [type |-> type, flags |-> flags, name |-> name, offset |-> 1, size |-> length, info |-> 0, link |-> 0, data |-> data]

Object(order, fSite, hSite) == [header |-> "expected", size |-> 12, shoff |-> 2, shentsize |-> 1, sections |->
    << Sect("NULL", "", "", 0, <<>>), Sect("STRTAB", "", "", 3, <<>>),
       Sect("SYMTAB", "", "", 9, OtherSyms \o [k \in DOMAIN order |-> FunctionSym(order[k])]),
       Sect("PROGBITS", "ALLOC|EXECINSTR", ".text", 5, Code(fSite, Text)),
       Sect("PROGBITS", "ALLOC|EXECINSTR", "other", 2, Code(hSite, Other)),
       Sect("PROGBITS", "ALLOC|WRITE", ".data", 2, <<>>),
       Rel(fSite, Text, 2), Rel(hSite, Other, 2), Rel(hSite, Data, 2) >>]

\* An object with one fault.
SymbolFault(o, f) == [o EXCEPT !.sections[3].data[7] = f]
Faulty(o) ==
    {[o EXCEPT !.header = "unexpected"], [o EXCEPT !.sections = Append(@, o.sections[1])],
     [o EXCEPT !.sections[2].type = "NULL"], [o EXCEPT !.sections[3].type = "NULL"],
     [o EXCEPT !.sections[7].link = 9], [o EXCEPT !.sections[7].data[1].offset = 5],
     [o EXCEPT !.sections[3].data[4].name = "bad"], [o EXCEPT !.sections[3].data[4].size = 2],
     [o EXCEPT !.sections[3].data = Append(@, FunctionSym("f"))]} \cup
    {[o EXCEPT !.shoff = p, !.shentsize = s] : p \in {3, 4, 11, 12, 15}, s \in {0, 1, 15}} \cup
    {[o EXCEPT !.sections[3].data = <<OtherSyms[1], FunctionSym("g")>>]} \cup
    {SymbolFault(o, Sym("FUNC", "bad", Text, 0, 3)), SymbolFault(o, Sym("FUNC", "f", 10, 0, 3)),
     SymbolFault(o, Sym("FUNC", "f", Data, 0, 1))} \cup
    {[o EXCEPT !.sections[6].offset = p, !.sections[6].size = s] : p \in 0..15, s \in {0, 2, 12, 13, 15}}

Orders == {<<"f", "g", "h">>, <<"h", "g", "f">>, <<"g", "f", "h">>}
MCDataAddress == <<11, 12>>
Call == <<"call", 1, -1, 1, "64_32">>
Lddw == <<"lddw", 0, 0, 3, "64_64">>

Env(elf, main, callback) ==
    [elf |-> elf, main |-> main, helpers |-> [n \in {"helper"} |-> 6], callback |-> callback]

MCEnvironments ==
    {Env(Object(order, fSite, hSite), main, TRUE) :
        order \in Orders, fSite \in Sites, hSite \in {s \in Sites : s[1] = "call"},
        main \in {NULL, "f", "g", "h"}} \cup
    {Env(Object(<<"g", "f", "h">>, fSite, Call), "g", TRUE) : fSite \in BadSites} \cup
    {Env(o, NULL, TRUE) : o \in Faulty(Object(<<"f", "g", "h">>, Lddw, Call))} \cup
    {Env(Object(<<"f", "g", "h">>, Lddw, Call), NULL, FALSE),
     Env(Object(<<"f", "g", "h">>, Lddw, Call), "absent", TRUE)}

\* Bytecode of the other thread.
MCRawPrograms == {<<Exit(NULL)>>, <<Instr("bad", 0, 0, NULL)>>, <<Instr("lddw", 0, 0, NULL)>>, <<>>}

=============================================================================
