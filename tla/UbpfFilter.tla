----------------------------- MODULE UbpfFilter -----------------------------
(***************************************************************************)
(* The instruction filter that validation consults.  Its lookup table is   *)
(* shared by all VMs of the process and filled on first use, guarded by a   *)
(* plain boolean; VMs of different threads may validate at the same time.  *)
(* Stores become visible in program order (x86-64).                        *)
(***************************************************************************)
EXTENDS Integers, Sequences

CONSTANTS
    Threads,
    _ubpf_instruction_filter \* rows [opcode, dst, src, imm, offset]: sets of accepted values

\* Programs and tables are arrays.
IsArray(a) == Len(a) \in Nat /\ DOMAIN a = 1..Len(a)

ASSUME FilterAssumption == IsArray(_ubpf_instruction_filter) /\ Len(_ubpf_instruction_filter) > 0

VARIABLES
    lookup_table, \* opcodes with an entry in _ubpf_filter_instruction_lookup_table
    initialized,  \* _initialized
    job           \* job[t]: the validation thread t is in
filter_vars == <<lookup_table, initialized, job>>

Idle == [step |-> "idle", prog |-> <<>>, i |-> 1, row |-> 1, verdict |-> "none"]

FilterInit == lookup_table = {} /\ initialized = FALSE /\ job = [t \in Threads |-> Idle]

\* validate() is called with a program; an empty one has nothing to look up.
Begin(t, prog) ==
    /\ job[t].step = "idle"
    /\ job' = [job EXCEPT ![t] = IF Len(prog) = 0
                                THEN [Idle EXCEPT !.step = "done", !.verdict = "valid"]
                                ELSE [Idle EXCEPT !.step = "test", !.prog = prog]]
    /\ UNCHANGED <<lookup_table, initialized>>

\* An LDDW is of the plain kind and followed by its second half.
LddwComplete(prog, k) ==
    prog[k].opcode = "lddw" =>
        /\ prog[k].src = 0 /\ k + 1 <= Len(prog) /\ prog[k + 1].opcode = "zero"
        /\ prog[k + 1].dst = 0 /\ prog[k + 1].src = 0 /\ prog[k + 1].offset = 0

\* This is tested before the filter is consulted.
IncompleteLddw(t) ==
    /\ job[t].step = "test" /\ ~LddwComplete(job[t].prog, job[t].i)
    /\ job' = [job EXCEPT ![t].step = "done", ![t].verdict = "invalid"]
    /\ UNCHANGED <<lookup_table, initialized>>

\* Mutant of TestInitialized: the flag is set before the table is filled.
TestAndSetInitialized(t) ==
    /\ job[t].step = "test" /\ LddwComplete(job[t].prog, job[t].i)
    /\ job' = [job EXCEPT ![t].step = IF initialized THEN "look up" ELSE "fill", ![t].row = 1]
    /\ initialized' = TRUE
    /\ UNCHANGED lookup_table
TestInitialized(t) ==
    /\ job[t].step = "test" /\ LddwComplete(job[t].prog, job[t].i)
    /\ job' = [job EXCEPT ![t].step = IF initialized THEN "look up" ELSE "fill", ![t].row = 1]
    /\ UNCHANGED <<lookup_table, initialized>>

FillEntry(t) ==
    /\ job[t].step = "fill" /\ job[t].row <= Len(_ubpf_instruction_filter)
    /\ lookup_table' = lookup_table \cup {_ubpf_instruction_filter[job[t].row].opcode}
    /\ job' = [job EXCEPT ![t].row = @ + 1]
    /\ UNCHANGED initialized

SetInitialized(t) ==
    /\ job[t].step = "fill" /\ job[t].row > Len(_ubpf_instruction_filter)
    /\ initialized' = TRUE
    /\ job' = [job EXCEPT ![t].step = "look up"]
    /\ UNCHANGED lookup_table

\* The tests of ubpf_is_valid_instruction once it has the opcode's row.
RowAccepts(row, i) ==
    row.opcode = i.opcode /\ i.dst \in row.dst /\ i.src \in row.src /\ i.imm \in row.imm /\ i.offset \in row.offset
Accepted(i) == \E k \in DOMAIN _ubpf_instruction_filter : RowAccepts(_ubpf_instruction_filter[k], i)

\* One instruction is looked up; the first bad one ends the validation, which
\* takes the two slots of an LDDW together.
LookUp(t) ==
    LET j == job[t]
        i == j.prog[j.i]
        valid == i.opcode \in lookup_table /\ Accepted(i)
        next == IF i.opcode = "lddw" THEN j.i + 2 ELSE j.i + 1
        last == next > Len(j.prog)
    IN /\ j.step = "look up"
       /\ job' = [job EXCEPT
             ![t].step = IF valid /\ ~last THEN "test" ELSE "done",
             ![t].i = IF valid /\ ~last THEN next ELSE @,
             ![t].verdict = IF ~valid THEN "invalid" ELSE IF last THEN "valid" ELSE @]
       /\ UNCHANGED <<lookup_table, initialized>>

Validate(t) ==
    IncompleteLddw(t) \/ TestInitialized(t) \/ FillEntry(t) \/ SetInitialized(t) \/ LookUp(t)

-----------------------------------------------------------------------------
(* Properties.                                                             *)

\* The filter accepts the instructions of a program, except for the second halves
\* of LDDWs, none of which is missing.
SecondHalf(prog, k) == k > 1 /\ prog[k - 1].opcode = "lddw"
InstructionRight(prog, k) == LddwComplete(prog, k) /\ (Accepted(prog[k]) \/ SecondHalf(prog, k))
ProgramAccepted(prog) == \A k \in DOMAIN prog : InstructionRight(prog, k)

\* A program is accepted exactly when the filter accepts its instructions,
\* also when another thread is filling the table at that moment.
VerdictsRight ==
    \A t \in Threads :
        job[t].step = "done" => (job[t].verdict = "valid" <=> ProgramAccepted(job[t].prog))

=============================================================================
