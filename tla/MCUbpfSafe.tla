----------------------------- MODULE MCUbpfSafe -----------------------------
(***************************************************************************)
(* Instances of UbpfSafe: programs that move, spill, reload, pass and use  *)
(* pointers of the input, of the stack and of regions returned by helpers. *)
(***************************************************************************)
EXTENDS UbpfSafe, MCUbpfInterp

\* The stack ends with an incomplete word; the second setting has no input and a
\* stack so low that R10 wraps on calls.
SafeSetting0 ==
    [bounds |-> TRUE, ub |-> FALSE, limit |-> 0, unwind |-> 3,
     mem |-> 8, mem_len |-> 8, stack |-> 16, stack_len |-> 28]
SafeSettings ==
    {SafeSetting0,
     [SafeSetting0 EXCEPT !.ub = TRUE, !.mem = 0, !.limit = 3, !.stack = 2, !.stack_len = 12]}

MCRegions ==
    {[id |-> 1, kind |-> "pointer", permissions |-> {"read", "write"}, base |-> 48, size |-> 11],
     [id |-> 2, kind |-> "handle", permissions |-> {"read"}, base |-> 64, size |-> 4]}

\* Helpers that return a pointer, a handle, a number, a pointer to no region and a
\* pointer to a handle.  Helper 6 is registered without metadata.
MCSafeHelpers ==
    [i \in 1 .. 5 |->
        [result_kind |-> <<"pointer", "handle", "scalar", "pointer", "pointer">>[i],
         region_id |-> <<1, 2, 0, 9, 2>>[i], region_size |-> <<8, 2, 0, 4, 2>>[i]]]
CallOf(i) == I("call", 0, 0, 0, i, 0)

\* Spilled pointers and what may happen to them.
SpillAlphabet ==
    {I("stx", 10, 1, -12, 0, 8), I("stx", 10, 3, -14, 0, 4), I("st", 10, 0, -1, 0, 1),
     I("ldx", 3, 10, -12, 0, 8), I("ldx", 1, 10, -20, 0, 8), I("atomic", 10, 3, -12, AtomicFetch, 8),
     I("add_imm", 1, 0, 0, 8, 8), I("stx", 3, 0, 0, 0, 4), CallOf(3)}

\* Everything the tags of registers go through.
TagAlphabet ==
    {CallOf(1), CallOf(2), I("mov_reg", 3, 10, 0, 0, 8), I("mov_reg", 3, 0, 0, 0, 4),
     I("add_reg", 1, 2, 0, 0, 8), I("add_reg", 3, 0, 0, 0, 8), I("sub_reg", 3, 10, 0, 0, 8),
     I("sub_imm", 0, 0, 0, 4, 8), I("add_imm", 0, 0, 0, 8, 8), I("jcond_reg", 1, 3, 1, 0, 0),
     I("ldx", 4, 0, 4, 0, 8), I("ldx", 4, 1, 4, 0, 4), I("st", 0, 0, 0, 0, 2),
     I("atomic", 1, 3, 0, AtomicCmpXchg, 4)}
RareAlphabet ==
    TagAlphabet \cup {CallOf(i) : i \in 3 .. 6} \cup
    {I("mov_reg", 3, 1, 8, 0, 8), I("sub_reg", 3, 1, 0, 0, 8), I("neg", 2, 0, 0, 0, 8),
     I("endian", 1, 0, 0, 16, 4), I("lddw", 1, 0, 0, 1, 0), I("zero", 0, 0, 0, 6, 0),
     I("atomic", 0, 2, 0, AtomicXchg, 8)}

\* Pointers kept across local calls.
KeepAlphabet ==
    {Exit, I("mov_reg", 6, 1, 0, 0, 8), I("mov_imm", 6, 0, 0, 1, 8), I("stx", 10, 6, -12, 0, 8),
     I("ldx", 6, 10, -12, 0, 8), I("call", 0, 1, 0, 1, 0), I("call", 0, 1, 0, -2, 0)}

SafePrograms ==
    [0 .. 3 -> SpillAlphabet] \cup [0 .. 2 -> TagAlphabet] \cup [0 .. 1 -> RareAlphabet]
    \cup [0 .. 4 -> KeepAlphabet] \cup [0 .. 4 -> LddwAlphabet]

\* A pointer is spilled, and reloaded into the register that held its address.
ReloadPrograms ==
    [0 .. 3 -> {I("mov_reg", 3, 10, 0, 0, 8), I("stx", 10, 1, -12, 0, 8), I("ldx", 3, 3, -12, 0, 8), Exit}]

=============================================================================
