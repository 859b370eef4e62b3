----------------------------- MODULE NativeCpu -----------------------------
(***************************************************************************)
(* The processors the JIT compiles for: what the x86-64 and ARM64          *)
(* instructions that the code generators emit do to a machine state.  An   *)
(* instruction is a tuple <<name, operand, ...>>; its encoding is not       *)
(* modelled.  A machine state m has                                        *)
(*   isa          "x86" or "arm64"                                         *)
(*   reg          the general-purpose registers                            *)
(*   stk          the words between the stack pointer and the host's frame,*)
(*                the one at the stack pointer first; a word is one address*)
(*   fl           the operands of the last comparison                      *)
(*   ip           the index of the next instruction                        *)
(*   cell         the word of memory at CellAddr                           *)
(*   monitor      ARM64's exclusive monitor                                *)
(*   found, wrote the word the last access of the cell found, and the      *)
(*                words this processor has stored there                    *)
(*   disp, res    the dispatcher's address in the literal pool (0: none)   *)
(*                and what a helper returns                                *)
(*   calls        the calls of helpers so far                              *)
(*   out          "run", or how the code under study was left              *)
(***************************************************************************)
EXTENDS UbpfAlu

CONSTANTS
    TableAddr,  \* address of the helper table
    NumHelpers, \* entries of the helper table
    HostTop,    \* the stack pointer when stk is empty, 16-byte aligned
    Junk        \* what a helper, or nobody, left in a register or stack word

HelperAddr(k) == 2^W - 16 + k
DispatcherAddr == 2^W - 1

X86Registers == {"RAX", "RCX", "RDX", "RBX", "RBP", "RSI", "RDI", "R8", "R9", "R10", "R11",
                 "R12", "R13", "R14", "R15"}
X86Volatile == {"RAX", "RDI", "RSI", "RDX", "RCX", "R8", "R9", "R10", "R11"}
Arm64Registers == {"R0", "R1", "R2", "R3", "R4", "R5", "R6", "R8", "R19", "R20", "R21", "R22",
                   "R23", "R24", "R25", "R26", "R29", "R30"}
Arm64Volatile == {"R0", "R1", "R2", "R3", "R4", "R5", "R6", "R8", "R30"}

Get(m, r) == IF r = "RZ" THEN 0 ELSE m.reg[r]
Go(m) == [m EXCEPT !.ip = @ + 1]
\* A step to the next instruction that writes v to register d.
Put(m, d, v) == IF d = "RZ" THEN Go(m) ELSE [Go(m) EXCEPT !.reg[d] = v]
Leave(m, how) == [m EXCEPT !.out = how]

-----------------------------------------------------------------------------
(* Arithmetic and flags.                                                   *)

Compare(w, x, y) == [w |-> w, x |-> Cut(x, w), y |-> Cut(y, w)]

\* Conditions on the operands of the last comparison.
Holds(c, f) ==
    LET x == Signed(f.x, f.w)
        y == Signed(f.y, f.w)
    IN CASE c = "eq" -> f.x = f.y
         [] c = "ne" -> f.x # f.y
         [] c = "hi" -> f.x > f.y
         [] c = "hs" -> f.x >= f.y
         [] c = "lo" -> f.x < f.y
         [] c = "ls" -> f.x <= f.y
         [] c = "gt" -> x > y
         [] c = "ge" -> x >= y
         [] c = "lt" -> x < y
         [] c = "le" -> x <= y

\* Data processing at width w with a zero-extended result.  The divisions are
\* ARM64's, which give 0 for a divisor of 0.
Process(f, w, x, y) ==
    CASE f = "udiv" -> Arithmetic("div", 0, w, x, y)
      [] f = "sdiv" -> Arithmetic("div", 1, w, x, y)
      [] OTHER -> Arithmetic(f, 0, w, x, y)

\* On x86-64 arithmetic sets the flags; on ARM64 only the S forms do.
Result(m, f, w, d, x, y) ==
    LET v == Process(f, w, x, y)
        n == Put(m, d, v)
    IN IF m.isa = "x86" /\ f # "mov" THEN [n EXCEPT !.fl = Compare(w, v, 0)] ELSE n
FlagsOf(m, f, w, d, x, y) ==
    [Put(m, d, Arithmetic(f, 0, w, x, y)) EXCEPT
        !.fl = IF f = "sub" THEN Compare(w, x, y) ELSE Compare(w, Arithmetic(f, 0, w, x, y), 0)]

\* DIV and IDIV of RDX:RAX by RCX; a quotient that does not fit is a fault.
WideDivide(m, w, signed) ==
    LET double == Cut(m.reg["RDX"], w) * 2^w + Cut(m.reg["RAX"], w)
        x == IF signed THEN Signed(double, 2 * w) ELSE double
        y == IF signed THEN Signed(m.reg["RCX"], w) ELSE Cut(m.reg["RCX"], w)
        q == IF y = 0 THEN 0 ELSE Quotient(x, y)
        fits == IF signed THEN q \in -(2^(w - 1)) .. 2^(w - 1) - 1 ELSE q < 2^w
    IN IF y = 0 \/ ~fits THEN Leave(m, "fault")
       ELSE [Go(m) EXCEPT !.reg["RDX"] = Cut(x - y * q, w), !.reg["RAX"] = Cut(q, w)]

\* The k-th S16-sized block of register d replaced by v.
Insert(old, k, v) ==
    LET low == 2^(S16 * k) IN Cut(old, S16 * k) + v * low + (old \div (low * 2^S16)) * low * 2^S16

-----------------------------------------------------------------------------
(* Memory: the cell, the helper table, and the stack.                      *)

StackPointer(m) == HostTop - Len(m.stk)
Drop(s, n) == SubSeq(s, n + 1, Len(s))
Blank(n) == [k \in 1 .. n |-> Junk]

InTable(a) == \E k \in 0 .. NumHelpers - 1 : a = TableAddr + 8 * k
InStack(m, a) == a \in StackPointer(m) .. HostTop - 1
Slot(m, a) == a - StackPointer(m) + 1
Address(m, b, off) == Cut(Get(m, b) + off, W)

\* A load of the n bits at a, sign- or zero-extended by ext.
LoadWord(m, d, a, n, ext(_, _)) ==
    CASE a = CellAddr -> [Put(m, d, ext(m.cell, n)) EXCEPT !.found = m.cell]
      [] InTable(a) -> Put(m, d, HelperAddr((a - TableAddr) \div 8))
      [] InStack(m, a) -> Put(m, d, ext(m.stk[Slot(m, a)], n))
      [] OTHER -> Leave(m, "fault")
StoreCell(m, c) == [Go(m) EXCEPT !.cell = c, !.wrote = Append(@, c), !.found = m.cell]
StoreWord(m, a, v, n) ==
    CASE a = CellAddr -> StoreCell(m, ubpf_mem_store(m.cell, v, n))
      [] InStack(m, a) -> [Go(m) EXCEPT !.stk[Slot(m, a)] = ubpf_mem_store(@, v, n)]
      [] OTHER -> Leave(m, "fault")

\* LOCK-prefixed read-modify-write instructions; CMPXCHG compares with RAX.
Locked(m, f, w, s, a) ==
    LET v == m.reg[s]
        c == AtomicResult(f, w, m.cell, m.reg["RAX"], v)
        hit == Cut(m.cell, w) = Cut(m.reg["RAX"], w)
        compared == [m EXCEPT !.fl = Compare(w, m.reg["RAX"], m.cell)]
    IN CASE a # CellAddr -> Leave(m, "fault")
         [] f = "xchg" -> [StoreCell(m, c) EXCEPT !.reg[s] = Cut(m.cell, w)]
         [] f = "cmpxchg" /\ hit -> StoreCell(compared, c)
         [] f = "cmpxchg" /\ ~hit -> [Put(compared, "RAX", Cut(m.cell, w)) EXCEPT !.found = m.cell]
         [] OTHER -> StoreCell(m, c)

\* LDXR sets the exclusive monitor and STXR stores only while it is set.
LoadExclusive(m, w, d, a) ==
    IF a # CellAddr THEN Leave(m, "fault")
    ELSE [Put(m, d, Cut(m.cell, w)) EXCEPT !.found = m.cell, !.monitor = TRUE]
StoreExclusive(m, w, status, s, a) ==
    LET n == IF m.monitor THEN StoreCell(m, ubpf_mem_store(m.cell, m.reg[s], w)) ELSE Go(m)
    IN IF a # CellAddr THEN Leave(m, "fault")
       ELSE [n EXCEPT !.reg[status] = IF m.monitor THEN 0 ELSE 1, !.monitor = FALSE]

-----------------------------------------------------------------------------
(* Calls.  The code's first location is 1; location 0 is the host's.       *)

\* What the helper or dispatcher at address a finds in the argument registers
\* and on the stack, and whether the stack pointer was aligned for the call.
CallRecord(m, a) ==
    LET isX86 == m.isa = "x86"
        args == IF isX86 THEN <<"RDI", "RSI", "RDX", "RCX", "R8">> ELSE <<"R0", "R1", "R2", "R3", "R4">>
        sixth == m.reg[IF isX86 THEN "R9" ELSE "R5"]
        seventh == IF isX86 THEN m.stk[2] ELSE m.reg["R6"]
        dispatched == a = DispatcherAddr
    IN [args |-> [k \in 1 .. 5 |-> m.reg[args[k]]],
        fn |-> IF dispatched THEN sixth ELSE a - HelperAddr(0),
        context |-> IF dispatched THEN seventh ELSE sixth,
        aligned |-> (Len(m.stk) - (IF isX86 THEN 1 ELSE 0)) % 2 = 0]

\* The helper returns m.res and leaves the volatile registers undefined.
CallExternal(m, a) ==
    LET volatile == IF m.isa = "x86" THEN X86Volatile ELSE Arm64Volatile
        result == IF m.isa = "x86" THEN "RAX" ELSE "R0"
    IN [m EXCEPT !.calls = Append(@, CallRecord(m, a)),
                 !.reg = [r \in DOMAIN m.reg |-> CASE r = result -> m.res
                                                   [] r # result /\ r \in volatile -> Junk
                                                   [] OTHER -> m.reg[r]],
                 !.ip = IF m.isa = "x86" THEN m.stk[1] ELSE m.reg["R30"],
                 !.stk = IF m.isa = "x86" THEN Tail(@) ELSE @]

JumpTo(m, a) ==
    CASE a = 0 -> Leave(m, "host")
      [] a >= HelperAddr(0) -> CallExternal(m, a)
      [] OTHER -> [m EXCEPT !.ip = a]

PushWord(m, v) == [Go(m) EXCEPT !.stk = <<v>> \o @]

-----------------------------------------------------------------------------
(* One instruction.  jr and jrc jump relative to the next instruction.     *)

Exec(m, o) ==
    CASE o[1] = "op" -> Result(m, o[2], o[3], o[4], Get(m, o[5]), Get(m, o[6]))
      [] o[1] = "opi" -> Result(m, o[2], o[3], o[4], Get(m, o[5]), o[6])
      [] o[1] = "flags" -> FlagsOf(m, o[2], o[3], o[4], Get(m, o[5]), Get(m, o[6]))
      [] o[1] = "flagsi" -> FlagsOf(m, o[2], o[3], o[4], Get(m, o[5]), o[6])
      [] o[1] = "movi" -> Put(m, o[2], Cut(o[3], W))
      [] o[1] = "sx" -> Put(m, o[4], SignExtend(Get(m, o[5]), o[2], o[3]))
      [] o[1] = "rev" -> Put(m, o[4], SwapBytes(Cut(Get(m, o[5]), o[3]), o[2], o[3]))
      [] o[1] = "rol16" -> Put(m, o[2], ubpf_mem_store(m.reg[o[2]], SwapBytes(m.reg[o[2]], S16, S16), S16))
      [] o[1] = "ld" -> LoadWord(m, o[3], Address(m, o[4], o[5]), o[2], ubpf_mem_load)
      [] o[1] = "ldsx" -> LoadWord(m, o[3], Address(m, o[4], o[5]), o[2], ubpf_mem_load_sx)
      [] o[1] = "st" -> StoreWord(m, Address(m, o[4], o[5]), Get(m, o[3]), o[2])
      [] o[1] = "sti" -> StoreWord(m, Address(m, o[4], o[5]), Cut(o[3], W), o[2])
      [] o[1] = "jr" -> [m EXCEPT !.ip = @ + 1 + o[2]]
      [] o[1] = "jrc" -> IF Holds(o[2], m.fl) THEN [m EXCEPT !.ip = @ + 1 + o[3]] ELSE Go(m)
      [] o[1] = "jmp" -> JumpTo(m, o[2])
      [] o[1] = "jcc" -> IF Holds(o[2], m.fl) THEN JumpTo(m, o[3]) ELSE Go(m)
      [] o[1] = "call" -> JumpTo(PushWord(m, m.ip + 1), o[2])
      [] o[1] = "callr" -> JumpTo(PushWord(m, m.ip + 1), m.ip + 1 + o[2])
      [] o[1] = "ret" -> JumpTo([m EXCEPT !.stk = Tail(@)], m.stk[1])
      [] o[1] = "bl" -> JumpTo(Put(m, "R30", m.ip + 1), o[2])
      [] o[1] = "blr" -> JumpTo(Put(m, "R30", m.ip + 1), m.reg[o[2]])
      [] o[1] = "br" -> JumpTo(m, m.reg[o[2]])
      [] o[1] = "dispatcher" -> Put(m, o[2], m.disp)
      [] o[1] = "table" -> Put(m, o[2], TableAddr)
      [] o[1] = "push" -> PushWord(m, m.reg[o[2]])
      [] o[1] = "pop" -> [Put(m, o[2], m.stk[1]) EXCEPT !.stk = Tail(@)]
      [] o[1] = "pushf" -> PushWord(m, m.fl)
      [] o[1] = "popf" -> [Go(m) EXCEPT !.fl = m.stk[1], !.stk = Tail(@)]
      [] o[1] = "alloc" -> [Go(m) EXCEPT !.stk = Blank(o[2]) \o @]
      [] o[1] = "free" -> [Go(m) EXCEPT !.stk = Drop(@, o[2])]
      [] o[1] = "getsp" -> Put(m, o[2], StackPointer(m))
      [] o[1] = "setsp" -> [Go(m) EXCEPT !.stk = Drop(@, m.reg[o[2]] - StackPointer(m))]
      [] o[1] = "ststk" -> [Go(m) EXCEPT !.stk[o[3] + 1] = m.reg[o[2]]]
      [] o[1] = "stistk" -> [Go(m) EXCEPT !.stk[o[3] + 1] = o[2]]
      [] o[1] = "ldstk" -> Put(m, o[2], m.stk[o[3] + 1])
      [] o[1] = "opstk" -> Result(m, o[2], W, o[3], Get(m, o[3]), m.stk[o[4] + 1])
      [] o[1] = "mul" -> [Put(m, "RAX", Arithmetic("mul", 0, o[2], m.reg["RAX"], m.reg["RCX"]))
                          EXCEPT !.reg["RDX"] = Junk]
      [] o[1] = "div" -> WideDivide(m, o[2], o[3])
      [] o[1] = "extend" -> Put(m, "RDX", IF Signed(m.reg["RAX"], o[2]) < 0 THEN 2^o[2] - 1 ELSE 0)
      [] o[1] = "cmove" -> IF Holds("eq", m.fl) THEN Put(m, o[2], m.reg[o[3]]) ELSE Go(m)
      [] o[1] = "lock" -> Locked(m, o[2], o[3], o[4], Address(m, o[5], o[6]))
      [] o[1] = "madd" -> Put(m, o[3], Cut(Get(m, o[6]) + Get(m, o[4]) * Get(m, o[5]), o[2]))
      [] o[1] = "msub" -> Put(m, o[3], Cut(Get(m, o[6]) - Get(m, o[4]) * Get(m, o[5]), o[2]))
      [] o[1] = "movz" -> Put(m, o[3], Insert(0, o[4], o[5]))
      [] o[1] = "movn" -> Put(m, o[3], Cut(2^W - 1 - Insert(0, o[4], o[5]), o[2]))
      [] o[1] = "movk" -> Put(m, o[3], Cut(Insert(m.reg[o[3]], o[4], o[5]), o[2]))
      [] o[1] = "ldx" -> LoadExclusive(m, o[2], o[3], m.reg[o[4]])
      [] o[1] = "stx" -> StoreExclusive(m, o[2], o[3], o[4], m.reg[o[5]])
      [] o[1] = "leave" -> Leave(m, o[2])

\* Instructions another processor can observe or disturb.
Shared == {"ld", "ldsx", "st", "sti", "lock", "ldx", "stx"}

\* Run code from m: the instruction at m.ip, and on to the next location in
\* stops or out of the code.
RECURSIVE Advance(_, _, _)
Advance(m, code, stops) ==
    CHOOSE last \in {IF n.out # "run" \/ n.ip \in stops THEN n ELSE Advance(n, code, stops) :
                         n \in {Exec(m, o) : o \in {code[m.ip]}}} : TRUE

=============================================================================
