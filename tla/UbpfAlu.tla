------------------------------ MODULE UbpfAlu ------------------------------
(***************************************************************************)
(* What one eBPF instruction computes, as the interpreter's switch defines *)
(* it: arithmetic, byte swaps, conditions, loads, stores, atomics and      *)
(* helper calls, on registers and one word of memory.                      *)
(*                                                                         *)
(* Widths are scaled: a 64-bit register has W bits, a 32-bit one W/2, a    *)
(* 16-bit one W/4 and a byte W/8, and an immediate (int32_t) lies in       *)
(* -2^(W/2-1) .. 2^(W/2-1)-1.  Every boundary of the real widths (sign     *)
(* bits, truncation, INT_MIN / -1, shift counts) has its scaled image.     *)
(***************************************************************************)
EXTENDS Integers, Sequences, Bitwise

CONSTANTS
    W,          \* bits of a register
    CellAddr,   \* the address of the word of memory the program accesses
    Unwind      \* vm->unwind_stack_extension_index

ASSUME WidthAssumption == W \in {8, 16} /\ CellAddr \in 0 .. 2^W - 1

S64 == W
S32 == W \div 2
S16 == W \div 4
S8 == W \div 8

\* Conversions between the unsigned and the signed reading of n bits.
Cut(v, n) == v % 2^n
Signed(v, n) == LET u == Cut(v, n) IN IF u >= 2^(n - 1) THEN u - 2^n ELSE u
SignExtend(v, n, w) == Cut(Signed(v, n), w)

\* Division of C: towards zero.
Magnitude(x) == IF x < 0 THEN -x ELSE x
Quotient(x, y) ==
    LET q == Magnitude(x) \div Magnitude(y) IN IF (x < 0) = (y < 0) THEN q ELSE -q

\* The bytes of each n-bit group of the w-bit v in reverse order.
SwapBytes(v, n, w) ==
    LET byte(k) == Cut(v \div 2^(S8 * k), S8)
        group == n \div S8
        dest(k) == (k \div group) * group + (group - 1 - (k % group))
        sum[k \in 0 .. w \div S8] ==
            IF k = 0 THEN 0 ELSE sum[k - 1] + byte(k - 1) * 2^(S8 * dest(k - 1))
    IN sum[w \div S8]

\* Dividing by zero gives 0 (div) or the dividend (mod).
Divide(op, signed, x, y, w) ==
    LET sx == IF signed THEN Signed(x, w) ELSE x
        sy == IF signed THEN Signed(y, w) ELSE y
    IN CASE op = "div" -> IF y = 0 THEN 0 ELSE Cut(Quotient(sx, sy), w)
         [] op = "mod" -> IF y = 0 THEN x ELSE Cut(sx - sy * Quotient(sx, sy), w)

\* reg[dst] after an arithmetic instruction of width w (32-bit results are
\* zero-extended); x and y are the operands, off selects signed division and
\* the width a MOV sign-extends from.
Arithmetic(op, off, w, dx, sy) ==
    LET x == Cut(dx, w)
        y == Cut(sy, w)
    IN CASE op = "add" -> Cut(x + y, w)
         [] op = "sub" -> Cut(x - y, w)
         [] op = "mul" -> Cut(x * y, w)
         [] op \in {"div", "mod"} -> Divide(op, off = 1, x, y, w)
         [] op = "or"  -> x | y
         [] op = "and" -> x & y
         [] op = "xor" -> x ^^ y
         [] op = "lsh" -> Cut(x * 2^(y % w), w)
         [] op = "rsh" -> x \div 2^(y % w)
         [] op = "arsh" -> Cut(Signed(x, w) \div 2^(y % w), w)
         [] op = "neg" -> Cut(-x, w)
         [] op = "mov" -> IF off = 0 THEN y ELSE SignExtend(y, off, w)

\* LE, BE and BSWAP: imm is the number of bits kept.
Endian(op, imm, x) ==
    IF op = "le" THEN Cut(x, imm) ELSE SwapBytes(Cut(x, imm), imm, imm)

Condition(op, w, dx, sy) ==
    LET x == Cut(dx, w)
        y == Cut(sy, w)
        sx == Signed(dx, w)
        ss == Signed(sy, w)
    IN CASE op = "jeq" -> x = y
         [] op = "jne" -> x # y
         [] op = "jgt" -> x > y
         [] op = "jge" -> x >= y
         [] op = "jlt" -> x < y
         [] op = "jle" -> x <= y
         [] op = "jset" -> (x & y) # 0
         [] op = "jsgt" -> sx > ss
         [] op = "jsge" -> sx >= ss
         [] op = "jslt" -> sx < ss
         [] op = "jsle" -> sx <= ss

\* A store of n bits of v into the word c, and a load of n bits of c.
ubpf_mem_store(c, v, n) == Cut(v, n) + (c \div 2^n) * 2^n
ubpf_mem_load(c, n) == Cut(c, n)
ubpf_mem_load_sx(c, n) == SignExtend(c, n, W)

\* The word of memory after an atomic operation of width n that found c there.
AtomicResult(op, n, c, acc, v) ==
    CASE op \in {"add", "or", "and", "xor"} -> ubpf_mem_store(c, Arithmetic(op, 0, n, c, v), n)
      [] op = "xchg" -> ubpf_mem_store(c, v, n)
      [] op = "cmpxchg" -> IF Cut(c, n) = Cut(acc, n) THEN ubpf_mem_store(c, v, n) ELSE c

-----------------------------------------------------------------------------
(* Instructions: cls and op name the operation, w its width, isreg tells   *)
(* whether the operand is src or imm; off and imm are signed.              *)

Operand(i, r) == IF i.isreg THEN r[i.src] ELSE Cut(i.imm, W)

\* The address a load, store or atomic accesses.
EffectiveAddress(i, r) == Cut((IF i.cls \in {"ldx", "ldsx"} THEN r[i.src] ELSE r[i.dst]) + i.off, W)

\* Does an atomic operation give back the word it found, and in which register?
AtomicFetches(i) == i.fetch \/ i.op \in {"xchg", "cmpxchg"}
FetchIndex(i) == IF i.op = "cmpxchg" THEN 0 ELSE i.src

\* The registers after instruction i, started with r, when the word of memory
\* is c and a helper returns res.
RegistersAfter(i, r, c, res) ==
    CASE i.cls = "alu" -> [r EXCEPT ![i.dst] = Arithmetic(i.op, i.off, i.w, @, Operand(i, r))]
      [] i.cls = "endian" -> [r EXCEPT ![i.dst] = Endian(i.op, i.imm, @)]
      [] i.cls = "ldx" -> [r EXCEPT ![i.dst] = ubpf_mem_load(c, i.w)]
      [] i.cls = "ldsx" -> [r EXCEPT ![i.dst] = ubpf_mem_load_sx(c, i.w)]
      [] i.cls = "lddw" -> [r EXCEPT ![i.dst] = Cut(i.imm, W)]
      [] i.cls = "atomic" -> IF AtomicFetches(i) THEN [r EXCEPT ![FetchIndex(i)] = Cut(c, i.w)] ELSE r
      [] i.cls = "call" -> [r EXCEPT ![0] = res]
      [] OTHER -> r

\* The word of memory after instruction i.
CellAfter(i, r, c) ==
    CASE i.cls \in {"st", "stx"} -> ubpf_mem_store(c, Operand(i, r), i.w)
      [] i.cls = "atomic" -> AtomicResult(i.op, i.w, c, r[0], r[i.src])
      [] OTHER -> c

\* Does it store to memory at all?
WritesMemory(i, r, c) ==
    \/ i.cls \in {"st", "stx"}
    \/ i.cls = "atomic" /\ (i.op = "cmpxchg" => Cut(c, i.w) = Cut(r[0], i.w))

\* Where control goes: to the next instruction, to the jump's target, or out
\* of the program when the unwind helper returned 0.
NextAfter(i, r, res) ==
    CASE i.cls = "jmp" -> IF Condition(i.op, i.w, r[i.dst], Operand(i, r)) THEN "target" ELSE "next"
      [] i.cls = "ja" -> "target"
      [] i.cls = "call" -> IF i.imm = Unwind /\ res = 0 THEN "exit" ELSE "next"
      [] OTHER -> "next"

=============================================================================
