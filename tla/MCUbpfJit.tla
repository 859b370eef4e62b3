----------------------------- MODULE MCUbpfJit -----------------------------
(* Instances of UbpfJit: programs of a main function and two sub-programs. *)
EXTENDS UbpfJit

Op(cls, op, isreg, dst, src, off, imm, jump) ==
    [cls |-> cls, op |-> op, w |-> S64, isreg |-> isreg, dst |-> dst, src |-> src, off |-> off,
     imm |-> imm, jump |-> jump, fetch |-> FALSE]

ExitInsn == Op("exit", "exit", FALSE, 0, 0, 0, 0, 0)
Change(r) == Op("alu", "add", FALSE, r, 0, 0, 1, 0)
Collect == Op("alu", "xor", TRUE, 0, 6, 0, 0, 0)
Spill == Op("stx", "mem", TRUE, 10, 6, -1, 0, 0)
Reload == Op("ldx", "mem", TRUE, 6, 10, -1, 0, 0)
Helper(k) == Op("call", "call", FALSE, 0, 0, 0, k, 0)
Call(from, to) == Op("call", "call", FALSE, 0, 1, 0, to - from - 1, 0)
Skip == Op("jmp", "jeq", FALSE, 0, 0, 0, 0, 1)
Jump == Op("ja", "ja", FALSE, 0, 0, 0, 0, 1)
Wide == << Op("lddw", "lddw", FALSE, 6, 0, 0, -3, 0), Op("zero", "zero", FALSE, 0, 0, 0, 5, 0) >>
Repeat == Op("jmp", "jlt", TRUE, 6, 9, 0, 0, -3)

\* main is 0 to 3, the first sub-program 4 to 6, the second 7 and 8.  A frame is
\* entered otherwise than by a call only where all have the same stack usage.
Bodies ==
    { b \in { <<a, b>> \o c \o d \o <<ExitInsn, e, ExitInsn>> :
        a \in {Spill, Skip, Change(6)}, b \in {Call(1, 4), Helper(0)},
        c \in ({Reload, Call(2, 4), Jump, Repeat} \X {ExitInsn, Collect}) \cup {Wide},
        d \in ({Change(6), Spill, Call(4, 7)} \X {Call(5, 7), Helper(Unwind), Jump}) \cup {Wide},
        e \in {Change(9), Helper(Unwind)} } :
      b[1] = Change(6) <=> b[3] = Repeat }
Uniform(b) == b[4] # ExitInsn \/ b[3] = Jump \/ b[6] = Jump
Usage(b, basic) ==
    [pc \in {0, 4, 7} |-> CASE ~basic -> 0
                            [] basic /\ (Uniform(b) \/ pc = 0) -> 2
                            [] basic /\ ~Uniform(b) /\ pc # 0 -> IF pc = 4 THEN 1 ELSE 3]
Ample == 1000
NoBlind == [on |-> FALSE, random |-> 0]
Blind == [on |-> TRUE, random |-> 155]

\* Room for every program; for some also too little, at every place in the code.
Sizes(b) == IF b[2] = Call(1, 4) /\ b[3] = Wide[1] /\ b[5] = Spill THEN (2 .. 130) \cup {Ample} ELSE {Ample}

Programs ==
    \E b \in Bodies, isa \in {"x86", "arm64"}, basic \in BOOLEAN, disp \in {0, DispatcherAddr}, res \in {0, 44} :
    \E size \in Sizes(b) :
        prog = [isa |-> isa, insns |-> b, usage |-> Usage(b, basic), basic |-> basic,
                blind |-> IF isa = "arm64" /\ basic THEN Blind ELSE NoBlind, disp |-> disp, res |-> res,
                size |-> size]

Init == Programs /\ Start
Spec == Init /\ [][Next]_vars

\* A program that changes a register and calls a helper, with blinding.
BlindedProgram ==
    prog = [isa |-> "x86", insns |-> <<Change(6), Helper(0), ExitInsn>>, usage |-> [pc \in {0} |-> 2],
            basic |-> TRUE, blind |-> Blind, disp |-> 0, res |-> 44, size |-> Ample]
BlindedInit == BlindedProgram /\ Start
BlindedSpec == BlindedInit /\ [][Next]_vars
=============================================================================
