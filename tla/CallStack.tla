----------------------------- MODULE CallStack -----------------------------
(***************************************************************************)
(* What an eBPF program is promised about local calls, whichever engine    *)
(* runs it: a call saves where to come back to, the callee-saved registers *)
(* R6 - R9 and the frame pointer R10; the matching exit gives all of them  *)
(* back; calls nest at most MaxCallDepth deep; between calls and exits     *)
(* nothing moves the frame pointer.                                        *)
(***************************************************************************)
EXTENDS Naturals

CONSTANTS
    MaxCallDepth,  \* UBPF_MAX_CALL_DEPTH
    Word           \* values of a register

VARIABLES
    over,          \* the program has returned or failed
    at,            \* the instruction to execute next
    kept,          \* R6 - R10
    depth,         \* calls that have not returned
    saved          \* what each of them will restore

vars == <<over, at, kept, depth, saved>>

Kept == 6 .. 10
Activation == [at : Nat, kept : [Kept -> Word]]

Init ==
    /\ over = FALSE
    /\ at = 0
    /\ kept \in [Kept -> Word]
    /\ depth = 0
    /\ saved \in [0 .. MaxCallDepth - 1 -> Activation]

Step ==
    /\ ~over
    /\ at' \in Nat
    /\ kept' \in [Kept -> Word] /\ kept'[10] = kept[10]
    /\ UNCHANGED <<over, depth, saved>>

Call ==
    /\ ~over /\ depth < MaxCallDepth
    /\ saved' = [saved EXCEPT ![depth] = [at |-> at + 1, kept |-> kept]]
    /\ depth' = depth + 1
    /\ at' \in Nat
    /\ kept' \in [Kept -> Word] /\ \A r \in 6 .. 9 : kept'[r] = kept[r]
    /\ UNCHANGED over

Return ==
    /\ ~over /\ depth > 0
    /\ depth' = depth - 1
    /\ at' = saved[depth - 1].at
    /\ kept' = saved[depth - 1].kept
    /\ UNCHANGED <<over, saved>>

Stop ==
    /\ over' = TRUE
    /\ at' \in Nat
    /\ UNCHANGED <<kept, depth, saved>>

Next == Step \/ Call \/ Return \/ Stop

Spec == Init /\ [][Next]_vars

=============================================================================
