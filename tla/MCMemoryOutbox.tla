--------------------------- MODULE MCMemoryOutbox ---------------------------
(* The instance of MemoryOutbox: one write that two processes drain. *)
EXTENDS MemoryOutbox, TLC

CONSTANTS p1, p2, r1, k1

TwoProcesses == {p1, p2}
OneRequest   == {r1}
OneSlot      == {k1}
OneKey       == r1 :> k1

=============================================================================
