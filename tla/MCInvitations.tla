--------------------------- MODULE MCInvitations ---------------------------
(* The instance of Invitations: two interchangeable requests, and a Team invitation that is sent twice. *)
EXTENDS Invitations, TLC

Sent == [i \in Invitation |-> IF i = "team" THEN 2 ELSE 1]

AnyRequest == Permutations(Request)
===========================================================================
