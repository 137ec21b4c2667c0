--------------------------- MODULE MCTaskSession ---------------------------
(***************************************************************************)
(* TaskSession with small sets of processes, requests and background work. *)
(***************************************************************************)
EXTENDS TaskSession

=============================================================================
