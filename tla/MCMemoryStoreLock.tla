-------------------------- MODULE MCMemoryStoreLock --------------------------
(***************************************************************************)
(* MemoryStoreLock with three processes.                                   *)
(***************************************************************************)
EXTENDS MemoryStoreLock

=============================================================================
