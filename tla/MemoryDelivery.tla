---------------------------- MODULE MemoryDelivery ----------------------------
(***************************************************************************)
(* What the offline outbox promises: a memory write that was queued while  *)
(* the Team OS API could not be reached stays queued until the API has it. *)
(* The API may receive a write any number of times, queued or not.         *)
(***************************************************************************)
CONSTANT Request

VARIABLES
    owed,   \* the writes that are queued
    got     \* the writes the API has received

Init == owed = {} /\ got = {}

Accept(r) == owed' = owed \cup {r} /\ UNCHANGED got

Receive(r) == got' = got \cup {r} /\ UNCHANGED owed

Settle(r) ==
    /\ r \in owed \cap got
    /\ owed' = owed \ {r}
    /\ UNCHANGED got

Next == \E r \in Request : Accept(r) \/ Receive(r) \/ Settle(r)

Spec == Init /\ [][Next]_<<owed, got>>

=============================================================================
