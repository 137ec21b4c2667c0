---------------------- MODULE MCMemoryConsolidation ----------------------
(* Two captures of one session, or one capture and two clients. *)
EXTENDS MemoryConsolidation

CONSTANTS c1, c2, k1, k2

OneSession == [c \in Captures |-> "s"]
Sees(own1, own2) == [k \in Clients |-> IF k = k1 THEN own1 ELSE own2]

\* Two clients after one capture, with what may happen to it; a client alone with two captures;
\* two clients of which one may claim what the other claims, and more.
SmallScenarios ==
  {[visible |-> Sees({c1}, {c1}), events |-> {"gone", "review", "month"}],
   [visible |-> Sees({c1}, {c1}), events |-> {"race", "slow", "crash", "resend", "gone", "review", "month"}],
   [visible |-> Sees({c1, c2}, {}), events |-> {"twice", "gone", "month"}],
   [visible |-> Sees({c1, c2}, {}), events |-> {"omit", "slow", "resend", "month"}],
   [visible |-> Sees({c1, c2}, {c1}), events |-> {"gone"}],
   [visible |-> Sees({c1, c2}, {c1}), events |-> {"race"}]}

\* A client whose claims expire, with a server that may crash.
CrashScenarios == {[visible |-> Sees({c1}, {}), events |-> {"gone", "crash"}]}
=============================================================================
