-------------------------- MODULE MCCronLeadership --------------------------
(* Instances of CronLeadership for TLC. *)
EXTENDS CronLeadership, TLC

CONSTANTS d1, d2, w1, w2

\* A daemon that is restarted once, beside one server.
RestartedDaemon == {d1, d2}
OneDaemon       == {d1}
OneServer       == {w1}
TwoServers      == {w1, w2}

\* A daemon has died and left its record, which is stale by now; from then on no
\* runtime is ever suspended long enough for a record to grow old.
PromptInit ==
    /\ lock = [owner |-> d1, age |-> StaleAge + 1]
    /\ at = [p \in Runtime |-> IF p = d1 THEN "dead" ELSE "off"]
    /\ claim = [p \in Runtime |-> NoFile]
    /\ stranded = {}
    /\ job = [p \in Runtime |-> "none"]
    /\ seen = [p \in Runtime |-> NoFile]
    /\ draft = [p \in Runtime |-> NoFile]
    /\ leads = [p \in Runtime |-> FALSE]
    /\ activeJobs = TRUE

PromptNext == \E p \in Runtime : Prompt(p)
PromptSpec == PromptInit /\ [][PromptNext]_vars

=============================================================================
