-------------------------- MODULE MCResponseEngine --------------------------
(* Finite instances of ResponseEngine: every alert has one attacker. *)
EXTENDS ResponseEngine, TLC

CONSTANTS w1, w2, p1, a1, a2, ip1

OneHome     == [w \in Workers |-> p1]
OneAttacker == [al \in Alerts |-> ip1]

\* A live policy that blocks, one that tells as well, a simulated one that
\* isolates and logs.
BlockOrTell == {[actions |-> <<"block_ip">>, live |-> TRUE],
                [actions |-> <<"block_ip", "send_email">>, live |-> TRUE],
                [actions |-> <<"quarantine_host", "generate_incident">>, live |-> FALSE]}

Requests == {<<>>, <<"unblock_ip">>, <<"block_ip", "unblock_ip">>,
             <<"restart_service", "log_response">>}

\* Workers are interchangeable, and so are alerts of one attacker.
Interchangeable == Permutations(Workers) \cup Permutations(Alerts)
=============================================================================
