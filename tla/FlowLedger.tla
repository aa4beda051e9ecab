----------------------------- MODULE FlowLedger ------------------------------
(***************************************************************************)
(* What the flow table promises to its subscriber, without threads, locks  *)
(* or clocks: a connection (key) has at most one open flow; only an open   *)
(* flow receives packets; a flow that has ended never changes again and is *)
(* closed, that is given to on_flow_closed, exactly once.                  *)
(***************************************************************************)
EXTENDS Integers

CONSTANTS Keys, FlowIds, Sizes, NoKey

VARIABLES
    stage,   \* "unborn", "open", "ended" or "closed", for each flow
    keyOf,   \* the connection each flow belongs to
    size     \* how many packets it holds

vars == <<stage, keyOf, size>>

Init ==
    /\ stage = [i \in FlowIds |-> "unborn"]
    /\ keyOf = [i \in FlowIds |-> NoKey]
    /\ size = [i \in FlowIds |-> 0]

\* The first packet of a flow may also be its last (a lone RST).
Open(i, k) ==
    /\ stage[i] = "unborn"
    /\ \A j \in FlowIds : ~(stage[j] = "open" /\ keyOf[j] = k)
    /\ \E s \in {"open", "ended"} : stage' = [stage EXCEPT ![i] = s]
    /\ keyOf' = [keyOf EXCEPT ![i] = k]
    /\ \E n \in Sizes : size' = [size EXCEPT ![i] = n]

Receive(i) ==
    /\ stage[i] = "open"
    /\ \E s \in {"open", "ended"} : stage' = [stage EXCEPT ![i] = s]
    /\ \E n \in Sizes : n >= size[i] /\ size' = [size EXCEPT ![i] = n]
    /\ UNCHANGED keyOf

\* Several flows may end at once: a sweep, or a shutdown.
End(S) ==
    /\ \A i \in S : stage[i] = "open"
    /\ stage' = [i \in FlowIds |-> IF i \in S THEN "ended" ELSE stage[i]]
    /\ UNCHANGED <<keyOf, size>>

Close(i) ==
    /\ stage[i] = "ended"
    /\ stage' = [stage EXCEPT ![i] = "closed"]
    /\ UNCHANGED <<keyOf, size>>

Next ==
    \/ \E i \in FlowIds, k \in Keys : Open(i, k)
    \/ \E i \in FlowIds : Receive(i) \/ Close(i)
    \/ \E S \in SUBSET FlowIds : End(S)

Spec == Init /\ [][Next]_vars

=============================================================================
