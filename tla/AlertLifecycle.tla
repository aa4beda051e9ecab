--------------------------- MODULE AlertLifecycle ---------------------------
(***************************************************************************)
(* What the detection pipeline promises of each alert (services/           *)
(* alert_service.py, module docstring): it is recorded at most once,       *)
(* published only after it has been recorded, answered by the subscribers  *)
(* of on_alert_persisted only after it has been published, and each of     *)
(* these happens at most once.  A flow never has two recorded alerts at a  *)
(* time.                                                                   *)
(***************************************************************************)
CONSTANTS Alerts, Flows

VARIABLES
    stage,     \* "pending", "dropped", "recorded", "published", "answered"
    subject,   \* the flow each alert is about, once it is known
    stored     \* the alerts that are in the database

vars == <<stage, subject, stored>>

NoFlow == 0

Init ==
    /\ stage = [a \in Alerts |-> "pending"]
    /\ subject = [a \in Alerts |-> NoFlow]
    /\ stored = {}

Raise(a, f) ==
    /\ subject[a] = NoFlow
    /\ subject' = [subject EXCEPT ![a] = f]
    /\ UNCHANGED <<stage, stored>>

Drop(a) ==
    /\ stage[a] = "pending"
    /\ stage' = [stage EXCEPT ![a] = "dropped"]
    /\ UNCHANGED <<subject, stored>>

\* A flow already described by a stored alert is not described again.
Record(a, f) ==
    /\ stage[a] = "pending"
    /\ subject[a] \in {NoFlow, f}
    /\ \A b \in stored : subject[b] # f
    /\ stage' = [stage EXCEPT ![a] = "recorded"]
    /\ subject' = [subject EXCEPT ![a] = f]
    /\ stored' = stored \cup {a}

Publish(a) ==
    /\ stage[a] = "recorded"
    /\ stage' = [stage EXCEPT ![a] = "published"]
    /\ UNCHANGED <<subject, stored>>

\* The subscribers are called, or one of them fails and the rest is skipped.
Answer(a) ==
    /\ stage[a] = "published"
    /\ stage' = [stage EXCEPT ![a] = "answered"]
    /\ UNCHANGED <<subject, stored>>

\* An administrator clears the stored alerts.
Clear(S) ==
    /\ S \subseteq stored
    /\ stored' = stored \ S
    /\ UNCHANGED <<stage, subject>>

Next ==
    \/ \E a \in Alerts, f \in Flows : Raise(a, f) \/ Record(a, f)
    \/ \E a \in Alerts : Drop(a) \/ Publish(a) \/ Answer(a)
    \/ \E S \in SUBSET stored : Clear(S)

Spec == Init /\ [][Next]_vars

=============================================================================
