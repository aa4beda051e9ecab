----------------------------- MODULE MCLiveFlow -----------------------------
(* Finite instance of LiveFlow. *)
EXTENDS LiveFlow

CONSTANT w1

Frame(network, transport, from, time, length, flags) ==
    [network |-> network, transport |-> transport, from |-> from, time |-> time,
     length |-> length, flags |-> flags, whole |-> TRUE]

\* An opening of the connection, data in both directions (one frame larger than
\* every bucket, one with a congestion flag), an end, an ICMP message that the
\* filter drops and a datagram of another flow.
MCFrames == {
    Frame("ip", "TCP", "a", 1, 60, {"SYN"}),
    Frame("ip", "TCP", "b", 3, 256, {"ACK", "ECE"}),
    Frame("ip6", "TCP", "a", 2, 1600, {"PSH", "ACK"}),
    Frame("ip", "TCP", "b", 4, 128, {"FIN", "URG"}),
    Frame("ip", "ICMP", "a", 1, 60, {}),
    Frame("ip", "UDP", "b", 2, 1514, {})}

MCAddress == [a |-> 7, b |-> 9]
MCPort    == [a |-> 50000, b |-> 443]

\* Every feature of the schema is computed from a flow, so that none is filled
\* with zero for a model trained on them (feature_schema.py:142, 145).
ASSUME SchemaIsComputed ==
    LET f == NewFlow(Parsed(CHOOSE x \in MCFrames : TRUE))
        v == [r \in ToSet(Reads) |-> IF r = "scan" THEN {} ELSE Value(f, r)]
    IN  /\ CanonicalFeatures = DOMAIN NetFlowFeatures(f, v) \cup AlwaysZero
        /\ EnhancedNames = DOMAIN EnhancedFeatures(f, v)

\* What scripts/train_v1_model.py and scripts/train_model.py fit a scaler on.
MCModels == {CanonicalFeatures \ DroppedColumns, {"Destination Port", "Flow Duration"}}
=============================================================================
