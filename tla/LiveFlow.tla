------------------------------ MODULE LiveFlow ------------------------------
(***************************************************************************)
(* One flow from its packets to the vector a model is asked about:         *)
(* packet_capture/packet_filter.py and packet_parser.py (a frame becomes a *)
(* packet), Flow.add_packet (the capture thread writes the flow field by   *)
(* field, under the table's lock), flow_features.py (a worker reads it     *)
(* field by field, without that lock), feature_mapper.py, ml/validator.py  *)
(* and ml/inference.py (the features become the model's input).            *)
(*                                                                         *)
(* FlowManager has the table, its threads and its clock; here the timeout  *)
(* thread may sweep or expire the flow at any time.  ModelRegistry has the *)
(* versions of the model; here the predictor in memory is the set of       *)
(* feature names its scaler was fitted on.                                 *)
(***************************************************************************)
EXTENDS Integers, FiniteSets, SequencesExt

CONSTANTS
    Frames,       \* frames on the wire
    Protocols,    \* PacketFilterConfig.protocols, {} for no filter
    Address,      \* ip_to_int of each end, 0 for IPv6
    Port,         \* port of each end
    MinPackets,   \* DetectionService.MIN_FLOW_PACKETS
    Models,       \* the inputs of the models an operator may activate
    Workers,      \* detection workers
    MaxPackets,   \* bound: packets of the flow
    MaxSweeps,    \* bound: periodic sweeps
    MaxSwitches   \* bound: changes of the predictor

ASSUME LiveFlowConstants ==
    /\ MinPackets \in Nat \ {0}
    /\ MaxPackets \in Nat /\ MaxSweeps \in Nat /\ MaxSwitches \in Nat
    /\ {} \notin Models /\ Models # {}
    /\ \A f \in Frames : f.length \in Nat /\ f.time \in Nat

BaseFlags == <<"FIN", "SYN", "RST", "PSH", "ACK", "URG">>
TcpFlags  == ToSet(BaseFlags) \cup {"ECE", "CWR"}
Sides     == {"fwd", "bwd"}

VARIABLES
    flow,      \* the Flow object
    place,     \* "none" before its first packet, then "table", then "closed"
    adding,    \* the packet add_packet is at, and the writes it has still to do
    packets,   \* history: the packets of the flow
    handed,    \* has a sweep chosen it and not yet called the classifier
    queue,     \* jobs in the executor: "periodic" or "final"
    job,       \* what each worker does
    model,     \* raw_feature_names of the predictor in memory, {} without one
    sweeps,    \* periodic sweeps so far
    switches,  \* changes of the predictor so far
    outcomes   \* what became of the jobs that ended

vars == <<flow, place, adding, packets, handed, queue, job, model, sweeps,
          switches, outcomes>>

-----------------------------------------------------------------------------
(* From the wire: a frame that passes the filter, and what is parsed of it *)

Captured(f) == f.network \in {"ip", "ip6"} /\ (Protocols = {} \/ f.transport \in Protocols)

\* parse_packet returns None for the others.
Parses(f) == f.network \in {"ip", "ip6"} /\ f.transport \in {"TCP", "UDP", "ICMP"} /\ f.whole

Parsed(f) ==
    [protocol |-> f.transport, from |-> f.from, time |-> f.time, length |-> f.length,
     flags |-> IF f.transport = "TCP" THEN f.flags \cap TcpFlags ELSE {}]

\* Two packets of one flow: the ends are the same two here, in either order.
SameKey(p, q) == p.protocol = q.protocol

\* Two dictionaries in one, and a dictionary with one more entry, as @@ and :>
\* make them, which the proof system does not know.
Joined(f, g) ==
    [x \in DOMAIN f \cup DOMAIN g |-> IF x \in DOMAIN f THEN f[x] ELSE g[x]]
With(f, x, value) == Joined(f, [y \in {x} |-> value])

-----------------------------------------------------------------------------
(* The flow object                                                         *)

NewFlow(p) ==
    [protocol |-> p.protocol, initiator |-> p.from, started |-> p.time, lastSeen |-> 0,
     lengths |-> [s \in Sides |-> <<>>], stamps |-> [s \in Sides |-> <<>>],
     psh |-> [s \in Sides |-> 0], urg |-> [s \in Sides |-> 0],
     keys |-> BaseFlags, counts |-> [x \in ToSet(BaseFlags) |-> 0]]

Side(f, p) == IF p.from = f.initiator THEN "fwd" ELSE "bwd"

\* The first write of add_packet, and those that follow it.  tcp_flags is a
\* frozenset: the order of its flags is any.
Lengthened(f, p) == [f EXCEPT !.lengths[Side(f, p)] = Append(@, p.length)]

If(b, w) == IF b THEN <<w>> ELSE <<>>

WriteOrders(p) ==
    {<<"stamp">> \o If("PSH" \in p.flags, "psh") \o If("URG" \in p.flags, "urg")
        \o order \o <<"seen">> : order \in SetToSeqs(p.flags)}

Counted(f, x) ==
    IF x \in DOMAIN f.counts THEN [f EXCEPT !.counts[x] = @ + 1]
    ELSE [f EXCEPT !.keys = Append(@, x), !.counts = With(@, x, 1)]

Written(f, p, w) ==
    CASE w = "stamp" -> [f EXCEPT !.stamps[Side(f, p)] = Append(@, p.time)]
      [] w = "psh"   -> [f EXCEPT !.psh[Side(f, p)] = @ + 1]
      [] w = "urg"   -> [f EXCEPT !.urg[Side(f, p)] = @ + 1]
      [] w = "seen"  -> [f EXCEPT !.lastSeen = Max({@, p.time})]
      [] OTHER       -> Counted(f, w)

PacketCount(f) == Len(f.lengths["fwd"]) + Len(f.lengths["bwd"])

Terminated(f) == f.protocol = "TCP" /\ (f.counts["FIN"] > 0 \/ f.counts["RST"] > 0)

Nothing == [writes |-> <<>>]

\* handle_flow_closed: flows of too few packets are not classified.
Submit(kind, f) ==
    queue' = IF PacketCount(f) < MinPackets THEN queue ELSE Append(queue, kind)

\* The capture thread has the lock of the table from here to the last write.
Arrive(frame) ==
    LET p == Parsed(frame)
        f == IF place = "none" THEN NewFlow(p) ELSE flow
    IN  /\ Captured(frame) /\ Parses(frame)
        /\ adding = Nothing /\ place \in {"none", "table"} /\ Len(packets) < MaxPackets
        /\ place = "table" => SameKey(p, packets[1])
        /\ place' = "table"
        /\ flow' = Lengthened(f, p)
        /\ packets' = Append(packets, p)
        /\ \E writes \in WriteOrders(p) : adding' = [packet |-> p, writes |-> writes]
        /\ UNCHANGED <<handed, queue, job, model, sweeps, switches, outcomes>>

Write ==
    /\ Len(adding.writes) > 1
    /\ flow' = Written(flow, adding.packet, Head(adding.writes))
    /\ adding' = [adding EXCEPT !.writes = Tail(@)]
    /\ UNCHANGED <<place, packets, handed, queue, job, model, sweeps, switches, outcomes>>

\* A TCP flow that saw FIN or RST leaves the table and is submitted.
LastWrite ==
    /\ Len(adding.writes) = 1
    /\ flow' = Written(flow, adding.packet, Head(adding.writes))
    /\ adding' = Nothing
    /\ IF Terminated(flow') THEN place' = "closed" /\ Submit("final", flow')
       ELSE UNCHANGED <<place, queue>>
    /\ UNCHANGED <<packets, handed, job, model, sweeps, switches, outcomes>>

-----------------------------------------------------------------------------
(* The timeout thread, which needs the lock to look at the table           *)

FaultyLockFree == TRUE
LockFree == adding = Nothing

\* Idle or open for too long; a stop of the capture does the same, in a thread
\* of its own.
Expire ==
    /\ LockFree /\ place = "table"
    /\ place' = "closed"
    /\ Submit("final", flow)
    /\ UNCHANGED <<flow, adding, packets, handed, job, model, sweeps, switches, outcomes>>

\* The last flow of the table is handed over whatever the loop's tests said.
Sweep ==
    /\ LockFree /\ place = "table" /\ ~handed /\ sweeps < MaxSweeps
    /\ handed' = TRUE
    /\ sweeps' = sweeps + 1
    /\ UNCHANGED <<flow, place, adding, packets, queue, job, model, switches, outcomes>>

\* Without the lock: packets may arrive, or close the flow, before.
HandOver ==
    /\ handed
    /\ handed' = FALSE
    /\ Submit("periodic", flow)
    /\ UNCHANGED <<flow, place, adding, packets, job, model, sweeps, switches, outcomes>>

-----------------------------------------------------------------------------
(* extract_flow_features: the reads of the live flow, in the order of the  *)
(* code, and the features computed from what was read                      *)

FaultyReads ==
    <<"lastSeen", "inPkts", "outPkts", "inBytes", "outBytes", "lengths", "stamps",
      "SYN", "ACK", "FIN", "RST", "PSH", "scan",
      "fwdPsh", "fwdUrg", "bwdPsh", "bwdUrg", "fwdStamps", "bwdStamps">>
Reads ==
    <<"lastSeen", "lengths", "stamps", "inPkts", "outPkts", "inBytes", "outBytes",
      "SYN", "ACK", "FIN", "RST", "PSH", "scan",
      "fwdPsh", "fwdUrg", "bwdPsh", "bwdUrg", "fwdStamps", "bwdStamps">>

Sum(s) ==
    LET total[i \in 0..Len(s)] == IF i = 0 THEN 0 ELSE total[i - 1] + s[i]
    IN  total[Len(s)]

Value(f, what) ==
    CASE what = "lastSeen"  -> f.lastSeen
      [] what = "lengths"   -> f.lengths["fwd"] \o f.lengths["bwd"]
      [] what = "stamps"    -> f.stamps["fwd"] \o f.stamps["bwd"]
      [] what = "inPkts"    -> Len(f.lengths["fwd"])
      [] what = "outPkts"   -> Len(f.lengths["bwd"])
      [] what = "inBytes"   -> Sum(f.lengths["fwd"])
      [] what = "outBytes"  -> Sum(f.lengths["bwd"])
      [] what = "fwdPsh"    -> f.psh["fwd"] > 0
      [] what = "fwdUrg"    -> f.urg["fwd"] > 0
      [] what = "bwdPsh"    -> f.psh["bwd"] > 0
      [] what = "bwdUrg"    -> f.urg["bwd"] > 0
      [] what = "fwdStamps" -> f.stamps["fwd"]
      [] what = "bwdStamps" -> f.stamps["bwd"]
      [] OTHER              -> f.counts[what]

\* A fraction is the pair of its numerator and its denominator.
AtLeastOne(n)  == Max({n, 1})
Quotient(n, d) == IF d > 0 THEN <<n, d>> ELSE <<0, 1>>
Least(s)    == IF s = <<>> THEN 0 ELSE Min(ToSet(s))
Greatest(s) == IF s = <<>> THEN 0 ELSE Max(ToSet(s))

\* num_pkts_lo_to_hi, and how many there are of each length: all that spread,
\* skewness and entropy depend on, besides the mean.
FaultyWithin(s, lo, hi) == Sum([i \in DOMAIN s |-> IF lo <= s[i] /\ s[i] <= hi THEN 1 ELSE 0])
Within(s, lo, hi) == Sum([i \in DOMAIN s |-> IF lo < s[i] /\ s[i] <= hi THEN 1 ELSE 0])
Frequencies(s) == [n \in ToSet(s) |-> Cardinality({i \in DOMAIN s : s[i] = n})]

Gaps(s) ==
    LET t == SortSeq(s, <) IN [i \in 1..(Len(t) - 1) |-> t[i + 1] - t[i]]

PortCategory(n) == IF n <= 1023 THEN 0 ELSE IF n <= 49151 THEN 1 ELSE 2

ProtocolNumber(name) == CASE name = "TCP" -> 6 [] name = "UDP" -> 17 [] OTHER -> 1

Other(end) == CHOOSE e \in DOMAIN Port : e # end

\* Features of the live pipeline that are constants of the code.
AlwaysZero ==
    {"RETRANSMITTED_IN_BYTES", "RETRANSMITTED_IN_PKTS", "RETRANSMITTED_OUT_BYTES",
     "RETRANSMITTED_OUT_PKTS", "TCP_WIN_MAX_IN", "TCP_WIN_MAX_OUT", "ICMP_TYPE",
     "ICMP_IPV4_TYPE", "DNS_QUERY_ID", "DNS_QUERY_TYPE", "DNS_TTL_ANSWER",
     "FTP_COMMAND_RET_CODE"}

\* Flag masks are sets of flags, times are milliseconds.
NetFlowFeatures(f, v) ==
    LET duration == 1000 * Max({0, v.lastSeen - f.started})
        dst == Other(f.initiator)
    IN [IPV4_SRC_ADDR |-> Address[f.initiator], L4_SRC_PORT |-> Port[f.initiator],
        IPV4_DST_ADDR |-> Address[dst], L4_DST_PORT |-> Port[dst],
        PROTOCOL |-> ProtocolNumber(f.protocol), L7_PROTO |-> ProtocolNumber(f.protocol),
        IN_BYTES |-> v.inBytes, IN_PKTS |-> v.inPkts,
        OUT_BYTES |-> v.outBytes, OUT_PKTS |-> v.outPkts,
        TCP_FLAGS |-> v.scan,
        CLIENT_TCP_FLAGS |-> {x \in {"PSH"} : v.fwdPsh} \cup {x \in {"URG"} : v.fwdUrg},
        SERVER_TCP_FLAGS |-> {x \in {"PSH"} : v.bwdPsh} \cup {x \in {"URG"} : v.bwdUrg},
        FLOW_DURATION_MILLISECONDS |-> duration,
        DURATION_IN |-> duration, DURATION_OUT |-> duration,
        MIN_TTL |-> 64, MAX_TTL |-> 64,
        LONGEST_FLOW_PKT |-> Greatest(v.lengths), SHORTEST_FLOW_PKT |-> Least(v.lengths),
        MIN_IP_PKT_LEN |-> Least(v.lengths), MAX_IP_PKT_LEN |-> Greatest(v.lengths),
        SRC_TO_DST_SECOND_BYTES |-> v.inBytes, DST_TO_SRC_SECOND_BYTES |-> v.outBytes,
        SRC_TO_DST_AVG_THROUGHPUT |-> Quotient(1000 * v.inBytes, duration),
        DST_TO_SRC_AVG_THROUGHPUT |-> Quotient(1000 * v.outBytes, duration),
        NUM_PKTS_UP_TO_128_BYTES |-> Within(v.lengths, -1, 128),
        NUM_PKTS_128_TO_256_BYTES |-> Within(v.lengths, 128, 256),
        NUM_PKTS_256_TO_512_BYTES |-> Within(v.lengths, 256, 512),
        NUM_PKTS_512_TO_1024_BYTES |-> Within(v.lengths, 512, 1024),
        NUM_PKTS_1024_TO_1514_BYTES |-> Within(v.lengths, 1024, 1514)]

EnhancedFeatures(f, v) ==
    LET total == v.inPkts + v.outPkts
        mean == Quotient(v.inBytes + v.outBytes, total)
        gaps == Gaps(v.stamps)
        average(s) == Quotient(Sum(s), Len(s))
    IN [FWD_TO_BWD_PKT_RATIO |-> <<v.inPkts, AtLeastOne(v.outPkts)>>,
        FWD_TO_BWD_BYTE_RATIO |-> <<v.inBytes, AtLeastOne(v.outBytes)>>,
        THROUGHPUT_RATIO |-> <<v.inBytes, v.outBytes, v.lastSeen - f.started>>,
        AVG_IAT |-> average(gaps), STD_IAT |-> Frequencies(gaps), CV_IAT |-> Frequencies(gaps),
        MIN_IAT |-> Least(gaps), MAX_IAT |-> Greatest(gaps),
        AVG_FWD_IAT |-> average(Gaps(v.fwdStamps)), AVG_BWD_IAT |-> average(Gaps(v.bwdStamps)),
        PKT_SIZE_MEAN |-> mean, PKT_SIZE_STD |-> <<Frequencies(v.lengths), mean>>,
        PKT_SIZE_SKEW |-> Frequencies(v.lengths), PKT_SIZE_ENTROPY |-> Frequencies(v.lengths),
        SYN_TO_ACK_RATIO |-> <<v.SYN, AtLeastOne(v.ACK)>>,
        RST_RATE |-> <<v.RST, AtLeastOne(total)>>, FIN_RATE |-> <<v.FIN, AtLeastOne(total)>>,
        PSH_RATE |-> <<v.PSH, AtLeastOne(total)>>,
        PORT_ENTROPY |-> IF \E c \in 0..2 : \A e \in DOMAIN Port : PortCategory(Port[e]) = c
                         THEN 0 ELSE 1]

Features(f, v) ==
    Joined(NetFlowFeatures(f, v), Joined(EnhancedFeatures(f, v), [name \in AlwaysZero |-> 0]))

\* CANONICAL_FEATURES of the schema, and the columns training drops from them.
CanonicalFeatures == AlwaysZero \cup {
    "IPV4_SRC_ADDR", "L4_SRC_PORT", "IPV4_DST_ADDR", "L4_DST_PORT", "PROTOCOL", "L7_PROTO",
    "IN_BYTES", "IN_PKTS", "OUT_BYTES", "OUT_PKTS", "TCP_FLAGS", "CLIENT_TCP_FLAGS",
    "SERVER_TCP_FLAGS", "FLOW_DURATION_MILLISECONDS", "DURATION_IN", "DURATION_OUT", "MIN_TTL",
    "MAX_TTL", "LONGEST_FLOW_PKT", "SHORTEST_FLOW_PKT", "MIN_IP_PKT_LEN", "MAX_IP_PKT_LEN",
    "SRC_TO_DST_SECOND_BYTES", "DST_TO_SRC_SECOND_BYTES", "SRC_TO_DST_AVG_THROUGHPUT",
    "DST_TO_SRC_AVG_THROUGHPUT", "NUM_PKTS_UP_TO_128_BYTES", "NUM_PKTS_128_TO_256_BYTES",
    "NUM_PKTS_256_TO_512_BYTES", "NUM_PKTS_512_TO_1024_BYTES", "NUM_PKTS_1024_TO_1514_BYTES"}
\* ENHANCED_FEATURES: computed from live traffic, unknown to that training.
EnhancedNames == {
    "FWD_TO_BWD_PKT_RATIO", "FWD_TO_BWD_BYTE_RATIO", "THROUGHPUT_RATIO", "AVG_IAT", "STD_IAT",
    "CV_IAT", "MIN_IAT", "MAX_IAT", "AVG_FWD_IAT", "AVG_BWD_IAT", "PKT_SIZE_MEAN",
    "PKT_SIZE_STD", "PKT_SIZE_SKEW", "PKT_SIZE_ENTROPY", "SYN_TO_ACK_RATIO", "RST_RATE",
    "FIN_RATE", "PSH_RATE", "PORT_ENTROPY"}
DroppedColumns == {"IPV4_SRC_ADDR", "IPV4_DST_ADDR"}

\* map_to_model_features: exactly the expected names, zero for those missing.
FaultyMapped(features, expected) == [name \in expected \cap DOMAIN features |-> features[name]]
Mapped(features, expected) ==
    [name \in expected |-> IF name \in DOMAIN features THEN features[name] ELSE 0]

-----------------------------------------------------------------------------
(* A worker                                                                *)

Idle == [kind |-> "none"]

\* Packets of which every write was done.
Complete == Len(packets) - (IF adding = Nothing THEN 0 ELSE 1)

Take(w) ==
    /\ job[w] = Idle /\ queue # <<>>
    /\ job' = [job EXCEPT ![w] = [kind |-> Head(queue), at |-> 1, view |-> <<>>,
                                  since |-> Complete, left |-> <<>>, size |-> 0]]
    /\ queue' = Tail(queue)
    /\ UNCHANGED <<flow, place, adding, packets, handed, model, sweeps, switches, outcomes>>

WorkerStays == UNCHANGED <<flow, place, adding, packets, handed, queue, model, sweeps, switches>>

At(w, what) == job[w] # Idle /\ job[w].at <= Len(Reads) /\ Reads[job[w].at] = what

Read(w) ==
    /\ \E what \in ToSet(Reads) \ {"scan"} :
        /\ At(w, what)
        /\ job' = [job EXCEPT ![w].at = @ + 1,
                              ![w].view = With(@, what, Value(flow, what))]
    /\ UNCHANGED outcomes
    /\ WorkerStays

\* The result of an answer is the vector, that of a rejection how often the
\* predictor was changed meanwhile.
Ends(w, how, result) ==
    /\ outcomes' = outcomes \cup
        {[how |-> how, result |-> result, kind |-> job[w].kind, since |-> job[w].since,
          upto |-> Len(packets)]}
    /\ job' = [job EXCEPT ![w] = Idle]

\* The loop over flag_counts.items(): a dictionary that grew since the loop
\* began makes it raise; _classify_and_store logs that and drops the flow.
ScanBegins(w) ==
    /\ At(w, "scan") /\ "scan" \notin DOMAIN job[w].view
    /\ job' = [job EXCEPT ![w].view = With(@, "scan", {}),
                          ![w].left = flow.keys, ![w].size = Len(flow.keys)]
    /\ UNCHANGED outcomes
    /\ WorkerStays

Scan(w) ==
    /\ At(w, "scan") /\ "scan" \in DOMAIN job[w].view
    /\ IF Len(flow.keys) # job[w].size THEN Ends(w, "raised", 0)
       ELSE /\ job' =
                IF job[w].left = <<>> THEN [job EXCEPT ![w].at = @ + 1]
                ELSE [job EXCEPT ![w].left = Tail(@),
                       ![w].view["scan"] = @ \cup {x \in {Head(job[w].left)} : flow.counts[x] > 0}]
            /\ UNCHANGED outcomes
    /\ WorkerStays

\* classify_flow asks for the expected features of the predictor in memory ...
Map(w) ==
    /\ job[w] # Idle /\ job[w].at = Len(Reads) + 1
    /\ IF model = {} THEN Ends(w, "no model", 0)
       ELSE /\ job' = [job EXCEPT ![w] =
                [kind |-> @.kind, at |-> @.at + 1, since |-> @.since, asked |-> switches,
                 vector |-> Mapped(Features(flow, @.view), model)]]
            /\ UNCHANGED outcomes
    /\ WorkerStays

\* ... and then for its prediction, of the predictor in memory by then: a name
\* it misses or does not know is a FeatureValidationFailed.
Valid(vector) == DOMAIN vector = model

Predict(w) ==
    /\ job[w] # Idle /\ job[w].at = Len(Reads) + 2
    /\ \/ model = {} /\ Ends(w, "no model", 0)
       \/ model # {} /\ ~Valid(job[w].vector) /\ Ends(w, "rejected", switches - job[w].asked)
       \/ model # {} /\ Valid(job[w].vector) /\ Ends(w, "answered", job[w].vector)
    /\ WorkerStays

\* A model is activated, deleted or trained: ModelRegistry says when.
SwitchModel(m) ==
    /\ switches < MaxSwitches /\ m # model
    /\ model' = m
    /\ switches' = switches + 1
    /\ UNCHANGED <<flow, place, adding, packets, handed, queue, job, sweeps, outcomes>>

-----------------------------------------------------------------------------
Init ==
    /\ flow = <<>>
    /\ place = "none"
    /\ adding = Nothing
    /\ packets = <<>>
    /\ handed = FALSE
    /\ queue = <<>>
    /\ job = [w \in Workers |-> Idle]
    /\ model \in Models
    /\ sweeps = 0
    /\ switches = 0
    /\ outcomes = {}

Next ==
    \/ \E f \in Frames : Arrive(f)
    \/ Write \/ LastWrite
    \/ Expire \/ Sweep \/ HandOver
    \/ \E w \in Workers :
        Take(w) \/ Read(w) \/ ScanBegins(w) \/ Scan(w) \/ Map(w) \/ Predict(w)
    \/ \E m \in Models \cup {{}} : SwitchModel(m)

Spec == Init /\ [][Next]_vars

-----------------------------------------------------------------------------
(* Properties                                                              *)

Answered == {o \in outcomes : o.how = "answered"}
Lost     == outcomes \ Answered

\* Those a model trained on the schema answered: a model with other columns is
\* given zeros for all of them.
Measured == {o \in Answered : CanonicalFeatures \ DroppedColumns \subseteq DOMAIN o.result}

\* Of a sequence of packets: those of one side, all their bytes and flags, and
\* how many of any size fit a bucket of the histogram.
OnSide(s, side) == {i \in DOMAIN s : (s[i].from = s[1].from) <=> (side = "fwd")}
Bytes(s, I)     == Sum([i \in DOMAIN s |-> IF i \in I THEN s[i].length ELSE 0])
Flags(s, I)     == UNION {s[i].flags : i \in I}
Fitting(s, I)   == Cardinality({i \in I : s[i].length <= 1514})

Buckets(v) ==
    v.NUM_PKTS_UP_TO_128_BYTES + v.NUM_PKTS_128_TO_256_BYTES + v.NUM_PKTS_256_TO_512_BYTES
        + v.NUM_PKTS_512_TO_1024_BYTES + v.NUM_PKTS_1024_TO_1514_BYTES

\* A vector computed from exactly the packets s, and one between two prefixes.
Exact(s, v) ==
    LET mine    == OnSide(s, "fwd")
        theirs  == OnSide(s, "bwd")
        times   == {s[i].time : i \in DOMAIN s}
        lengths == {s[i].length : i \in DOMAIN s}
    IN  /\ v.IN_PKTS = Cardinality(mine) /\ v.IN_BYTES = Bytes(s, mine)
        /\ v.OUT_PKTS = Cardinality(theirs) /\ v.OUT_BYTES = Bytes(s, theirs)
        /\ v.TCP_FLAGS = Flags(s, DOMAIN s)
        /\ v.CLIENT_TCP_FLAGS = Flags(s, mine) \cap {"PSH", "URG"}
        /\ v.SERVER_TCP_FLAGS = Flags(s, theirs) \cap {"PSH", "URG"}
        /\ v.FLOW_DURATION_MILLISECONDS = 1000 * (Max(times) - s[1].time)
        /\ v.LONGEST_FLOW_PKT = Max(lengths) /\ v.SHORTEST_FLOW_PKT = Min(lengths)
        /\ Buckets(v) = Fitting(s, DOMAIN s)

Bracketed(s, v, since, upto) ==
    LET total == v.IN_PKTS + v.OUT_PKTS
    IN  /\ since <= total /\ total <= upto
        /\ Fitting(s, 1..since) <= Buckets(v) /\ Buckets(v) <= total
        /\ Bytes(s, 1..since) <= v.IN_BYTES + v.OUT_BYTES
        /\ v.IN_BYTES + v.OUT_BYTES <= Bytes(s, 1..upto)
        /\ Flags(s, 1..since) \subseteq v.TCP_FLAGS
        /\ v.TCP_FLAGS \subseteq Flags(s, 1..upto)

\* A flow that was closed is classified on all of its packets and on nothing
\* else, although the worker takes no lock: packets, bytes, flags of each
\* direction and duration are those of the packets (flow_features.py:93).
ClosedFlowsAreExact ==
    \A o \in Measured : o.kind = "final" => Exact(packets, o.result)

\* A flow that is classified while it grows is read in pieces; they are pieces
\* of what it was between the start and the end of the classification, and the
\* sizes counted in the histogram are never more than the packets
\* (flow_features.py:104, 112, 116).
SnapshotsAreBracketed ==
    \A o \in Measured : Bracketed(packets, o.result, o.since, o.upto)

\* A submitted flow is lost only when no model is loaded, when the model was
\* changed between the two looks of the classification at it (detector.py:49,
\* 52), or, for a flow still in the table, when the first ECE or CWR flag came
\* while its flags were read (flow_features.py:139).
LossesAreExplained ==
    \A o \in Lost :
        \/ o.how = "no model" /\ switches > 0
        \/ o.how = "rejected" /\ o.result > 0
        \/ /\ o.how = "raised" /\ o.kind = "periodic"
           /\ Flags(packets, (o.since + 1)..o.upto) \cap {"ECE", "CWR"} # {}
=============================================================================
