----------------------------- MODULE FlowManager -----------------------------
(***************************************************************************)
(* The live flow table of packet_capture/flow_manager.py and the threads   *)
(* that share it:                                                          *)
(*                                                                         *)
(*   - capture threads (Sniffers) call add_packet();                       *)
(*   - the "flow-timeout-checker" thread reaps expired flows and hands     *)
(*     long-lived ones to the periodic classifier;                         *)
(*   - a controller (the event loop) calls start() and stop().             *)
(*                                                                         *)
(* A step is a maximal run of one thread between two points where another  *)
(* thread can observe or change the table: a section under _lock, or one   *)
(* callback.  Flow objects live in `heap` and are referred to by identity  *)
(* (the uuid of the code): a thread may hold a flow the table no longer    *)
(* holds.  Instants are kept as ages, saturated at the threshold the code  *)
(* compares them with, so that behaviours are infinite and states finitely *)
(* many.                                                                   *)
(***************************************************************************)
EXTENDS Integers

CONSTANTS
    Keys,              \* direction-agnostic 5-tuples
    TcpKeys,           \* those whose protocol is TCP
    Sniffers,          \* capture threads that may be alive together
    MaxFlows,          \* bound: flow objects ever created
    IdleTimeout,       \* DEFAULT_IDLE_TIMEOUT_SECONDS, in ticks
    MaxDuration,       \* DEFAULT_MAX_FLOW_DURATION_SECONDS, in ticks
    ClassifyInterval,  \* DEFAULT_PERIODIC_CLASSIFY_INTERVAL_SECONDS, in ticks
    MinPackets,        \* DEFAULT_PERIODIC_CLASSIFY_MIN_PACKETS
    PacketCap,         \* bound: packet counts saturate here
    Lags,              \* how long a packet may wait between capture and parsing
    PeriodicWired      \* is on_periodic_classify given (capture_service does)

ASSUME FlowConstants ==
    /\ TcpKeys \subseteq Keys
    /\ MaxFlows \in Nat
    /\ IdleTimeout \in Nat
    /\ MaxDuration \in Nat
    /\ ClassifyInterval \in Nat
    /\ PacketCap \in Nat \ {0}
    /\ MinPackets \in 0..PacketCap
    /\ Lags \subseteq Nat
    /\ PeriodicWired \in BOOLEAN

FlowIds == 1..MaxFlows
NoFlow  == 0
Never   == -1          \* a key absent from _last_periodic_classify

VARIABLES
    table,       \* _flows: key -> flow in progress
    heap,        \* the flow objects
    nextId,      \* identity of the next flow object
    stamp,       \* _last_periodic_classify: key -> age of its stamp
    holding,     \* the flow add_packet has popped and not yet closed
    reaper,      \* where the timeout thread is
    expired,     \* its local list `expired`
    chosen,      \* its local variable `flow` after the periodic scan
    stopEvent,   \* _stop_event
    ctl,         \* where the controller is in stop()
    remaining,   \* close_all's local list `remaining`
    closes       \* how often on_flow_closed was called with each flow

vars == <<table, heap, nextId, stamp, holding, reaper, expired, chosen,
          stopEvent, ctl, remaining, closes>>
threadVars == <<reaper, expired, chosen, stopEvent, ctl, remaining>>

-----------------------------------------------------------------------------
(* Ages and flow objects                                                   *)

Saturate(n, cap) == IF n < cap THEN n ELSE cap
Lower(m, n)      == IF m < n THEN m ELSE n

Flow == [key: Keys \cup {NoFlow}, packets: 0..PacketCap, age: 0..MaxDuration,
         idle: 0..IdleTimeout, terminal: BOOLEAN]

\* The content of a flow object not created yet.
Blank == [key |-> NoFlow, packets |-> 0, age |-> 0, idle |-> 0,
          terminal |-> FALSE]

\* Flow(...) with start_time = the first packet's timestamp.
NewFlow(k, lag) ==
    [key |-> k, packets |-> 0, age |-> Saturate(lag, MaxDuration),
     idle |-> IdleTimeout, terminal |-> FALSE]

\* Flow.add_packet: count it, remember FIN or RST, last_seen = max(...).
Touched(f, terminal, lag) ==
    [f EXCEPT !.packets  = Saturate(@ + 1, PacketCap),
              !.idle     = Lower(@, Saturate(lag, IdleTimeout)),
              !.terminal = @ \/ terminal]

TableFlows == {i \in FlowIds : \E k \in Keys : table[k] = i}

\* The operators named Faulty* (here and in the other modules) are variants a
\* mistake in the code could produce; they are used in no specification, only to
\* see that the properties tell them from the definition that follows them.

\* saw_terminal_flag, and the test add_packet makes of it.
FaultyTerminated(f) == f.terminal /\ f.packets >= PacketCap
Terminated(f) == f.key \in TcpKeys /\ f.terminal

\* The table after popping the flows of S, and after _flows.clear().
FaultyWithout(S) == table
Without(S) == [k \in Keys |-> IF table[k] \in S THEN NoFlow ELSE table[k]]

FaultyCleared == table
Cleared == [k \in Keys |-> NoFlow]

FaultyAlive == FALSE
Alive == reaper \notin {"absent", "crashed"}

-----------------------------------------------------------------------------
Init ==
    /\ table = [k \in Keys |-> NoFlow]
    /\ heap = [i \in FlowIds |-> Blank]
    /\ nextId = 1
    /\ stamp = [k \in Keys |-> Never]
    /\ holding = [s \in Sniffers |-> NoFlow]
    /\ reaper = "absent"
    /\ expired = {}
    /\ chosen = NoFlow
    /\ stopEvent = FALSE
    /\ ctl = "idle"
    /\ remaining = {}
    /\ closes = [i \in FlowIds |-> 0]

-----------------------------------------------------------------------------
(* Capture threads: add_packet                                             *)

\* The section under the lock: find or create the flow, add the packet, and
\* pop a TCP flow whose FIN or RST has been seen.
AddPacket(s, k, terminal, lag) ==
    LET i    == IF table[k] = NoFlow THEN nextId ELSE table[k]
        flow == Touched(IF table[k] = NoFlow THEN NewFlow(k, lag) ELSE heap[i],
                        terminal, lag)
    IN /\ holding[s] = NoFlow
       /\ terminal => k \in TcpKeys
       /\ i \in FlowIds
       /\ heap' = [heap EXCEPT ![i] = flow]
       /\ nextId' = IF i = nextId THEN nextId + 1 ELSE nextId
       /\ table' = [table EXCEPT ![k] = IF Terminated(flow) THEN NoFlow ELSE i]
       /\ holding' = IF Terminated(flow) THEN [holding EXCEPT ![s] = i] ELSE holding
       /\ UNCHANGED <<stamp, closes, threadVars>>

\* on_flow_closed, called for one flow; what it raises is swallowed by _close.
Close(i) == closes' = [closes EXCEPT ![i] = @ + 1]

\* After the lock: _close(close_now), then the on_packet hook.
CloseTerminated(s) ==
    /\ holding[s] # NoFlow
    /\ Close(holding[s])
    /\ holding' = [holding EXCEPT ![s] = NoFlow]
    /\ UNCHANGED <<table, heap, nextId, stamp, threadVars>>

-----------------------------------------------------------------------------
(* The timeout thread                                                      *)

FaultyExpired(f) == f.idle >= IdleTimeout
Expired(f) == f.idle >= IdleTimeout \/ f.age >= MaxDuration

ExpiredFlows == {i \in TableFlows : Expired(heap[i])}

\* wait() returned on its timeout: pop every expired flow under the lock.
ReapExpired ==
    /\ reaper = "waiting"
    /\ ~stopEvent
    /\ expired' = ExpiredFlows
    /\ table' = Without(ExpiredFlows)
    /\ reaper' = "closing"
    /\ UNCHANGED <<heap, nextId, stamp, holding, chosen, stopEvent, ctl,
                   remaining, closes>>

\* Close the popped flows one by one, in table (that is, creation) order.
CloseExpired ==
    /\ reaper = "closing"
    /\ \E i \in expired :
         /\ \A j \in expired : i <= j
         /\ Close(i)
         /\ expired' = expired \ {i}
    /\ UNCHANGED <<table, heap, nextId, stamp, holding, reaper, chosen,
                   stopEvent, ctl, remaining>>

Qualifies(k) ==
    /\ table[k] # NoFlow
    /\ heap[table[k]].packets >= MinPackets
    /\ stamp[k] \in {Never, ClassifyInterval}

\* The periodic scan.  Every qualifying key is stamped, but the loop variable
\* that outlives the loop is the flow scanned last: the newest in the table,
\* whether it qualified or not.  With an empty table the variable is unbound,
\* the except clause evaluates it once more, and the thread dies.
PeriodicScan ==
    /\ reaper = "closing"
    /\ expired = {}
    /\ IF PeriodicWired
       THEN /\ stamp' = [k \in Keys |-> IF Qualifies(k) THEN 0 ELSE stamp[k]]
            /\ \/ /\ TableFlows = {}
                  /\ reaper' = "crashed"
                  /\ UNCHANGED chosen
               \/ \E i \in TableFlows :
                  /\ \A j \in TableFlows : j <= i
                  /\ chosen' = i
                  /\ reaper' = "classifying"
       ELSE reaper' = "waiting" /\ UNCHANGED <<stamp, chosen>>
    /\ UNCHANGED <<table, heap, nextId, holding, expired, stopEvent, ctl,
                   remaining, closes>>

\* on_periodic_classify(flow), outside the lock.
PeriodicCallback ==
    /\ reaper = "classifying"
    /\ reaper' = "waiting"
    /\ chosen' = NoFlow
    /\ UNCHANGED <<table, heap, nextId, stamp, holding, expired, stopEvent,
                   ctl, remaining, closes>>

\* wait() returned because the event is set: the loop, and the thread, end.
ReaperExits ==
    /\ reaper = "waiting"
    /\ stopEvent
    /\ reaper' = "absent"
    /\ UNCHANGED <<table, heap, nextId, stamp, holding, expired, chosen,
                   stopEvent, ctl, remaining, closes>>

-----------------------------------------------------------------------------
(* The controller                                                          *)

\* start(): returns at once, without clearing the event, if a thread is alive.
Start ==
    /\ ctl = "idle"
    /\ ~Alive
    /\ stopEvent' = FALSE
    /\ reaper' = "waiting"
    /\ UNCHANGED <<table, heap, nextId, stamp, holding, expired, chosen, ctl,
                   remaining, closes>>

Stop ==
    /\ ctl = "idle"
    /\ stopEvent' = TRUE
    /\ ctl' = "joining"
    /\ UNCHANGED <<table, heap, nextId, stamp, holding, reaper, expired,
                   chosen, remaining, closes>>

\* join(timeout) returns: the thread has ended or, if it was in the middle of
\* a sweep rather than in wait(), the timeout may have passed.  close_all then
\* empties both dictionaries under the lock.
CloseAll ==
    /\ ctl = "joining"
    /\ reaper # "waiting"
    /\ remaining' = TableFlows
    /\ table' = Cleared
    /\ stamp' = [k \in Keys |-> Never]
    /\ ctl' = "closing"
    /\ UNCHANGED <<heap, nextId, holding, reaper, expired, chosen, stopEvent,
                   closes>>

CloseRemaining ==
    /\ ctl = "closing"
    /\ \/ \E i \in remaining :
            /\ \A j \in remaining : i <= j
            /\ Close(i)
            /\ remaining' = remaining \ {i}
            /\ UNCHANGED ctl
       \/ /\ remaining = {}
          /\ ctl' = "idle"
          /\ UNCHANGED <<remaining, closes>>
    /\ UNCHANGED <<table, heap, nextId, stamp, holding, reaper, expired,
                   chosen, stopEvent>>

-----------------------------------------------------------------------------
\* Time passes.  Only the instants of flows in the table are still compared.
Tick ==
    /\ heap' = [i \in FlowIds |->
                  IF i \in TableFlows
                  THEN [heap[i] EXCEPT !.age  = Saturate(@ + 1, MaxDuration),
                                       !.idle = Saturate(@ + 1, IdleTimeout)]
                  ELSE heap[i]]
    /\ stamp' = [k \in Keys |->
                   IF stamp[k] = Never THEN Never
                   ELSE Saturate(stamp[k] + 1, ClassifyInterval)]
    /\ UNCHANGED <<table, nextId, holding, closes, threadVars>>

Sniffer(s) ==
    \/ \E k \in Keys, terminal \in BOOLEAN, lag \in Lags :
          AddPacket(s, k, terminal, lag)
    \/ CloseTerminated(s)

Reaper == \/ ReapExpired \/ CloseExpired \/ PeriodicScan
          \/ PeriodicCallback \/ ReaperExits

Controller == Start \/ Stop \/ CloseAll \/ CloseRemaining

Next == (\E s \in Sniffers : Sniffer(s)) \/ Reaper \/ Controller \/ Tick

Spec == Init /\ [][Next]_vars

\* Clocks advance, and a thread that can run does.  Nothing obliges packets to
\* arrive or anybody to call start() or stop(); a stop() begun is finished.
Fairness ==
    /\ WF_vars(Tick)
    /\ WF_vars(Reaper)
    /\ WF_vars(CloseAll \/ CloseRemaining)
    /\ \A s \in Sniffers : WF_vars(CloseTerminated(s))

FairSpec == Spec /\ Fairness

-----------------------------------------------------------------------------
(* Properties                                                              *)

TypeOK ==
    /\ table \in [Keys -> FlowIds \cup {NoFlow}]
    /\ heap \in [FlowIds -> Flow]
    /\ nextId \in 1..(MaxFlows + 1)
    /\ stamp \in [Keys -> {Never} \cup (0..ClassifyInterval)]
    /\ holding \in [Sniffers -> FlowIds \cup {NoFlow}]
    /\ reaper \in {"absent", "waiting", "closing", "classifying", "crashed"}
    /\ expired \in SUBSET FlowIds
    /\ chosen \in FlowIds \cup {NoFlow}
    /\ stopEvent \in BOOLEAN
    /\ ctl \in {"idle", "joining", "closing"}
    /\ remaining \in SUBSET FlowIds
    /\ closes \in [FlowIds -> Nat]
    /\ expired # {} => reaper = "closing"
    /\ chosen # NoFlow <=> reaper = "classifying"
    /\ remaining # {} => ctl = "closing"

\* Who answers for flow i: a key of the table, a thread that popped it, or
\* nobody any more because on_flow_closed has been called.
Owners(i) ==
    {<<"table", k>>   : k \in {x \in Keys : table[x] = i}} \cup
    {<<"sniffer", s>> : s \in {x \in Sniffers : holding[x] = i}} \cup
    {<<"reaper", x>>  : x \in expired \cap {i}} \cup
    {<<"stop", x>>    : x \in remaining \cap {i}} \cup
    {<<"closed", x>>  : x \in {y \in {i} : closes[y] > 0}}

\* Every flow object created has exactly one owner at every moment: pops by
\* add_packet, the timeout thread and close_all never lose a flow ("so nothing
\* captured is silently discarded", close_all), never give it to two threads,
\* and never leave it in the table after closing it.
ExactlyOneOwner ==
    \A i \in FlowIds :
        IF i < nextId THEN \E o \in Owners(i) : Owners(i) = {o}
        ELSE Owners(i) = {}

\* on_flow_closed is called at most once per flow, however packets, sweeps and
\* stop() interleave: an alert is produced once per completed flow (alert.py).
ClosedAtMostOnce == \A i \in FlowIds : closes[i] <= 1

\* The table maps a key only to an unfinished flow of that key: packets that
\* follow a FIN or RST can never be added to the flow it ended.
TableFlowsAreOpen ==
    \A k \in Keys : table[k] # NoFlow =>
        /\ heap[table[k]].key = k
        /\ k \in TcpKeys => ~heap[table[k]].terminal

\* start() has been called and stop() has not been called since.
Started == ~stopEvent /\ reaper # "absent"

\* As long as the manager stays started and its timeout thread lives, no flow
\* stays open for ever, even one that keeps receiving packets, and also one that
\* a stop() before the last start() or a late packet left behind.
OpenFlowsClose ==
    <>[](Started /\ Alive) => \A i \in FlowIds : i < nextId ~> closes[i] > 0

\* The same without the condition on the thread, as the "safety valve" of
\* DEFAULT_MAX_FLOW_DURATION_SECONDS has it: nothing but stop() ends it.
StartedClosesFlows ==
    <>[]Started => \A i \in FlowIds : i < nextId ~> closes[i] > 0

\* The flow table implements the ledger: open means in the table, ended means
\* popped by a thread that has not made the callback yet.
Ledger == INSTANCE FlowLedger WITH
    Sizes <- 1..PacketCap,
    NoKey <- NoFlow,
    stage <- [i \in FlowIds |-> IF i >= nextId THEN "unborn"
                                ELSE IF i \in TableFlows THEN "open"
                                ELSE IF closes[i] = 0 THEN "ended"
                                ELSE "closed"],
    keyOf <- [i \in FlowIds |-> heap[i].key],
    size  <- [i \in FlowIds |-> heap[i].packets]

LedgerSpec == Ledger!Spec

=============================================================================
