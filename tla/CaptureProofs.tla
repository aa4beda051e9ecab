---------------------------- MODULE CaptureProofs ----------------------------
(***************************************************************************)
(* Theorems about FlowManager, for any number of keys, capture threads and *)
(* flows and any timeouts, and then about the capture sessions on top of   *)
(* it.  The sessions are shown to use the flow manager as FlowManager's    *)
(* specification allows, so every theorem about Spec holds under them, for *)
(* any number of sessions; what stop_capture promises follows from that    *)
(* and from an invariant of the sessions.                                  *)
(***************************************************************************)
EXTENDS CaptureService, TLAPS


\* Saturating an age stays within its bound, and keeps it a natural number.
LEMMA SaturateRange ==
    ASSUME NEW n \in Nat, NEW cap \in Nat
    PROVE  Saturate(n, cap) \in 0..cap
BY DEF Saturate

LEMMA LowerRange ==
    ASSUME NEW cap \in Nat, NEW m \in 0..cap, NEW n \in 0..cap
    PROVE  Lower(m, n) \in 0..cap
BY DEF Lower

\* A new flow object, and a flow object that received a packet, are well formed.
LEMMA NewFlowType ==
    ASSUME NEW k \in Keys, NEW lag \in Lags
    PROVE  NewFlow(k, lag) \in Flow
<1>1. lag \in Nat /\ MaxDuration \in Nat /\ IdleTimeout \in Nat /\ PacketCap \in Nat
  BY FlowConstants
<1>2. Saturate(lag, MaxDuration) \in 0..MaxDuration
  BY <1>1, SaturateRange
<1>. QED
  BY <1>1, <1>2 DEF NewFlow, Flow

LEMMA TouchedType ==
    ASSUME NEW f \in Flow, NEW terminal \in BOOLEAN, NEW lag \in Lags
    PROVE  /\ Touched(f, terminal, lag) \in Flow
           /\ Touched(f, terminal, lag).key = f.key
<1>1. /\ lag \in Nat /\ IdleTimeout \in Nat /\ PacketCap \in Nat
      /\ f.packets \in 0..PacketCap /\ f.idle \in 0..IdleTimeout
      /\ f.terminal \in BOOLEAN
  BY FlowConstants DEF Flow
<1>2. Saturate(f.packets + 1, PacketCap) \in 0..PacketCap
  <2>1. f.packets + 1 \in Nat
    BY <1>1
  <2>. QED
    BY <1>1, <2>1, SaturateRange
<1>3. Lower(f.idle, Saturate(lag, IdleTimeout)) \in 0..IdleTimeout
  BY <1>1, SaturateRange, LowerRange
<1>4. (f.terminal \/ terminal) \in BOOLEAN
  OBVIOUS
<1>. QED
  BY <1>1, <1>2, <1>3, <1>4 DEF Touched, Flow

LEMMA TypeInit == Init => TypeOK
<1> USE FlowConstants DEF NoFlow, Never, FlowIds
<1>1. 0 \in 0..PacketCap /\ 0 \in 0..MaxDuration /\ 0 \in 0..IdleTimeout
  OBVIOUS
<1>2. Blank \in Flow
  BY <1>1 DEF Blank, Flow
<1>3. Init => closes \in [FlowIds -> Nat] /\ nextId \in 1..(MaxFlows + 1)
  BY DEF Init
<1>. QED
  BY <1>2, <1>3 DEF Init, TypeOK

LEMMA TypeStep == TypeOK /\ [Next]_vars => TypeOK'
<1> SUFFICES ASSUME TypeOK, [Next]_vars
             PROVE  TypeOK'
  OBVIOUS
<1> USE FlowConstants DEF NoFlow, Never, FlowIds
<1>1. ASSUME NEW s \in Sniffers, NEW k \in Keys, NEW terminal \in BOOLEAN,
             NEW lag \in Lags, AddPacket(s, k, terminal, lag)
      PROVE  TypeOK'
  <2> DEFINE i == IF table[k] = NoFlow THEN nextId ELSE table[k]
             old == IF table[k] = NoFlow THEN NewFlow(k, lag) ELSE heap[i]
             new == Touched(old, terminal, lag)
  <2>1. i \in FlowIds
    BY <1>1 DEF AddPacket
  <2>2. old \in Flow
    BY <2>1, NewFlowType DEF TypeOK
  <2>3. new \in Flow
    BY <2>2, TouchedType
  <2>4. heap' = [heap EXCEPT ![i] = new]
    BY <1>1 DEF AddPacket
  <2>5. heap' \in [FlowIds -> Flow]
    BY <2>1, <2>3, <2>4 DEF TypeOK
  <2>6. table' \in [Keys -> FlowIds \cup {NoFlow}]
    BY <1>1, <2>1 DEF AddPacket, TypeOK
  <2>7. holding' \in [Sniffers -> FlowIds \cup {NoFlow}]
    BY <1>1, <2>1 DEF AddPacket, TypeOK
  <2>8. nextId' \in 1..(MaxFlows + 1)
    BY <1>1, <2>1 DEF AddPacket, TypeOK
  <2>. QED
    BY <1>1, <2>5, <2>6, <2>7, <2>8 DEF AddPacket, TypeOK, threadVars
<1>2. ASSUME NEW s \in Sniffers, CloseTerminated(s)
      PROVE  TypeOK'
  BY <1>2 DEF CloseTerminated, Close, TypeOK, threadVars
<1>3. CASE ReapExpired
  BY <1>3 DEF ReapExpired, TypeOK, ExpiredFlows, TableFlows, Without
<1>4. CASE CloseExpired
  <2>1. expired' \in SUBSET FlowIds
    BY <1>4 DEF CloseExpired, TypeOK
  <2>2. closes' \in [FlowIds -> Nat]
    BY <1>4 DEF CloseExpired, Close, TypeOK
  <2>3. reaper = "closing"
    BY <1>4 DEF CloseExpired
  <2>. QED
    BY <1>4, <2>1, <2>2, <2>3 DEF CloseExpired, TypeOK
<1>5. CASE PeriodicScan
  <2>1. stamp' \in [Keys -> {Never} \cup (0..ClassifyInterval)]
    BY <1>5 DEF PeriodicScan, TypeOK
  <2>. QED
    BY <1>5, <2>1 DEF PeriodicScan, TypeOK, TableFlows
<1>6. CASE PeriodicCallback
  BY <1>6 DEF PeriodicCallback, TypeOK
<1>7. CASE ReaperExits
  BY <1>7 DEF ReaperExits, TypeOK
<1>8. CASE Start
  BY <1>8 DEF Start, Alive, TypeOK
<1>9. CASE Stop
  BY <1>9 DEF Stop, TypeOK
<1>10. CASE CloseAll
  BY <1>10 DEF CloseAll, TypeOK, TableFlows, Cleared
<1>11. CASE CloseRemaining
  <2>1. /\ remaining' \in SUBSET FlowIds
        /\ ctl' \in {"idle", "joining", "closing"}
        /\ remaining' # {} => ctl' = "closing"
    BY <1>11 DEF CloseRemaining, TypeOK
  <2>2. closes' \in [FlowIds -> Nat]
    BY <1>11 DEF CloseRemaining, Close, TypeOK
  <2>. QED
    BY <1>11, <2>1, <2>2 DEF CloseRemaining, TypeOK
<1>12. CASE Tick
  <2>1. stamp' \in [Keys -> {Never} \cup (0..ClassifyInterval)]
    <3>1. ASSUME NEW k \in Keys, stamp[k] # Never
          PROVE  Saturate(stamp[k] + 1, ClassifyInterval) \in 0..ClassifyInterval
      <4>1. stamp[k] + 1 \in Nat
        BY <3>1 DEF TypeOK
      <4>. QED
        BY <4>1, SaturateRange
    <3>. QED
      BY <1>12, <3>1 DEF Tick, TypeOK
  <2>2. ASSUME NEW i \in FlowIds
        PROVE  heap'[i] \in Flow
    <3>0. heap[i] \in Flow
      BY DEF TypeOK
    <3>a. heap[i].age \in 0..MaxDuration /\ heap[i].idle \in 0..IdleTimeout
      BY <3>0 DEF Flow
    <3>1. heap[i].age + 1 \in Nat /\ heap[i].idle + 1 \in Nat
      BY <3>a
    <3>2. /\ Saturate(heap[i].age + 1, MaxDuration) \in 0..MaxDuration
          /\ Saturate(heap[i].idle + 1, IdleTimeout) \in 0..IdleTimeout
      BY <3>1, SaturateRange
    <3>. QED
      BY <1>12, <3>0, <3>2 DEF Tick, Flow
  <2>3. heap' \in [FlowIds -> Flow]
    BY <1>12, <2>2 DEF Tick
  <2>. QED
    BY <1>12, <2>1, <2>3 DEF Tick, TypeOK, threadVars
<1>13. CASE UNCHANGED vars
  BY <1>13 DEF vars, TypeOK
<1>. QED
  BY <1>1, <1>2, <1>3, <1>4, <1>5, <1>6, <1>7, <1>8, <1>9, <1>10, <1>11,
     <1>12, <1>13 DEF Next, Sniffer, Reaper, Controller

\* Type correctness: every variable keeps its type, and a thread's local
\* variables are empty outside the steps that use them.
THEOREM TypeCorrect == Spec => []TypeOK
BY TypeInit, TypeStep, PTL DEF Spec

-----------------------------------------------------------------------------
(* Ownership.  OwnerInv is the inductive strengthening of ExactlyOneOwner   *)
(* and ClosedAtMostOnce, in elementary form: who refers to a flow, and that *)
(* nobody else does.                                                        *)

Unclaimed(i) == i < nextId /\ closes[i] = 0

TableInv ==
    \A k \in Keys : table[k] # NoFlow =>
        /\ Unclaimed(table[k])
        /\ table[k] \notin expired \cup remaining
        /\ \A l \in Keys : table[l] = table[k] => l = k
        /\ \A s \in Sniffers : holding[s] # table[k]

SnifferInv ==
    \A s \in Sniffers : holding[s] # NoFlow =>
        /\ Unclaimed(holding[s])
        /\ holding[s] \notin expired \cup remaining
        /\ \A t \in Sniffers : holding[t] = holding[s] => t = s

ListInv ==
    /\ \A i \in expired : Unclaimed(i) /\ i \notin remaining
    /\ \A i \in remaining : Unclaimed(i)

Owned(i) ==
    \/ \E k \in Keys : table[k] = i
    \/ \E s \in Sniffers : holding[s] = i
    \/ i \in expired
    \/ i \in remaining
    \/ closes[i] = 1

CountInv ==
    \A i \in FlowIds :
        /\ i < nextId => Owned(i)
        /\ i >= nextId => closes[i] = 0
        /\ closes[i] \in {0, 1}

OwnerInv == TypeOK /\ TableInv /\ SnifferInv /\ ListInv /\ CountInv

LEMMA OwnerInit == Init => OwnerInv
<1> SUFFICES ASSUME Init PROVE OwnerInv
  OBVIOUS
<1>1. TypeOK
  BY TypeInit
<1>2. TableInv /\ SnifferInv /\ ListInv
  BY DEF Init, TableInv, SnifferInv, ListInv
<1>3. CountInv
  BY DEF Init, CountInv, FlowIds
<1>. QED
  BY <1>1, <1>2, <1>3 DEF OwnerInv

LEMMA OwnerStep == OwnerInv /\ [Next]_vars => OwnerInv'
<1> SUFFICES ASSUME OwnerInv, [Next]_vars
             PROVE  OwnerInv'
  OBVIOUS
<1>0. TypeOK /\ TypeOK'
  BY TypeStep DEF OwnerInv
<1> USE FlowConstants DEF NoFlow, FlowIds
<1> DEFINE Goal == TableInv' /\ SnifferInv' /\ ListInv' /\ CountInv'
<1>1. ASSUME NEW s \in Sniffers, NEW k \in Keys, NEW terminal \in BOOLEAN,
             NEW lag \in Lags, AddPacket(s, k, terminal, lag)
      PROVE  Goal
  <2> PICK i \in FlowIds, popped \in BOOLEAN :
        /\ i = IF table[k] = NoFlow THEN nextId ELSE table[k]
        /\ popped = Terminated(Touched(IF table[k] = NoFlow THEN NewFlow(k, lag)
                                       ELSE heap[i], terminal, lag))
    BY <1>1 DEF AddPacket, Terminated
  <2>1. /\ holding[s] = NoFlow
        /\ nextId' = IF i = nextId THEN nextId + 1 ELSE nextId
        /\ table' = [table EXCEPT ![k] = IF popped THEN NoFlow ELSE i]
        /\ holding' = IF popped THEN [holding EXCEPT ![s] = i]
                      ELSE holding
        /\ UNCHANGED <<expired, remaining, closes>>
    BY <1>1 DEF AddPacket, threadVars
  <2>2. /\ i < nextId' /\ closes'[i] = 0 /\ i \notin expired \cup remaining
        /\ \A l \in Keys : table[l] = i => l = k
        /\ \A t \in Sniffers : holding[t] # i
    BY <1>0, <2>1 DEF OwnerInv, TypeOK, TableInv, SnifferInv, ListInv,
                      CountInv, Unclaimed
  <2>3. \A j \in FlowIds : Unclaimed(j) => Unclaimed(j)'
    BY <1>0, <2>1 DEF TypeOK, Unclaimed
  <2>4. TableInv'
    BY <1>0, <2>1, <2>2, <2>3 DEF OwnerInv, TypeOK, TableInv, Unclaimed
  <2>5. SnifferInv'
    BY <1>0, <2>1, <2>2, <2>3 DEF OwnerInv, TypeOK, SnifferInv, TableInv,
                                  Unclaimed
  <2>6. ListInv'
    BY <1>0, <2>1, <2>3 DEF OwnerInv, TypeOK, ListInv
  <2>7. CountInv'
    <3> SUFFICES ASSUME NEW j \in FlowIds
                 PROVE  /\ j < nextId' => Owned(j)'
                        /\ j >= nextId' => closes'[j] = 0
                        /\ closes'[j] \in {0, 1}
      BY DEF CountInv
    <3>1. Owned(i)'
      BY <1>0, <2>1 DEF TypeOK, Owned
    <3>2. ASSUME j # i, j < nextId
          PROVE  Owned(j)'
      <4>1. Owned(j)
        BY <3>2 DEF OwnerInv, CountInv
      <4>. QED
        BY <1>0, <2>1, <3>2, <4>1 DEF TypeOK, Owned
    <3>. QED
      BY <1>0, <2>1, <3>1, <3>2 DEF OwnerInv, CountInv, TypeOK
  <2>. QED
    BY <2>4, <2>5, <2>6, <2>7
<1>2. ASSUME NEW s \in Sniffers, CloseTerminated(s)
      PROVE  Goal
  <2>1. PICK i \in FlowIds : i = holding[s]
    BY <1>0, <1>2 DEF CloseTerminated, TypeOK
  <2>2. /\ holding[s] = i
        /\ closes' = [closes EXCEPT ![i] = @ + 1]
        /\ holding' = [holding EXCEPT ![s] = NoFlow]
        /\ UNCHANGED <<table, nextId, expired, remaining>>
    BY <1>2, <2>1 DEF CloseTerminated, Close, threadVars
  <2>5. TableInv'
    BY <1>0, <2>2 DEF OwnerInv, TypeOK, TableInv, SnifferInv, ListInv,
       CountInv, Owned, Unclaimed
  <2>6. SnifferInv'
    BY <1>0, <2>2 DEF OwnerInv, TypeOK, TableInv, SnifferInv, ListInv,
       CountInv, Owned, Unclaimed
  <2>7. ListInv'
    BY <1>0, <2>2 DEF OwnerInv, TypeOK, TableInv, SnifferInv, ListInv,
       CountInv, Owned, Unclaimed
  <2>8. CountInv'
    BY <1>0, <2>2 DEF OwnerInv, TypeOK, TableInv, SnifferInv, ListInv,
       CountInv, Owned, Unclaimed
  <2>. QED
    BY <2>5, <2>6, <2>7, <2>8
<1>3. ASSUME ReapExpired
      PROVE  Goal
  <2>1. PICK S \in SUBSET FlowIds :
          /\ S = ExpiredFlows
          /\ \A i \in S : \E k \in Keys : table[k] = i
    <3>1. /\ ExpiredFlows \in SUBSET FlowIds
          /\ \A i \in ExpiredFlows : \E k \in Keys : table[k] = i
      BY DEF ExpiredFlows, TableFlows
    <3>. QED
      BY <3>1
  <2>2. /\ expired = {} /\ expired' = S
        /\ table' = [k \in Keys |-> IF table[k] \in S THEN NoFlow ELSE table[k]]
        /\ UNCHANGED <<nextId, holding, remaining, closes>>
    BY <1>0, <1>3, <2>1 DEF ReapExpired, Without, TypeOK
  <2>5. TableInv'
    BY <1>0, <2>1, <2>2 DEF OwnerInv, TypeOK, TableInv, SnifferInv, ListInv,
       CountInv, Owned, Unclaimed
  <2>6. SnifferInv'
    BY <1>0, <2>1, <2>2 DEF OwnerInv, TypeOK, TableInv, SnifferInv, ListInv,
       CountInv, Owned, Unclaimed
  <2>7. ListInv'
    BY <1>0, <2>1, <2>2 DEF OwnerInv, TypeOK, TableInv, SnifferInv, ListInv,
       CountInv, Owned, Unclaimed
  <2>8. CountInv'
    BY <1>0, <2>1, <2>2 DEF OwnerInv, TypeOK, TableInv, SnifferInv, ListInv,
       CountInv, Owned, Unclaimed
  <2>. QED
    BY <2>5, <2>6, <2>7, <2>8
<1>4. ASSUME CloseExpired
      PROVE  Goal
  <2>1. PICK i \in expired :
          /\ closes' = [closes EXCEPT ![i] = @ + 1]
          /\ expired' = expired \ {i}
          /\ UNCHANGED <<table, nextId, holding, remaining>>
    BY <1>4 DEF CloseExpired, Close
  <2>5. TableInv'
    BY <1>0, <2>1 DEF OwnerInv, TypeOK, TableInv, SnifferInv, ListInv,
       CountInv, Owned, Unclaimed
  <2>6. SnifferInv'
    BY <1>0, <2>1 DEF OwnerInv, TypeOK, TableInv, SnifferInv, ListInv,
       CountInv, Owned, Unclaimed
  <2>7. ListInv'
    BY <1>0, <2>1 DEF OwnerInv, TypeOK, TableInv, SnifferInv, ListInv,
       CountInv, Owned, Unclaimed
  <2>8. CountInv'
    BY <1>0, <2>1 DEF OwnerInv, TypeOK, TableInv, SnifferInv, ListInv,
       CountInv, Owned, Unclaimed
  <2>. QED
    BY <2>5, <2>6, <2>7, <2>8
<1>5. ASSUME PeriodicScan
      PROVE  Goal
  BY <1>5 DEF OwnerInv, PeriodicScan, TableInv, SnifferInv, ListInv,
       CountInv, Owned, Unclaimed
<1>6. ASSUME PeriodicCallback
      PROVE  Goal
  BY <1>6 DEF OwnerInv, PeriodicCallback, TableInv, SnifferInv, ListInv,
       CountInv, Owned, Unclaimed
<1>7. ASSUME ReaperExits
      PROVE  Goal
  BY <1>7 DEF OwnerInv, ReaperExits, TableInv, SnifferInv, ListInv,
       CountInv, Owned, Unclaimed
<1>8. ASSUME Start
      PROVE  Goal
  BY <1>8 DEF OwnerInv, Start, TableInv, SnifferInv, ListInv,
       CountInv, Owned, Unclaimed
<1>9. ASSUME Stop
      PROVE  Goal
  BY <1>9 DEF OwnerInv, Stop, TableInv, SnifferInv, ListInv,
       CountInv, Owned, Unclaimed
<1>10. ASSUME CloseAll
      PROVE  Goal
  <2>1. PICK S \in SUBSET FlowIds :
          /\ S = TableFlows
          /\ \A i \in FlowIds : i \in S <=> \E k \in Keys : table[k] = i
    <3>1. /\ TableFlows \in SUBSET FlowIds
          /\ \A i \in FlowIds : i \in TableFlows <=> \E k \in Keys : table[k] = i
      BY DEF TableFlows
    <3>. QED
      BY <3>1
  <2>2. /\ remaining = {} /\ remaining' = S
        /\ table' = [k \in Keys |-> NoFlow]
        /\ UNCHANGED <<nextId, holding, expired, closes>>
    BY <1>0, <1>10, <2>1 DEF CloseAll, Cleared, TypeOK
  <2>5. TableInv'
    BY <1>0, <2>1, <2>2 DEF OwnerInv, TypeOK, TableInv, SnifferInv, ListInv,
       CountInv, Owned, Unclaimed
  <2>6. SnifferInv'
    BY <1>0, <2>1, <2>2 DEF OwnerInv, TypeOK, TableInv, SnifferInv, ListInv,
       CountInv, Owned, Unclaimed
  <2>7. ListInv'
    BY <1>0, <2>1, <2>2 DEF OwnerInv, TypeOK, TableInv, SnifferInv, ListInv,
       CountInv, Owned, Unclaimed
  <2>8. CountInv'
    BY <1>0, <2>1, <2>2 DEF OwnerInv, TypeOK, TableInv, SnifferInv, ListInv,
       CountInv, Owned, Unclaimed
  <2>. QED
    BY <2>5, <2>6, <2>7, <2>8
<1>11. ASSUME CloseRemaining
      PROVE  Goal
  <2>1. CASE remaining = {}
    BY <1>11, <2>1 DEF OwnerInv, CloseRemaining, TableInv, SnifferInv, ListInv,
       CountInv, Owned, Unclaimed
  <2>2. CASE remaining # {}
    <3>1. PICK i \in remaining :
            /\ closes' = [closes EXCEPT ![i] = @ + 1]
            /\ remaining' = remaining \ {i}
            /\ UNCHANGED <<table, nextId, holding, expired>>
      BY <1>11, <2>2 DEF CloseRemaining, Close
    <3>5. TableInv'
      BY <1>0, <3>1 DEF OwnerInv, TypeOK, TableInv, SnifferInv, ListInv,
         CountInv, Owned, Unclaimed
    <3>6. SnifferInv'
      BY <1>0, <3>1 DEF OwnerInv, TypeOK, TableInv, SnifferInv, ListInv,
         CountInv, Owned, Unclaimed
    <3>7. ListInv'
      BY <1>0, <3>1 DEF OwnerInv, TypeOK, TableInv, SnifferInv, ListInv,
         CountInv, Owned, Unclaimed
    <3>8. CountInv'
      BY <1>0, <3>1 DEF OwnerInv, TypeOK, TableInv, SnifferInv, ListInv,
         CountInv, Owned, Unclaimed
    <3>. QED
      BY <3>5, <3>6, <3>7, <3>8
  <2>. QED
    BY <2>1, <2>2
<1>12. ASSUME Tick
      PROVE  Goal
  BY <1>12 DEF OwnerInv, Tick, threadVars, TableInv, SnifferInv, ListInv,
       CountInv, Owned, Unclaimed
<1>13. ASSUME UNCHANGED vars
      PROVE  Goal
  BY <1>13 DEF OwnerInv, vars, TableInv, SnifferInv, ListInv,
       CountInv, Owned, Unclaimed
<1>. QED
  <2>1. Goal
    BY <1>1, <1>2, <1>3, <1>4, <1>5, <1>6, <1>7, <1>8, <1>9, <1>10, <1>11,
       <1>12, <1>13 DEF Next, Sniffer, Reaper, Controller
  <2>. QED
    BY <1>0, <2>1 DEF OwnerInv

THEOREM Ownership == Spec => []OwnerInv
BY OwnerInit, OwnerStep, PTL DEF Spec

\* on_flow_closed is called at most once with each flow, whatever the number of
\* capture threads, keys and flows and however sweeps and stop() interleave.
THEOREM ClosedAtMostOnceHolds == Spec => []ClosedAtMostOnce
<1>1. OwnerInv => ClosedAtMostOnce
  BY DEF OwnerInv, CountInv, ClosedAtMostOnce
<1>. QED
  BY Ownership, <1>1, PTL

\* The elementary invariant says what ExactlyOneOwner says of sets of owners.
LEMMA OneOwner == OwnerInv => ExactlyOneOwner
<1> SUFFICES ASSUME OwnerInv, NEW i \in FlowIds
             PROVE  IF i < nextId THEN \E o \in Owners(i) : Owners(i) = {o}
                    ELSE Owners(i) = {}
  BY DEF ExactlyOneOwner
<1> USE DEF NoFlow, FlowIds
<1>0. i # 0 /\ closes[i] \in {0, 1} /\ nextId \in Nat /\ i \in Nat
  BY FlowConstants DEF OwnerInv, CountInv, TypeOK
<1> DEFINE T == {<<"table", k>> : k \in {x \in Keys : table[x] = i}}
           H == {<<"sniffer", s>> : s \in {x \in Sniffers : holding[x] = i}}
           E == {<<"reaper", x>> : x \in expired \cap {i}}
           R == {<<"stop", x>> : x \in remaining \cap {i}}
           C == {<<"closed", x>> : x \in {y \in {i} : closes[y] > 0}}
<1>1. Owners(i) = T \cup H \cup E \cup R \cup C
  BY DEF Owners
<1>2. ASSUME \A k \in Keys : table[k] # i PROVE T = {}
  BY <1>2
<1>3. ASSUME \A s \in Sniffers : holding[s] # i PROVE H = {}
  BY <1>3
<1>4. ASSUME i \notin expired PROVE E = {}
  BY <1>4
<1>5. ASSUME i \notin remaining PROVE R = {}
  BY <1>5
<1>6. ASSUME closes[i] = 0 PROVE C = {}
  BY <1>6
<1>7. CASE i >= nextId
  <2>1. /\ \A k \in Keys : table[k] # i
        /\ \A s \in Sniffers : holding[s] # i
        /\ i \notin expired /\ i \notin remaining /\ closes[i] = 0
    BY <1>0, <1>7 DEF OwnerInv, TableInv, SnifferInv, ListInv, CountInv, Unclaimed
  <2>. QED
    BY <1>0, <1>1, <1>2, <1>3, <1>4, <1>5, <1>6, <1>7, <2>1
<1>8. CASE i < nextId
  <2>1. CASE \E k \in Keys : table[k] = i
    <3>1. PICK k \in Keys : table[k] = i
      BY <2>1
    <3>2. /\ \A l \in Keys : table[l] = i => l = k
          /\ \A s \in Sniffers : holding[s] # i
          /\ i \notin expired /\ i \notin remaining /\ closes[i] = 0
      BY <1>0, <3>1 DEF OwnerInv, TableInv, Unclaimed
    <3>3. T = {<<"table", k>>}
      BY <3>1, <3>2
    <3>. QED
      BY <1>1, <1>3, <1>4, <1>5, <1>6, <1>8, <3>2, <3>3
  <2>2. CASE \E s \in Sniffers : holding[s] = i
    <3>1. PICK s \in Sniffers : holding[s] = i
      BY <2>2
    <3>2. /\ \A t \in Sniffers : holding[t] = i => t = s
          /\ \A k \in Keys : table[k] # i
          /\ i \notin expired /\ i \notin remaining /\ closes[i] = 0
      BY <1>0, <3>1 DEF OwnerInv, SnifferInv, TableInv, Unclaimed
    <3>3. H = {<<"sniffer", s>>}
      BY <3>1, <3>2
    <3>. QED
      BY <1>1, <1>2, <1>4, <1>5, <1>6, <1>8, <3>2, <3>3
  <2>3. CASE i \in expired
    <3>1. /\ \A k \in Keys : table[k] # i
          /\ \A s \in Sniffers : holding[s] # i
          /\ i \notin remaining /\ closes[i] = 0
      BY <1>0, <2>3 DEF OwnerInv, SnifferInv, TableInv, ListInv, Unclaimed
    <3>2. E = {<<"reaper", i>>}
      BY <2>3
    <3>. QED
      BY <1>1, <1>2, <1>3, <1>5, <1>6, <1>8, <3>1, <3>2
  <2>4. CASE i \in remaining
    <3>1. /\ \A k \in Keys : table[k] # i
          /\ \A s \in Sniffers : holding[s] # i
          /\ i \notin expired /\ closes[i] = 0
      BY <1>0, <2>4 DEF OwnerInv, SnifferInv, TableInv, ListInv, Unclaimed
    <3>2. R = {<<"stop", i>>}
      BY <2>4
    <3>. QED
      BY <1>1, <1>2, <1>3, <1>4, <1>6, <1>8, <3>1, <3>2
  <2>5. CASE closes[i] = 1
    <3>1. /\ \A k \in Keys : table[k] # i
          /\ \A s \in Sniffers : holding[s] # i
          /\ i \notin expired /\ i \notin remaining
      BY <1>0, <2>5 DEF OwnerInv, SnifferInv, TableInv, ListInv, Unclaimed
    <3>2. C = {<<"closed", i>>}
      BY <2>5
    <3>. QED
      BY <1>1, <1>2, <1>3, <1>4, <1>5, <1>8, <3>1, <3>2
  <2>. QED
    BY <1>8, <2>1, <2>2, <2>3, <2>4, <2>5 DEF OwnerInv, CountInv, Owned
<1>. QED
  BY <1>0, <1>7, <1>8

\* Every flow object created has exactly one owner at every moment: no flow is
\* lost between the table, the threads that pop flows and on_flow_closed.
THEOREM ExactlyOneOwnerHolds == Spec => []ExactlyOneOwner
BY Ownership, OneOwner, PTL

-----------------------------------------------------------------------------
(* The table only holds open flows, filed under their own key.             *)

\* What add_packet does, in terms of the flow it touches.
LEMMA AddPacketFacts ==
    ASSUME OwnerInv, NEW s \in Sniffers, NEW k \in Keys,
           NEW terminal \in BOOLEAN, NEW lag \in Lags,
           AddPacket(s, k, terminal, lag)
    PROVE  \E i \in FlowIds, old \in Flow, new \in Flow :
              /\ i = IF table[k] = NoFlow THEN nextId ELSE table[k]
              /\ old = IF table[k] = NoFlow THEN NewFlow(k, lag) ELSE heap[i]
              /\ new = Touched(old, terminal, lag)
              /\ new.key = old.key
              /\ old.packets <= new.packets
              /\ heap' = [heap EXCEPT ![i] = new]
              /\ nextId' = IF i = nextId THEN nextId + 1 ELSE nextId
              /\ table' = [table EXCEPT ![k] = IF Terminated(new) THEN NoFlow ELSE i]
              /\ UNCHANGED <<closes, expired, remaining>>
<1> USE FlowConstants DEF NoFlow, FlowIds
<1>1. PICK i \in FlowIds : i = IF table[k] = NoFlow THEN nextId ELSE table[k]
  BY DEF AddPacket
<1>2. PICK old \in Flow : old = IF table[k] = NoFlow THEN NewFlow(k, lag) ELSE heap[i]
  BY <1>1, NewFlowType DEF OwnerInv, TypeOK
<1>3. PICK new \in Flow : new = Touched(old, terminal, lag) /\ new.key = old.key
  BY <1>2, TouchedType
<1>4. old.packets <= new.packets
  <2>1. old.packets \in 0..PacketCap /\ PacketCap \in Nat
    BY <1>2 DEF Flow
  <2>2. new.packets = Saturate(old.packets + 1, PacketCap)
    BY <1>2, <1>3 DEF Touched, Flow
  <2>. QED
    BY <2>1, <2>2 DEF Saturate
<1>5. /\ heap' = [heap EXCEPT ![i] = new]
      /\ nextId' = IF i = nextId THEN nextId + 1 ELSE nextId
      /\ table' = [table EXCEPT ![k] = IF Terminated(new) THEN NoFlow ELSE i]
      /\ UNCHANGED <<closes, expired, remaining>>
  BY <1>1, <1>2, <1>3 DEF AddPacket, threadVars
<1>. QED
  BY <1>1, <1>2, <1>3, <1>4, <1>5

\* Ageing changes neither the key, nor the packets, nor the flags of a flow.
LEMMA TickFacts ==
    ASSUME OwnerInv, Tick, NEW i \in FlowIds
    PROVE  /\ heap'[i].key = heap[i].key
           /\ heap'[i].packets = heap[i].packets
           /\ heap'[i].terminal = heap[i].terminal
<1>1. heap[i] \in Flow
  BY DEF OwnerInv, TypeOK
<1>. QED
  BY <1>1 DEF Tick, Flow

OpenInv == OwnerInv /\ TableFlowsAreOpen

LEMMA OpenStep == OpenInv /\ [Next]_vars => OpenInv'
<1> SUFFICES ASSUME OpenInv, [Next]_vars
             PROVE  TableFlowsAreOpen'
  BY OwnerStep DEF OpenInv
<1>0. OwnerInv /\ TableFlowsAreOpen /\ TypeOK
  BY DEF OpenInv, OwnerInv
<1> USE DEF NoFlow
<1>1. ASSUME NEW s \in Sniffers, NEW k \in Keys, NEW terminal \in BOOLEAN,
             NEW lag \in Lags, AddPacket(s, k, terminal, lag)
      PROVE  TableFlowsAreOpen'
  <2>1. PICK i \in FlowIds, old \in Flow, new \in Flow :
              /\ i = IF table[k] = NoFlow THEN nextId ELSE table[k]
              /\ old = IF table[k] = NoFlow THEN NewFlow(k, lag) ELSE heap[i]
              /\ new.key = old.key
              /\ heap' = [heap EXCEPT ![i] = new]
              /\ table' = [table EXCEPT ![k] = IF Terminated(new) THEN NoFlow ELSE i]
    BY <1>0, <1>1, AddPacketFacts
  <2>2. new.key = k
    BY <1>0, <2>1 DEF TableFlowsAreOpen, NewFlow
  <2>3. i # 0 /\ \A l \in Keys : l # k => table[l] # i
    BY <1>0, <2>1 DEF OwnerInv, TableInv, Unclaimed, TypeOK, FlowIds
  <2> SUFFICES ASSUME NEW l \in Keys, table'[l] # 0
               PROVE  heap'[table'[l]].key = l /\ (l \in TcpKeys => ~heap'[table'[l]].terminal)
    BY DEF TableFlowsAreOpen
  <2>4. CASE l = k
    BY <1>0, <2>1, <2>2, <2>4 DEF TypeOK, Terminated
  <2>5. CASE l # k
    BY <1>0, <2>1, <2>3, <2>5 DEF TypeOK, TableFlowsAreOpen
  <2>. QED
    BY <2>4, <2>5
<1>2. CASE Tick
  <2>1. table' = table /\ \A k \in Keys : table[k] # 0 => table[k] \in FlowIds
    BY <1>0, <1>2 DEF Tick, TypeOK
  <2>. QED
    BY <1>0, <1>2, <2>1, TickFacts DEF TableFlowsAreOpen, Terminated
<1>3. CASE ReapExpired
  BY <1>0, <1>3 DEF ReapExpired, Without, TableFlowsAreOpen, Terminated
<1>4. CASE CloseAll
  BY <1>0, <1>4 DEF CloseAll, Cleared, TableFlowsAreOpen, Terminated
<1>5. ASSUME table' = table, heap' = heap
      PROVE  TableFlowsAreOpen'
  BY <1>0, <1>5 DEF TableFlowsAreOpen, Terminated
<1>. QED
  BY <1>1, <1>2, <1>3, <1>4, <1>5 DEF Next, Sniffer, Reaper, Controller,
     CloseTerminated, CloseExpired, PeriodicScan, PeriodicCallback,
     ReaperExits, Start, Stop, CloseRemaining, vars

\* The flow table never files a flow under another key, nor keeps one whose
\* FIN or RST has been seen: late packets open a flow of their own.
THEOREM TableFlowsAreOpenHolds == Spec => []TableFlowsAreOpen
<1>1. Init => OpenInv
  <2>1. Init => TableFlowsAreOpen
    BY DEF Init, TableFlowsAreOpen
  <2>. QED
    BY <2>1, OwnerInit DEF OpenInv
<1>2. OpenInv => TableFlowsAreOpen
  BY DEF OpenInv
<1>. QED
  BY <1>1, <1>2, OpenStep, PTL DEF Spec

-----------------------------------------------------------------------------
(* Refinement: the flow table implements the ledger.                       *)

\* The ledger's variables, as the instance in FlowManager maps them.
stageBar == [i \in FlowIds |-> IF i >= nextId THEN "unborn"
                               ELSE IF i \in TableFlows THEN "open"
                               ELSE IF closes[i] = 0 THEN "ended"
                               ELSE "closed"]
keyBar  == [i \in FlowIds |-> heap[i].key]
sizeBar == [i \in FlowIds |-> heap[i].packets]

\* A step that only closes flow i, which it had popped, closes it in the ledger.
LEMMA CloseStep ==
    ASSUME OwnerInv, NEW i \in FlowIds, i < nextId, i \notin TableFlows,
           closes[i] = 0, Close(i), UNCHANGED <<table, heap, nextId>>
    PROVE  Ledger!Next
<1>1. stageBar[i] = "ended"
  BY FlowConstants DEF stageBar, OwnerInv, TypeOK, FlowIds
<1>2. /\ TableFlows' = TableFlows
      /\ closes' = [closes EXCEPT ![i] = 1]
  BY DEF Close, TableFlows, OwnerInv, TypeOK
<1>3. stageBar' = [stageBar EXCEPT ![i] = "closed"]
  <2>1. \A j \in FlowIds : j # i => closes'[j] = closes[j]
    BY <1>2 DEF OwnerInv, TypeOK
  <2>2. closes'[i] = 1
    BY <1>2 DEF OwnerInv, TypeOK
  <2>3. ~(i >= nextId)
    BY FlowConstants DEF OwnerInv, TypeOK, FlowIds
  <2>4. stageBar'[i] = "closed"
    BY <1>2, <2>2, <2>3 DEF stageBar
  <2>5. \A j \in FlowIds : j # i => stageBar'[j] = stageBar[j]
    BY <1>2, <2>1 DEF stageBar
  <2>. QED
    BY <2>4, <2>5 DEF stageBar
<1>4. keyBar' = keyBar /\ sizeBar' = sizeBar
  BY DEF keyBar, sizeBar
<1>5. Ledger!Close(i)
  BY <1>1, <1>3, <1>4 DEF Ledger!Close, stageBar, keyBar, sizeBar
<1>. QED
  BY <1>5 DEF Ledger!Next

\* A step that pops the flows of S from the table ends them in the ledger.
LEMMA EndStep ==
    ASSUME OwnerInv, NEW S \in SUBSET FlowIds, S \subseteq TableFlows,
           table' = [k \in Keys |-> IF table[k] \in S THEN NoFlow ELSE table[k]],
           UNCHANGED <<heap, nextId, closes>>
    PROVE  Ledger!Next
<1>1. \A i \in S : stageBar[i] = "open"
  BY DEF stageBar, OwnerInv, TableInv, Unclaimed, TableFlows, FlowIds, NoFlow,
         TypeOK
<1>2. \A i \in FlowIds : i \in TableFlows' <=> i \in TableFlows /\ i \notin S
  BY DEF TableFlows, NoFlow, FlowIds
<1>3. \A i \in S : i < nextId /\ closes[i] = 0
  BY DEF OwnerInv, TableInv, Unclaimed, TableFlows, FlowIds, NoFlow, TypeOK
<1>4. stageBar' = [i \in FlowIds |-> IF i \in S THEN "ended" ELSE stageBar[i]]
  BY <1>2, <1>3 DEF stageBar, OwnerInv, TypeOK, FlowIds
<1>5. keyBar' = keyBar /\ sizeBar' = sizeBar
  BY DEF keyBar, sizeBar
<1>6. Ledger!End(S)
  BY <1>1, <1>4, <1>5 DEF Ledger!End, stageBar, keyBar, sizeBar
<1>. QED
  BY <1>6 DEF Ledger!Next

\* A step that leaves the table, the objects and the closes alone stutters.
LEMMA StutterStep ==
    ASSUME UNCHANGED <<table, nextId, closes>>, keyBar' = keyBar, sizeBar' = sizeBar
    PROVE  UNCHANGED Ledger!vars
<1>1. TableFlows' = TableFlows
  BY DEF TableFlows
<1>2. stageBar' = stageBar
  BY <1>1 DEF stageBar
<1>. QED
  BY <1>2 DEF Ledger!vars, stageBar, keyBar, sizeBar

LEMMA AddPacketStep ==
    ASSUME OpenInv, NEW s \in Sniffers, NEW k \in Keys,
           NEW terminal \in BOOLEAN, NEW lag \in Lags,
           AddPacket(s, k, terminal, lag)
    PROVE  Ledger!Next
<1> USE DEF NoFlow
<1>0. OwnerInv /\ TypeOK /\ TableFlowsAreOpen
  BY DEF OpenInv, OwnerInv
<1>1. PICK i \in FlowIds, old \in Flow, new \in Flow :
              /\ i = IF table[k] = NoFlow THEN nextId ELSE table[k]
              /\ old = IF table[k] = NoFlow THEN NewFlow(k, lag) ELSE heap[i]
              /\ new = Touched(old, terminal, lag)
              /\ new.key = old.key
              /\ old.packets <= new.packets
              /\ heap' = [heap EXCEPT ![i] = new]
              /\ nextId' = IF i = nextId THEN nextId + 1 ELSE nextId
              /\ table' = [table EXCEPT ![k] = IF Terminated(new) THEN NoFlow ELSE i]
              /\ UNCHANGED <<closes, expired, remaining>>
  BY <1>0, AddPacketFacts
<1>2. /\ i # 0 /\ i <= nextId /\ closes[i] = 0
      /\ \A l \in Keys : l # k => table[l] # i
  BY <1>0, <1>1 DEF OwnerInv, TableInv, CountInv, Unclaimed, TypeOK, FlowIds
<1>3. \A j \in FlowIds : j # i => (j \in TableFlows' <=> j \in TableFlows)
  BY <1>0, <1>1 DEF TableFlows, TypeOK, FlowIds
<1>4. i < nextId'
  BY <1>0, <1>1, <1>2 DEF TypeOK, FlowIds
<1>5. PICK st \in {"open", "ended"} : st = stageBar'[i]
  BY <1>1, <1>2, <1>4 DEF stageBar, FlowIds
<1>6. stageBar' = [stageBar EXCEPT ![i] = st]
  <2>1. \A j \in FlowIds : j # i => stageBar'[j] = stageBar[j]
    BY <1>0, <1>1, <1>2, <1>3 DEF stageBar, TypeOK, FlowIds
  <2>. QED
    BY <1>5, <2>1 DEF stageBar
<1>7. keyBar' = [keyBar EXCEPT ![i] = new.key]
  BY <1>0, <1>1 DEF keyBar, TypeOK
<1>8. sizeBar' = [sizeBar EXCEPT ![i] = new.packets]
  BY <1>0, <1>1 DEF sizeBar, TypeOK
<1>9. new.packets \in 1..PacketCap
  <2>1. old.packets \in 0..PacketCap /\ PacketCap \in Nat \ {0}
    BY <1>1, FlowConstants DEF Flow
  <2>2. new.packets = Saturate(old.packets + 1, PacketCap)
    BY <1>1 DEF Touched, Flow
  <2>. QED
    BY <2>1, <2>2 DEF Saturate
<1>10. CASE table[k] = 0
  <2>1. i = nextId /\ new.key = k
    BY <1>1, <1>10 DEF NewFlow
  <2>2. stageBar[i] = "unborn"
    BY <1>0, <2>1 DEF stageBar, TypeOK, FlowIds
  <2>3. \A j \in FlowIds : ~(stageBar[j] = "open" /\ keyBar[j] = k)
    BY <1>0, <1>10 DEF stageBar, keyBar, TableFlows, TableFlowsAreOpen, FlowIds
  <2>4. Ledger!Open(i, k)
    BY <1>5, <1>6, <1>7, <1>8, <1>9, <2>1, <2>2, <2>3
       DEF Ledger!Open, stageBar, keyBar, sizeBar
  <2>. QED
    BY <2>4 DEF Ledger!Next
<1>11. CASE table[k] # 0
  <2>1. i = table[k] /\ old = heap[i] /\ i < nextId
    BY <1>0, <1>1, <1>11 DEF OwnerInv, TableInv, Unclaimed
  <2>2. stageBar[i] = "open"
    BY <1>0, <2>1 DEF stageBar, TableFlows, TypeOK, FlowIds
  <2>3. sizeBar[i] <= new.packets /\ keyBar' = keyBar
    BY <1>0, <1>1, <1>7, <2>1 DEF sizeBar, keyBar
  <2>4. Ledger!Receive(i)
    BY <1>5, <1>6, <1>8, <1>9, <2>2, <2>3
       DEF Ledger!Receive, stageBar, keyBar, sizeBar
  <2>. QED
    BY <2>4 DEF Ledger!Next
<1>. QED
  BY <1>10, <1>11

LEMMA LedgerStep == OpenInv /\ [Next]_vars => [Ledger!Next]_(Ledger!vars)
<1> SUFFICES ASSUME OpenInv, [Next]_vars
             PROVE  Ledger!Next \/ UNCHANGED Ledger!vars
  OBVIOUS
<1>0. OwnerInv /\ TypeOK
  BY DEF OpenInv, OwnerInv
<1>1. ASSUME NEW s \in Sniffers, NEW k \in Keys, NEW terminal \in BOOLEAN,
             NEW lag \in Lags, AddPacket(s, k, terminal, lag)
      PROVE  Ledger!Next
  BY <1>1, AddPacketStep
<1>2. ASSUME NEW s \in Sniffers, CloseTerminated(s)
      PROVE  Ledger!Next
  <2>1. /\ holding[s] \in FlowIds /\ holding[s] < nextId
        /\ holding[s] \notin TableFlows /\ closes[holding[s]] = 0
    BY <1>0, <1>2 DEF CloseTerminated, OwnerInv, SnifferInv, TableInv, Unclaimed,
                      TableFlows, TypeOK, NoFlow, FlowIds
  <2>. QED
    BY <1>0, <1>2, <2>1, CloseStep DEF CloseTerminated
<1>3. CASE ReapExpired
  <2>1. ExpiredFlows \in SUBSET FlowIds /\ ExpiredFlows \subseteq TableFlows
    BY DEF ExpiredFlows, TableFlows
  <2>. QED
    BY <1>0, <1>3, <2>1, EndStep DEF ReapExpired, Without
<1>4. CASE CloseExpired
  <2>1. PICK i \in expired : Close(i) /\ UNCHANGED <<table, heap, nextId>>
    BY <1>4 DEF CloseExpired
  <2>2. i \in FlowIds /\ i < nextId /\ i \notin TableFlows /\ closes[i] = 0
    BY <1>0 DEF OwnerInv, ListInv, TableInv, Unclaimed, TableFlows, TypeOK,
                NoFlow, FlowIds
  <2>. QED
    BY <1>0, <2>1, <2>2, CloseStep
<1>5. CASE CloseAll
  <2>1. TableFlows \in SUBSET FlowIds
    BY DEF TableFlows
  <2>2. table' = [k \in Keys |-> IF table[k] \in TableFlows THEN NoFlow ELSE table[k]]
    BY <1>0, <1>5 DEF CloseAll, Cleared, TableFlows, TypeOK
  <2>. QED
    BY <1>0, <1>5, <2>1, <2>2, EndStep DEF CloseAll
<1>6. CASE CloseRemaining
  <2>1. CASE remaining = {}
    BY <1>6, <2>1, StutterStep DEF CloseRemaining, keyBar, sizeBar
  <2>2. CASE remaining # {}
    <3>1. PICK i \in remaining : Close(i) /\ UNCHANGED <<table, heap, nextId>>
      BY <1>6, <2>2 DEF CloseRemaining
    <3>2. i \in FlowIds /\ i < nextId /\ i \notin TableFlows /\ closes[i] = 0
      BY <1>0 DEF OwnerInv, ListInv, TableInv, Unclaimed, TableFlows, TypeOK,
                  NoFlow, FlowIds
    <3>. QED
      BY <1>0, <3>1, <3>2, CloseStep
  <2>. QED
    BY <2>1, <2>2
<1>7. CASE Tick
  <2>1. keyBar' = keyBar /\ sizeBar' = sizeBar
    BY <1>0, <1>7, TickFacts DEF keyBar, sizeBar
  <2>. QED
    BY <1>7, <2>1, StutterStep DEF Tick
<1>8. ASSUME UNCHANGED <<table, heap, nextId, closes>>
      PROVE  UNCHANGED Ledger!vars
  <2>1. keyBar' = keyBar /\ sizeBar' = sizeBar
    BY <1>8 DEF keyBar, sizeBar
  <2>. QED
    BY <1>8, <2>1, StutterStep
<1>. QED
  BY <1>1, <1>2, <1>3, <1>4, <1>5, <1>6, <1>7, <1>8 DEF Next, Sniffer, Reaper,
     Controller, PeriodicScan, PeriodicCallback, ReaperExits, Start, Stop, vars

\* The flow table, its threads and its clocks implement the ledger: a connection
\* has at most one open flow, only open flows receive packets, and a flow that
\* ended is given to on_flow_closed exactly once and never changes again.
THEOREM ImplementsLedger == Spec => LedgerSpec
<1>1. Init => OpenInv
  <2>1. Init => TableFlowsAreOpen
    BY DEF Init, TableFlowsAreOpen
  <2>. QED
    BY <2>1, OwnerInit DEF OpenInv
<1>2. Init => Ledger!Init
  BY DEF Init, Ledger!Init, Blank, FlowIds
<1>. QED
  BY <1>1, <1>2, OpenStep, LedgerStep, PTL DEF Spec, LedgerSpec, Ledger!Spec

-----------------------------------------------------------------------------
(* Capture sessions                                                        *)


LEMMA ServiceTypeStep ==
    ServiceTypeOK /\ [ServiceNext]_allVars => ServiceTypeOK'
<1> SUFFICES ASSUME ServiceTypeOK, [ServiceNext]_allVars
             PROVE  ServiceTypeOK'
  OBVIOUS
<1> USE NoSessionIsNone DEF ServiceTypeOK, ThreadStates
<1>1. ASSUME NEW s \in Sniffers, StartCapture(s) PROVE ServiceTypeOK'
  BY <1>1 DEF StartCapture, MayStart
<1>2. CASE BackendStarts
  BY <1>2 DEF BackendStarts
<1>3. CASE BackendFails
  BY <1>3 DEF BackendFails
<1>4. CASE StopNeverRan
  BY <1>4 DEF StopNeverRan
<1>5. CASE StopBackend
  BY <1>5 DEF StopBackend, Asked
<1>6. CASE StopFlows
  BY <1>6 DEF StopFlows
<1>7. CASE FinishStop
  BY <1>7 DEF FinishStop
<1>8. ASSUME NEW s \in Sniffers, Capturing(s) PROVE ServiceTypeOK'
  BY <1>8 DEF Capturing, sessionVars
<1>9. ASSUME NEW s \in Sniffers, ThreadEnds(s) PROVE ServiceTypeOK'
  BY <1>9 DEF ThreadEnds
<1>10. CASE FlowManagerRuns
  BY <1>10 DEF FlowManagerRuns, sessionVars
<1>11. CASE UNCHANGED allVars
  BY <1>11 DEF allVars, sessionVars
<1>. QED
  BY <1>1, <1>2, <1>3, <1>4, <1>5, <1>6, <1>7, <1>8, <1>9, <1>10, <1>11
     DEF ServiceNext, EventLoop

\* The variables of the service keep their types.
THEOREM ServiceTypeCorrect == ServiceSpec => []ServiceTypeOK
<1>1. ServiceInit => ServiceTypeOK
  BY NoSessionIsNone DEF ServiceInit, ServiceTypeOK, ThreadStates
<1>. QED
  BY <1>1, ServiceTypeStep, PTL DEF ServiceSpec

-----------------------------------------------------------------------------
(* Sessions use the flow manager as its specification allows.              *)

LEMMA ServiceStepIsFlowStep == [ServiceNext]_allVars => [Next]_vars
<1> SUFFICES ASSUME [ServiceNext]_allVars PROVE [Next]_vars
  OBVIOUS
<1>1. ASSUME NEW s \in Sniffers, StartCapture(s) PROVE [Next]_vars
  BY <1>1 DEF StartCapture, StartFlows, Next, Controller, flowVars
<1>2. CASE StopFlows
  BY <1>2 DEF StopFlows, Next, Controller
<1>3. ASSUME NEW s \in Sniffers, Capturing(s) PROVE [Next]_vars
  BY <1>3 DEF Capturing, Next
<1>4. CASE FlowManagerRuns
  BY <1>4 DEF FlowManagerRuns, Next, Controller
<1>5. CASE BackendStarts \/ BackendFails \/ StopNeverRan \/ StopBackend \/ FinishStop
  BY <1>5 DEF BackendStarts, BackendFails, StopNeverRan, StopBackend,
              FinishStop, flowVars
<1>6. ASSUME NEW s \in Sniffers, ThreadEnds(s) PROVE [Next]_vars
  BY <1>6 DEF ThreadEnds, flowVars
<1>7. CASE UNCHANGED allVars
  BY <1>7 DEF allVars, flowVars
<1>. QED
  BY <1>1, <1>2, <1>3, <1>4, <1>5, <1>6, <1>7 DEF ServiceNext, EventLoop

\* Whatever the order of starts, failed starts and stops, the flow manager only
\* does what FlowManager allows.
THEOREM SessionsUseFlowTable == ServiceSpec => FlowTableSpec
<1>1. ServiceInit => Init
  BY DEF ServiceInit
<1>. QED
  BY <1>1, ServiceStepIsFlowStep, PTL DEF ServiceSpec, FlowTableSpec, Spec

\* Capture sessions, however they start, fail, stop or leave threads behind,
\* implement the ledger: what the service and its threads do to a flow is what
\* the ledger allows, and nothing happens to one that was handed over.
THEOREM SessionsImplementLedger == ServiceSpec => LedgerSpec
<1>1. FlowTableSpec => LedgerSpec
  BY ImplementsLedger DEF FlowTableSpec
<1>. QED
  BY <1>1, SessionsUseFlowTable, PTL

-----------------------------------------------------------------------------
(* What sessions and the flow manager's threads know of each other.        *)

NoneLeft == \A s \in Sniffers : backend[s] # "left"

\* The table was drained, and no thread can have added to it since.
Drained == ~running \/ (handler = "draining" /\ ctl # "joining")

ThreadInv ==
    \A s \in Sniffers :
        /\ backend[s] \in {"unborn", "ended"} => holding[s] = NoFlow
        /\ backend[s] = "sniffing" => capture = s /\ running /\ handler = "idle"
        /\ backend[s] = "stopping" => capture = s /\ running /\ handler = "stopping"

HandlerInv ==
    /\ ctl # "idle" => handler = "draining"
    /\ handler = "opening" => ~running

DrainInv == NoneLeft /\ Drained => \A k \in Keys : table[k] = NoFlow

SessionInv == ServiceTypeOK /\ ThreadInv /\ HandlerInv /\ DrainInv

LEMMA SessionInit == ServiceInit => SessionInv
<1> SUFFICES ASSUME ServiceInit PROVE SessionInv
  OBVIOUS
<1>1. ServiceTypeOK
  BY NoSessionIsNone DEF ServiceInit, ServiceTypeOK, ThreadStates
<1>. QED
  BY <1>1 DEF ServiceInit, Init, SessionInv, ThreadInv, HandlerInv, DrainInv

LEMMA SessionStep ==
    OwnerInv /\ SessionInv /\ [ServiceNext]_allVars => SessionInv'
<1> SUFFICES ASSUME OwnerInv, SessionInv, [ServiceNext]_allVars
             PROVE  SessionInv'
  OBVIOUS
<1>0. /\ ServiceTypeOK /\ ServiceTypeOK' /\ ThreadInv /\ HandlerInv /\ DrainInv
      /\ TypeOK
  BY ServiceTypeStep DEF SessionInv, OwnerInv
<1> USE DEF NoFlow
<1> SUFFICES ThreadInv' /\ HandlerInv' /\ DrainInv'
  BY <1>0 DEF SessionInv
<1> DEFINE Goal == ThreadInv' /\ HandlerInv' /\ DrainInv'
\* The steps of the event loop.
<1>1. ASSUME NEW s \in Sniffers, StartCapture(s) PROVE Goal
  <2>1. UNCHANGED <<table, holding, ctl>>
    BY <1>1 DEF StartCapture, StartFlows, Start, flowVars, vars
  <2>2. /\ handler = "idle" /\ capture = NoSession /\ handler' = "opening"
        /\ UNCHANGED <<running, backend>> /\ ~running /\ ctl = "idle"
    BY <1>0, <1>1 DEF StartCapture, MayStart, ServiceTypeOK, HandlerInv
  <2>3. \A x \in Sniffers : backend[x] \notin {"sniffing", "stopping"}
    BY <1>0, <2>2 DEF ThreadInv
  <2>. QED
    BY <1>0, <2>1, <2>2, <2>3 DEF ThreadInv, HandlerInv, DrainInv, NoneLeft, Drained
<1>2. CASE BackendStarts
  <2>1. UNCHANGED <<table, holding, ctl>> /\ ctl = "idle" /\ capture \in Sniffers
    BY <1>0, <1>2 DEF BackendStarts, flowVars, vars, HandlerInv, ServiceTypeOK
  <2>2. /\ backend \in [Sniffers -> ThreadStates] /\ ~running
        /\ backend' = [backend EXCEPT ![capture] = "sniffing"]
        /\ running' /\ handler' = "idle" /\ UNCHANGED capture
    BY <1>0, <1>2 DEF BackendStarts, HandlerInv, ServiceTypeOK
  <2>3. \A x \in Sniffers : x # capture => backend'[x] = backend[x]
    BY <2>1, <2>2
  <2>4. backend'[capture] = "sniffing"
    BY <2>1, <2>2
  <2>5. HandlerInv' /\ DrainInv'
    BY <2>1, <2>2 DEF HandlerInv, DrainInv, Drained
  <2>6. ThreadInv'
    BY <1>0, <2>1, <2>2, <2>3, <2>4 DEF ThreadInv
  <2>. QED
    BY <2>5, <2>6
<1>3. CASE BackendFails
  BY <1>0, <1>3 DEF BackendFails, flowVars, vars, ThreadInv, HandlerInv,
                    DrainInv, NoneLeft, Drained
<1>4. CASE StopNeverRan
  BY <1>0, <1>4 DEF StopNeverRan, flowVars, vars, ThreadInv, HandlerInv,
                    DrainInv, NoneLeft, Drained
<1>5. CASE StopBackend
  <2>1. /\ backend \in [Sniffers -> ThreadStates] /\ capture \in Sniffers
        /\ UNCHANGED <<table, holding, ctl, capture, running>> /\ running
        /\ handler = "idle" /\ handler' = "stopping"
    BY <1>0, <1>5 DEF StopBackend, ServiceTypeOK, flowVars, vars
  <2>2. \A x \in Sniffers :
           backend'[x] = IF x = capture /\ backend[x] = "sniffing"
                         THEN "stopping" ELSE backend[x]
    BY <1>5, <2>1 DEF StopBackend, Asked
  <2>. QED
    BY <1>0, <2>1, <2>2 DEF ThreadInv, HandlerInv, DrainInv, Drained
<1>6. CASE StopFlows
  <2>1. /\ backend \in [Sniffers -> ThreadStates] /\ capture \in Sniffers
        /\ UNCHANGED <<table, holding, capture, running>> /\ running
        /\ handler' = "draining" /\ ctl' = "joining"
    BY <1>0, <1>6 DEF StopFlows, Stop, ServiceTypeOK
  <2>2. \A x \in Sniffers : x # capture => backend'[x] = backend[x]
    BY <1>6, <2>1 DEF StopFlows
  <2>3. /\ backend'[capture] # "stopping"
        /\ backend'[capture] = backend[capture] \/ backend'[capture] = "left"
    BY <1>6, <2>1 DEF StopFlows
  <2>4. backend[capture] # "sniffing"
    BY <1>0, <1>6, <2>1 DEF StopFlows, ThreadInv
  <2>5. HandlerInv' /\ DrainInv'
    BY <2>1 DEF HandlerInv, DrainInv, Drained
  <2>6. ThreadInv'
    BY <1>0, <2>1, <2>2, <2>3, <2>4 DEF ThreadInv
  <2>. QED
    BY <2>5, <2>6
<1>7. CASE FinishStop
  <2>1. \A x \in Sniffers : backend[x] \notin {"sniffing", "stopping"}
    BY <1>0, <1>7, NoSessionIsNone DEF FinishStop, ThreadInv
  <2>. QED
    BY <1>0, <1>7, <2>1 DEF FinishStop, flowVars, vars, ThreadInv, HandlerInv,
                            DrainInv, NoneLeft, Drained
\* The steps of the threads.
<1>8. ASSUME NEW s \in Sniffers, Capturing(s) PROVE Goal
  <2>1. UNCHANGED <<sessionVars, ctl>> /\ Delivers(s)
    BY <1>8 DEF Capturing, Sniffer, AddPacket, CloseTerminated, threadVars
  <2>2. \A x \in Sniffers : x # s => holding'[x] = holding[x]
    BY <1>0, <1>8 DEF Capturing, Sniffer, AddPacket, CloseTerminated, TypeOK
  <2>3. backend[s] \notin {"unborn", "ended"}
    BY <2>1 DEF Delivers
  <2>4. NoneLeft => ~Drained
    BY <1>0, <2>1 DEF NoneLeft, Drained, Delivers, ThreadInv
  <2>. QED
    BY <1>0, <2>1, <2>2, <2>3, <2>4
       DEF sessionVars, ThreadInv, HandlerInv, DrainInv, NoneLeft, Drained
<1>9. ASSUME NEW s \in Sniffers, ThreadEnds(s) PROVE Goal
  <2>1. /\ backend \in [Sniffers -> ThreadStates]
        /\ UNCHANGED <<table, holding, ctl, capture, running, handler>>
        /\ holding[s] = NoFlow /\ backend[s] # "left"
    BY <1>0, <1>9 DEF ThreadEnds, flowVars, vars, ServiceTypeOK
  <2>2. \A x \in Sniffers : backend'[x] = IF x = s THEN "ended" ELSE backend[x]
    BY <1>9, <2>1 DEF ThreadEnds
  <2>. QED
    BY <1>0, <2>1, <2>2 DEF ThreadInv, HandlerInv, DrainInv, NoneLeft, Drained
<1>10. CASE FlowManagerRuns
  <2> USE <1>0 DEF sessionVars, ThreadInv, HandlerInv, DrainInv, NoneLeft, Drained
  <2>1. UNCHANGED <<sessionVars, holding>>
    BY <1>10 DEF FlowManagerRuns, Reaper, ReapExpired, CloseExpired, PeriodicScan,
       PeriodicCallback, ReaperExits, CloseAll, CloseRemaining, Tick, threadVars
  <2>2. CASE UNCHANGED <<table, ctl>>
    BY <2>1, <2>2
  <2>3. CASE ReapExpired
    BY <2>1, <2>3 DEF ReapExpired, Without, TypeOK
  <2>4. CASE CloseAll
    BY <2>1, <2>4 DEF CloseAll, Cleared
  <2>5. CASE CloseRemaining
    BY <2>1, <2>5 DEF CloseRemaining
  <2>. QED
    BY <1>10, <2>2, <2>3, <2>4, <2>5 DEF FlowManagerRuns, Reaper, CloseExpired,
       PeriodicScan, PeriodicCallback, ReaperExits, Tick, threadVars
<1>11. CASE UNCHANGED allVars
  BY <1>0, <1>11 DEF allVars, sessionVars, flowVars, vars, ThreadInv, HandlerInv,
                     DrainInv, NoneLeft, Drained
<1>. QED
  BY <1>1, <1>2, <1>3, <1>4, <1>5, <1>6, <1>7, <1>8, <1>9, <1>10, <1>11
     DEF ServiceNext, EventLoop

THEOREM Sessions == ServiceSpec => [](OwnerInv /\ SessionInv)
<1>1. ServiceSpec => []OwnerInv
  BY SessionsUseFlowTable, Ownership, PTL DEF FlowTableSpec
<1>. QED
  BY <1>1, SessionInit, SessionStep, PTL DEF ServiceSpec

\* A thread nobody asked to end always captures for the session the service
\* holds, for any number of sessions, failed starts and stops.
THEOREM NoOrphanCaptureHolds == ServiceSpec => []NoOrphanCapture
<1>1. SessionInv => NoOrphanCapture
  BY DEF SessionInv, ThreadInv, NoOrphanCapture
<1>. QED
  BY Sessions, <1>1, PTL

\* stop_capture hands over every flow when no capture thread outlives it.
THEOREM NothingLeftBehindHolds == ServiceSpec => []NothingLeftBehind
<1>1. OwnerInv /\ SessionInv => NothingLeftBehind
  <2> SUFFICES ASSUME OwnerInv, SessionInv, capture = NoSession, NoneLeft,
                      NEW i \in FlowIds, i < nextId
               PROVE  closes[i] = 1 \/ i \in expired
    BY DEF NothingLeftBehind, NoneLeft
  <2>1. ~running /\ handler = "idle" /\ ctl = "idle"
    BY DEF SessionInv, ServiceTypeOK, HandlerInv
  <2>2. \A k \in Keys : table[k] = NoFlow
    BY <2>1 DEF SessionInv, DrainInv, Drained
  <2>3. \A s \in Sniffers : holding[s] = NoFlow
    BY <2>1 DEF SessionInv, ThreadInv, ServiceTypeOK, ThreadStates, NoneLeft
  <2>4. remaining = {} /\ i # NoFlow
    BY <2>1 DEF OwnerInv, TypeOK, FlowIds, NoFlow
  <2>5. Owned(i) /\ closes[i] \in {0, 1}
    BY DEF OwnerInv, CountInv
  <2>. QED
    BY <2>2, <2>3, <2>4, <2>5 DEF Owned
<1>. QED
  BY Sessions, <1>1, PTL
=============================================================================
