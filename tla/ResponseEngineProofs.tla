------------------------ MODULE ResponseEngineProofs ------------------------
(***************************************************************************)
(* Theorems about the response engine, for any number of workers, server   *)
(* processes, alerts and addresses: the type invariant, that at most one   *)
(* response holds the undoable block of an address, that a rollback keeps  *)
(* its mode, with one server process, that a response is rolled back at    *)
(* most once, and that an alert's status tells of its last recorded run.   *)
(* The steps are grouped by what they change: StartRun, Firewall, Finish   *)
(* and EndRun are each treated once.                                       *)
(***************************************************************************)
EXTENDS ResponseEngine, SequenceTheorems, TLAPS

ResultSet == [action: Actions, ok: BOOLEAN, undoable: BOOLEAN]

\* What an actor in the middle of a run has at hand.
RunInv ==
    \A a \in Actors :
        /\ pc[a] = "idle" => results[a] = <<>> /\ undoing[a] = NoRow
        /\ pc[a] # "idle" => alertOf[a] \in Alerts /\ group[a] \in 1..MaxRuns
        /\ pc[a] = "blocking" => todo[a] # <<>> /\ Head(todo[a]) = "block_ip"
        /\ pc[a] = "unblocking" => todo[a] # <<>> /\ Head(todo[a]) = "unblock_ip"

TInv == TypeOK /\ RunInv

LEMMA ActionsDefined ==
    /\ \A p \in Policies : p.actions \in Seq(Actions) /\ p.live \in BOOLEAN
    /\ Workers \cap Servers = {} /\ \A w \in Workers : Home[w] \in Servers
BY EngineConstants

\* The rows of a run, one per result.
LEMMA RowsFacts ==
    ASSUME TInv, NEW a \in Actors, pc[a] # "idle"
    PROVE  /\ Rows(a) \in Seq(Row)
           /\ Len(Rows(a)) = Len(results[a])
           /\ \A i \in 1..Len(results[a]) : Rows(a)[i] = RowOf(a, results[a][i])
<1>1. /\ results[a] \in Seq(ResultSet) /\ alertOf[a] \in Alerts /\ live[a] \in BOOLEAN
      /\ group[a] \in 1..MaxRuns /\ undoing[a] \in Nat
  BY DEF TInv, TypeOK, RunInv, ResultSet
<1>2. /\ DOMAIN results[a] = 1..Len(results[a]) /\ Len(results[a]) \in Nat
      /\ \A i \in 1..Len(results[a]) : results[a][i] \in ResultSet
  BY <1>1, LenProperties, ElementOfSeq
<1>3. \A i \in 1..Len(results[a]) : RowOf(a, results[a][i]) \in Row
  BY <1>1, <1>2 DEF RowOf, Row, ResultSet
<1>4. Rows(a) \in [1..Len(results[a]) -> Row]
  BY <1>2, <1>3 DEF Rows
<1>. QED
  BY <1>2, <1>4 DEF Rows

LEMMA StartRunType ==
    ASSUME TInv, NEW a \in Actors, NEW alert \in Alerts, NEW actions \in Seq(Actions),
           NEW isLive \in BOOLEAN, NEW state \in {"mode", "acting"},
           StartRun(a, alert, actions, isLive, state), pending' \in SUBSET Alerts
    PROVE  TInv'
<1>0. TypeOK /\ RunInv /\ MaxRuns \in Nat
  BY EngineConstants DEF TInv
<1> USE DEF StartRun, TypeOK
<1>1. /\ started' \in 0..MaxRuns /\ started + 1 \in 1..MaxRuns
      /\ alertOf' \in [Actors -> Alerts \cup {NoAlert}]
      /\ group' \in [Actors -> Nat]
  BY <1>0
<1>2. todo' \in [Actors -> Seq(Actions)] /\ live' \in [Actors -> BOOLEAN]
  BY <1>0
<1>3. pc' \in [Actors -> {"idle", "mode", "acting", "blocking", "unblocking"}]
  BY <1>0
<1>4. TypeOK'
  BY <1>0, <1>1, <1>2, <1>3 DEF dataVars
<1>5. RunInv'
  BY <1>0, <1>1 DEF RunInv
<1>. QED
  BY <1>4, <1>5 DEF TInv

LEMMA FirewallType ==
    ASSUME TInv, NEW a \in Actors, NEW action, NEW ok \in BOOLEAN, NEW rules \in Nat,
           NEW state, Executes(a, action), Firewall(a, ok, rules, state),
           \/ action = "block_ip" /\ state = "blocking"
           \/ action = "unblock_ip" /\ state = "unblocking"
    PROVE  TInv'
<1>0. TypeOK /\ RunInv
  BY DEF TInv
<1>1. TypeOK'
  BY <1>0 DEF TypeOK, Firewall
<1>2. RunInv'
  BY <1>0 DEF TypeOK, Firewall, Executes, RunInv
<1>. QED
  BY <1>1, <1>2 DEF TInv

LEMMA FinishType ==
    ASSUME TInv, NEW a \in Actors, NEW ok \in BOOLEAN, NEW undoable \in BOOLEAN,
           pc[a] # "idle", todo[a] # <<>>, Finish(a, ok, undoable),
           blocked' \in [Ips -> {"none", "active", "inactive"}]
    PROVE  /\ TInv'
           /\ results'[a] = Append(results[a], Result(Head(todo[a]), ok, undoable))
           /\ results'[a] \in Seq(ResultSet)
           /\ todo'[a] = Tail(todo[a])
           /\ \A b \in Actors : b # a => results'[b] = results[b] /\ todo'[b] = todo[b]
<1>0. TypeOK /\ RunInv /\ todo[a] \in Seq(Actions) /\ results[a] \in Seq(ResultSet)
  BY DEF TInv, TypeOK, ResultSet
<1>1. Head(todo[a]) \in Actions /\ Tail(todo[a]) \in Seq(Actions)
  BY <1>0, HeadTailProperties
<1>2. Result(Head(todo[a]), ok, undoable) \in ResultSet
  BY <1>1 DEF Result, ResultSet
<1>3. Append(results[a], Result(Head(todo[a]), ok, undoable)) \in Seq(ResultSet)
  BY <1>0, <1>2
<1>4. /\ results' \in [Actors -> Seq(ResultSet)]
      /\ results'[a] = Append(results[a], Result(Head(todo[a]), ok, undoable))
      /\ \A b \in Actors : b # a => results'[b] = results[b]
  <2>1. /\ results \in [Actors -> Seq(ResultSet)]
        /\ results' = [results EXCEPT ![a] =
                         Append(results[a], Result(Head(todo[a]), ok, undoable))]
    BY <1>0 DEF Finish, TypeOK, ResultSet
  <2>. QED
    BY <1>3, <2>1
<1>5. /\ todo' \in [Actors -> Seq(Actions)] /\ todo'[a] = Tail(todo[a])
      /\ \A b \in Actors : b # a => todo'[b] = todo[b]
  <2>1. todo \in [Actors -> Seq(Actions)] /\ todo' = [todo EXCEPT ![a] = Tail(todo[a])]
    BY <1>0 DEF Finish, TypeOK
  <2>. QED
    BY <1>1, <2>1
<1>6. /\ pc' \in [Actors -> {"idle", "mode", "acting", "blocking", "unblocking"}]
      /\ ruleOk' \in [Actors -> BOOLEAN]
      /\ pc'[a] = "acting" /\ \A b \in Actors : b # a => pc'[b] = pc[b]
  BY <1>0 DEF Finish, TypeOK
<1>7. UNCHANGED <<policy, pending, alertOf, live, group, undoing, started, chain,
                  history, status>>
  BY DEF Finish
<1>8. TypeOK'
  BY <1>0, <1>4, <1>5, <1>6, <1>7 DEF TypeOK, ResultSet
<1>9. RunInv'
  BY <1>0, <1>4, <1>5, <1>6, <1>7 DEF RunInv
<1>. QED
  BY <1>4, <1>5, <1>8, <1>9 DEF TInv

LEMMA EndRunType ==
    ASSUME TInv, NEW a \in Actors, EndRun(a), history' \in Seq(Row),
           DOMAIN history \subseteq DOMAIN history',
           status' \in [Alerts -> {"new", "responded", "partially_responded",
                                   "response_failed"}]
    PROVE  TInv'
<1>0. TypeOK /\ RunInv
  BY DEF TInv
<1> USE DEF EndRun, NoRow
<1>1. /\ pc' \in [Actors -> {"idle", "mode", "acting", "blocking", "unblocking"}]
      /\ alertOf' \in [Actors -> Alerts \cup {NoAlert}]
      /\ live' \in [Actors -> BOOLEAN]
      /\ group' \in [Actors -> Nat]
      /\ undoing' \in [Actors -> Nat]
      /\ \A b \in Actors : undoing'[b] \in {NoRow} \cup DOMAIN history'
  BY <1>0 DEF TypeOK
<1>2. results' \in [Actors -> Seq(ResultSet)]
  BY <1>0, EmptySeq DEF TypeOK, ResultSet
<1>3. UNCHANGED <<policy, pending, todo, ruleOk, started, chain, blocked>>
  OBVIOUS
<1>4. TypeOK'
  BY <1>0, <1>1, <1>2, <1>3 DEF TypeOK, ResultSet
<1>5. RunInv'
  BY <1>0 DEF TypeOK, RunInv
<1>. QED
  BY <1>4, <1>5 DEF TInv

\* Appending the rows of a run to a history.
LEMMA AppendRows ==
    ASSUME TInv, NEW a \in Actors, pc[a] # "idle", NEW h \in Seq(Row)
    PROVE  /\ h \o Rows(a) \in Seq(Row)
           /\ Len(h \o Rows(a)) = Len(h) + Len(results[a])
           /\ DOMAIN h = 1..Len(h) /\ DOMAIN h \subseteq DOMAIN (h \o Rows(a))
           /\ \A i \in DOMAIN h : (h \o Rows(a))[i] = h[i]
           /\ \A i \in DOMAIN (h \o Rows(a)) : i \notin DOMAIN h =>
                 \E j \in DOMAIN results[a] :
                    /\ i = Len(h) + j
                    /\ (h \o Rows(a))[i] = RowOf(a, results[a][j])
<1>1. /\ Rows(a) \in Seq(Row) /\ Len(Rows(a)) = Len(results[a])
      /\ \A i \in 1..Len(results[a]) : Rows(a)[i] = RowOf(a, results[a][i])
  BY RowsFacts
<1>2. /\ results[a] \in Seq(ResultSet) /\ Len(results[a]) \in Nat
      /\ DOMAIN results[a] = 1..Len(results[a])
  BY LenProperties DEF TInv, TypeOK, ResultSet
<1>3. /\ h \o Rows(a) \in Seq(Row)
      /\ Len(h \o Rows(a)) = Len(h) + Len(results[a])
      /\ \A i \in 1..(Len(h) + Len(results[a])) :
            (h \o Rows(a))[i] = IF i <= Len(h) THEN h[i] ELSE Rows(a)[i - Len(h)]
  <2>1. /\ h \o Rows(a) \in Seq(Row)
        /\ Len(h \o Rows(a)) = Len(h) + Len(Rows(a))
        /\ \A i \in 1..(Len(h) + Len(Rows(a))) :
              (h \o Rows(a))[i] = IF i <= Len(h) THEN h[i] ELSE Rows(a)[i - Len(h)]
    <3>. HIDE DEF Row, Rows
    <3>. QED
      BY <1>1, ConcatProperties, Zenon
  <2>. QED
    BY <1>1, <2>1
<1>4. /\ Len(h) \in Nat /\ DOMAIN h = 1..Len(h)
      /\ DOMAIN (h \o Rows(a)) = 1..(Len(h) + Len(results[a]))
  BY <1>3, LenProperties
<1>5. ASSUME NEW i \in DOMAIN (h \o Rows(a)), i \notin DOMAIN h
      PROVE  \E j \in DOMAIN results[a] :
                i = Len(h) + j /\ (h \o Rows(a))[i] = RowOf(a, results[a][j])
  <2>1. i - Len(h) \in DOMAIN results[a] /\ i = Len(h) + (i - Len(h)) /\ i > Len(h)
    BY <1>2, <1>4, <1>5
  <2>2. (h \o Rows(a))[i] = RowOf(a, results[a][i - Len(h)])
    BY <1>1, <1>2, <1>3, <1>4, <2>1
  <2>. QED
    BY <2>1, <2>2
<1>6. \A i \in DOMAIN h : (h \o Rows(a))[i] = h[i]
  BY <1>2, <1>3, <1>4
<1>7. DOMAIN h \subseteq DOMAIN (h \o Rows(a))
  BY <1>2, <1>4
<1>. QED
  BY <1>3, <1>4, <1>5, <1>6, <1>7

\* The history after a rollback was recorded, before its row is appended.
Marked(r) == [history EXCEPT ![r].undone = TRUE]

LEMMA MarkedFacts ==
    ASSUME TypeOK, NEW r \in DOMAIN history
    PROVE  /\ Marked(r) \in Seq(Row) /\ Len(Marked(r)) = Len(history)
           /\ DOMAIN Marked(r) = DOMAIN history /\ DOMAIN history = 1..Len(history)
           /\ Marked(r)[r] = [history[r] EXCEPT !.undone = TRUE]
           /\ \A i \in DOMAIN history : i # r => Marked(r)[i] = history[i]
           /\ \A i \in DOMAIN history :
                 /\ Marked(r)[i].alert = history[i].alert
                 /\ Marked(r)[i].action = history[i].action
                 /\ Marked(r)[i].undoable = history[i].undoable
                 /\ Marked(r)[i].live = history[i].live
                 /\ Marked(r)[i].of = history[i].of
                 /\ Marked(r)[i].group = history[i].group
                 /\ Marked(r)[i].ok = history[i].ok
           /\ Marked(r)[r].undone
<1>1. /\ history \in Seq(Row) /\ DOMAIN history = 1..Len(history)
      /\ \A i \in DOMAIN history : history[i] \in Row
  BY LenProperties, ElementOfSeq DEF TypeOK
<1>2. [history[r] EXCEPT !.undone = TRUE] \in Row
  BY <1>1 DEF Row
<1>3. /\ Marked(r) \in Seq(Row) /\ Len(Marked(r)) = Len(history)
      /\ \A i \in DOMAIN history :
            Marked(r)[i] = IF i = r THEN [history[r] EXCEPT !.undone = TRUE] ELSE history[i]
  BY <1>1, <1>2, ExceptSeq DEF Marked
<1>4. DOMAIN Marked(r) = DOMAIN history
  BY <1>1, <1>3, LenProperties
<1>5. LET new == [history[r] EXCEPT !.undone = TRUE]
      IN  /\ new.undone
          /\ new.alert = history[r].alert /\ new.action = history[r].action
          /\ new.undoable = history[r].undoable /\ new.live = history[r].live
          /\ new.of = history[r].of
          /\ new.group = history[r].group /\ new.ok = history[r].ok
  BY <1>1 DEF Row
<1>. QED
  BY <1>1, <1>3, <1>4, <1>5

LEMMA TStep == TInv /\ [Next]_vars => TInv'
<1> SUFFICES ASSUME TInv, [Next]_vars PROVE TInv'
  OBVIOUS
<1>0. /\ TypeOK /\ RunInv /\ Workers \subseteq Actors /\ Servers \subseteq Actors
      /\ \A ip \in Ips : chain[ip] \in Nat
      /\ \A a \in Actors : pc[a] # "idle" => Ip(a) \in Ips
  BY EngineConstants DEF TInv, TypeOK, RunInv, Actors, Ip
<1>1. ASSUME NEW w \in Workers, HandleAlert(w) PROVE TInv'
  <2>1. PICK alert \in pending :
           LET actions == policy[Home[w]].actions
           IN /\ pending' = pending \ {alert}
              /\ \/ actions # <<>> /\ StartRun(w, alert, actions, FALSE, "mode")
                 \/ /\ actions = <<>>
                    /\ pc[w] = "idle"
                    /\ UNCHANGED <<policy, pc, runVars, started, dataVars>>
    BY <1>1 DEF HandleAlert
  <2>2. alert \in Alerts /\ pending' \in SUBSET Alerts
        /\ policy[Home[w]].actions \in Seq(Actions)
    BY <1>0, <2>1, ActionsDefined DEF TypeOK
  <2>3. CASE StartRun(w, alert, policy[Home[w]].actions, FALSE, "mode")
    BY <1>0, <2>2, <2>3, StartRunType
  <2>4. CASE UNCHANGED <<policy, pc, runVars, started, dataVars>>
    BY <1>0, <2>2, <2>4 DEF TInv, TypeOK, RunInv, runVars, dataVars
  <2>. QED
    BY <2>1, <2>3, <2>4
<1>2. ASSUME NEW w \in Workers, ReadMode(w) PROVE TInv'
  <2>1. policy[Home[w]].live \in BOOLEAN
    BY <1>0, ActionsDefined DEF TypeOK
  <2>2. TypeOK'
    BY <1>0, <1>2, <2>1 DEF ReadMode, TypeOK, dataVars
  <2>3. RunInv'
    BY <1>0, <1>2 DEF ReadMode, TypeOK, RunInv
  <2>. QED
    BY <2>2, <2>3 DEF TInv
<1>3. ASSUME NEW s \in Servers, ExecuteManual(s) PROVE TInv'
  <2>1. PICK alert \in Alerts, actions \in ManualLists \cup {policy[s].actions},
             isLive \in BOOLEAN :
           StartRun(s, alert, actions, isLive, "acting") /\ UNCHANGED pending
    BY <1>3 DEF ExecuteManual
  <2>2. actions \in Seq(Actions) /\ pending' \in SUBSET Alerts
    BY <1>0, <2>1, ActionsDefined, EngineConstants DEF TypeOK
  <2>. QED
    BY <1>0, <2>1, <2>2, StartRunType
<1>4. ASSUME NEW s \in Servers, UpdatePolicy(s) PROVE TInv'
  BY <1>0, <1>4 DEF UpdatePolicy, TInv, TypeOK, RunInv, runVars, dataVars
<1>5. ASSUME NEW s \in Servers, StartRollback(s) PROVE TInv'
  <2>1. PICK r \in DOMAIN history :
           /\ pc[s] = "idle" /\ Undo(history[r].action) # "none"
           /\ todo' = [todo EXCEPT ![s] = <<Undo(history[r].action)>>]
           /\ live' = [live EXCEPT ![s] = RollbackMode(s, history[r])]
           /\ alertOf' = [alertOf EXCEPT ![s] = history[r].alert]
           /\ group' = [group EXCEPT ![s] = history[r].group]
           /\ undoing' = [undoing EXCEPT ![s] = r]
           /\ pc' = [pc EXCEPT ![s] = "acting"]
           /\ UNCHANGED <<policy, pending, ruleOk, results, started, dataVars>>
    BY <1>5 DEF StartRollback
  <2>2. history[r] \in Row /\ r \in Nat
    BY <1>0, ElementOfSeq, LenProperties DEF TypeOK
  <2>3. Undo(history[r].action) \in Actions
    BY <2>1 DEF Undo, Actions
  <2>4. /\ <<Undo(history[r].action)>> \in Seq(Actions)
        /\ RollbackMode(s, history[r]) \in BOOLEAN
    BY <2>2, <2>3 DEF RollbackMode, Row
  <2>5. history[r].alert \in Alerts /\ history[r].group \in 1..MaxRuns
    BY <2>2 DEF Row
  <2>6. /\ pc' \in [Actors -> {"idle", "mode", "acting", "blocking", "unblocking"}]
        /\ todo' \in [Actors -> Seq(Actions)]
        /\ live' \in [Actors -> BOOLEAN]
        /\ alertOf' \in [Actors -> Alerts \cup {NoAlert}]
        /\ group' \in [Actors -> Nat]
        /\ undoing' \in [Actors -> Nat]
    <3>1. history[r].group \in Nat
      BY <2>5, EngineConstants
    <3>2. /\ pc' \in [Actors -> {"idle", "mode", "acting", "blocking", "unblocking"}]
          /\ todo' \in [Actors -> Seq(Actions)]
      BY <1>0, <2>1, <2>4 DEF TypeOK
    <3>3. /\ live' \in [Actors -> BOOLEAN]
          /\ alertOf' \in [Actors -> Alerts \cup {NoAlert}]
      BY <1>0, <2>1, <2>4, <2>5 DEF TypeOK
    <3>4. group' \in [Actors -> Nat] /\ undoing' \in [Actors -> Nat]
      BY <1>0, <2>1, <2>2, <3>1 DEF TypeOK
    <3>. QED
      BY <3>2, <3>3, <3>4
  <2>7. TypeOK'
    BY <1>0, <2>1, <2>6 DEF TypeOK, dataVars
  <2>8. RunInv'
    BY <1>0, <2>1, <2>5 DEF TypeOK, RunInv
  <2>. QED
    BY <2>7, <2>8 DEF TInv
<1>6. ASSUME NEW a \in Actors, BlockIp(a) PROVE TInv'
  <2>1. pc[a] # "idle" /\ Executes(a, "block_ip") /\ chain[Ip(a)] \in Nat
    BY <1>0, <1>6 DEF BlockIp, Executes
  <2>2. PICK ok \in BOOLEAN, rules \in Nat : Firewall(a, ok, rules, "blocking")
    <3>1. CASE Firewall(a, TRUE, chain[Ip(a)], "blocking")
      BY <2>1, <3>1
    <3>2. CASE Firewall(a, TRUE, chain[Ip(a)] + 1, "blocking")
      <4>1. chain[Ip(a)] + 1 \in Nat
        BY <2>1
      <4>. QED
        BY <3>2, <4>1
    <3>3. ASSUME NEW added \in {0, 1}, Firewall(a, FALSE, chain[Ip(a)] + added, "blocking")
          PROVE  \E ok \in BOOLEAN, rules \in Nat : Firewall(a, ok, rules, "blocking")
      <4>1. chain[Ip(a)] + added \in Nat
        BY <2>1
      <4>. QED
        BY <3>3, <4>1
    <3>. QED
      BY <1>6, <3>1, <3>2, <3>3 DEF BlockIp
  <2>. QED
    BY <2>1, <2>2, FirewallType
<1>7. ASSUME NEW a \in Actors, UnblockIp(a) PROVE TInv'
  <2>1. pc[a] # "idle" /\ Executes(a, "unblock_ip") /\ chain[Ip(a)] \in Nat
    BY <1>0, <1>7 DEF UnblockIp, Executes
  <2>2. PICK ok \in BOOLEAN, rules \in Nat : Firewall(a, ok, rules, "unblocking")
    <3>1. CASE Firewall(a, TRUE, chain[Ip(a)], "unblocking")
      BY <2>1, <3>1
    <3>2. CASE Firewall(a, FALSE, chain[Ip(a)], "unblocking")
      BY <2>1, <3>2
    <3>3. ASSUME NEW ok \in BOOLEAN, chain[Ip(a)] > 0,
                 Firewall(a, ok, chain[Ip(a)] - 1, "unblocking")
          PROVE  \E x \in BOOLEAN, rules \in Nat : Firewall(a, x, rules, "unblocking")
      <4>1. chain[Ip(a)] - 1 \in Nat
        BY <2>1, <3>3
      <4>. QED
        BY <3>3, <4>1
    <3>. QED
      BY <1>7, <3>1, <3>2, <3>3 DEF UnblockIp, Removable
  <2>. QED
    BY <2>1, <2>2, FirewallType
<1>8. ASSUME NEW a \in Actors, InsertBlocked(a) \/ MarkUnblocked(a) \/ OtherAction(a)
      PROVE  TInv'
  <2>1. /\ pc[a] # "idle" /\ todo[a] # <<>> /\ ruleOk[a] \in BOOLEAN
        /\ blocked' \in [Ips -> {"none", "active", "inactive"}]
    BY <1>0, <1>8 DEF InsertBlocked, MarkUnblocked, OtherAction, Executes, RunInv, TypeOK
  <2>2. PICK ok \in BOOLEAN, undoable \in BOOLEAN : Finish(a, ok, undoable)
    BY <1>8, <2>1 DEF InsertBlocked, MarkUnblocked, OtherAction
  <2>. QED
    BY <2>1, <2>2, FinishType
<1>9. ASSUME NEW a \in Actors, Record(a) PROVE TInv'
  <2>1. pc[a] # "idle" /\ EndRun(a) /\ history' = history \o Rows(a)
    BY <1>9 DEF Record, Done
  <2>2. history' \in Seq(Row) /\ DOMAIN history \subseteq DOMAIN history'
    BY <1>0, <2>1, AppendRows DEF TInv, TypeOK
  <2>3. status' \in [Alerts -> {"new", "responded", "partially_responded",
                                "response_failed"}]
    BY <1>0, <1>9, <2>1 DEF Record, Outcome, TypeOK, RunInv
  <2>. QED
    BY <2>1, <2>2, <2>3, EndRunType
<1>10. ASSUME NEW a \in Actors, RecordFails(a) PROVE TInv'
  BY <1>0, <1>10, EndRunType DEF RecordFails, TypeOK
<1>11. ASSUME NEW a \in Actors, RecordRollback(a) PROVE TInv'
  <2>1. /\ pc[a] # "idle" /\ EndRun(a) /\ status' = status
        /\ history' = Marked(undoing[a]) \o Rows(a) /\ undoing[a] \in DOMAIN history
    BY <1>0, <1>11 DEF RecordRollback, Done, Marked, TypeOK
  <2>2. history' \in Seq(Row) /\ DOMAIN history \subseteq DOMAIN history'
    BY <1>0, <2>1, AppendRows, MarkedFacts DEF TInv
  <2>. QED
    BY <1>0, <2>1, <2>2, EndRunType DEF TypeOK
<1>12. CASE UNCHANGED vars
  BY <1>0, <1>12 DEF vars, runVars, dataVars, TInv, TypeOK, RunInv
<1>. QED
  BY <1>1, <1>2, <1>3, <1>4, <1>5, <1>6, <1>7, <1>8, <1>9, <1>10, <1>11, <1>12
     DEF Next, Worker, Server, Executing

LEMMA TInit == Init => TInv
<1> SUFFICES ASSUME Init PROVE TInv
  OBVIOUS
<1>1. <<>> \in Seq(Row) /\ <<>> \in Seq(Actions) /\ <<>> \in Seq(ResultSet)
  BY EmptySeq
<1>2. TypeOK
  BY <1>1, EngineConstants DEF Init, TypeOK, NoRow, ResultSet
<1>3. RunInv
  BY DEF Init, RunInv
<1>. QED
  BY <1>2, <1>3 DEF TInv

\* The variables keep their types, for any constants.
THEOREM TypeCorrect == Spec => []TypeOK
<1>1. TInv => TypeOK
  BY DEF TInv
<1>. QED
  BY TInit, TStep, <1>1, PTL DEF Spec

-----------------------------------------------------------------------------
(* At most one undoable block of an address.  A claim is a result, or a row *)
(* of the history, that reports an undoable block; an address with a claim  *)
(* has a row in blocked_ips, and only the insertion of that row makes one.  *)

IsBlock(r) == r.action = "block_ip" /\ r.undoable

RowClaims(i, ip) ==
    /\ i \in DOMAIN history
    /\ IsBlock(history[i])
    /\ SourceOf[history[i].alert] = ip

ResultClaims(a, j, ip) ==
    /\ a \in Actors
    /\ j \in DOMAIN results[a]
    /\ IsBlock(results[a][j])
    /\ Ip(a) = ip

ListedInv ==
    \A ip \in Ips : blocked[ip] = "none" =>
        /\ \A i : ~RowClaims(i, ip)
        /\ \A a, j : ~ResultClaims(a, j, ip)

SingleInv ==
    \A ip \in Ips :
        /\ \A i, k : RowClaims(i, ip) /\ RowClaims(k, ip) => i = k
        /\ \A i, a, j : ~(RowClaims(i, ip) /\ ResultClaims(a, j, ip))
        /\ \A a, j, b, k : ResultClaims(a, j, ip) /\ ResultClaims(b, k, ip)
                              => a = b /\ j = k

ClaimInv == ListedInv /\ SingleInv

\* A step that makes no claim and unlists no address keeps the invariant.
LEMMA ClaimsShrink ==
    ASSUME ClaimInv,
           \A ip \in Ips : blocked'[ip] = "none" => blocked[ip] = "none",
           \A i, ip : RowClaims(i, ip)' => RowClaims(i, ip),
           \A a, j, ip : ResultClaims(a, j, ip)' => ResultClaims(a, j, ip)
    PROVE  ClaimInv'
BY DEF ClaimInv, ListedInv, SingleInv

\* A step that changes neither results nor history, and no run's alert.
LEMMA QuietStep ==
    ASSUME ClaimInv, UNCHANGED <<history, results, blocked>>,
           \A a \in Actors : results[a] = <<>> \/ alertOf'[a] = alertOf[a]
    PROVE  ClaimInv'
<1>1. \A i, ip : RowClaims(i, ip)' => RowClaims(i, ip)
  BY DEF RowClaims, IsBlock
<1>2. DOMAIN <<>> = {}
  OBVIOUS
<1>3. \A a, j, ip : ResultClaims(a, j, ip)' => ResultClaims(a, j, ip)
  BY <1>2 DEF ResultClaims, IsBlock, Ip
<1>. QED
  BY <1>1, <1>3, ClaimsShrink

\* One action of a run ends: its result may claim the address only if the
\* address was not listed and is now.
LEMMA FinishClaims ==
    ASSUME TInv, ClaimInv, NEW a \in Actors, NEW ok \in BOOLEAN,
           NEW undoable \in BOOLEAN, pc[a] # "idle", todo[a] # <<>>,
           Finish(a, ok, undoable),
           blocked' \in [Ips -> {"none", "active", "inactive"}],
           \A ip \in Ips : blocked'[ip] = "none" => blocked[ip] = "none",
           Head(todo[a]) = "block_ip" /\ undoable =>
              blocked[Ip(a)] = "none" /\ blocked'[Ip(a)] # "none"
    PROVE  ClaimInv'
<1> DEFINE new == Result(Head(todo[a]), ok, undoable)
<1>1. /\ results'[a] = Append(results[a], new)
      /\ \A b \in Actors : b # a => results'[b] = results[b]
      /\ results[a] \in Seq(ResultSet) /\ results'[a] \in Seq(ResultSet)
  <2>1. results[a] \in Seq(ResultSet)
    BY DEF TInv, TypeOK, ResultSet
  <2>. QED
    BY <2>1, FinishType
<1>2. UNCHANGED <<alertOf, history>>
  BY DEF Finish
<1>3. /\ DOMAIN results[a] = 1..Len(results[a]) /\ Len(results[a]) \in Nat
      /\ DOMAIN results'[a] = 1..(Len(results[a]) + 1)
      /\ \A j \in 1..Len(results[a]) : results'[a][j] = results[a][j]
      /\ results'[a][Len(results[a]) + 1] = new
  <2>. HIDE DEF new
  <2>. QED
    BY <1>1, LenProperties
<1>4. \A i, ip : RowClaims(i, ip)' <=> RowClaims(i, ip)
  BY <1>2 DEF RowClaims, IsBlock
<1>5. Ip(a) \in Ips /\ \A b \in Actors : Ip(b)' = Ip(b)
  BY <1>2, EngineConstants DEF TInv, RunInv, Ip
<1>6. ASSUME NEW b, NEW j, NEW ip, ResultClaims(b, j, ip)', ~ResultClaims(b, j, ip)
      PROVE  /\ b = a /\ j = Len(results[a]) + 1 /\ ip = Ip(a)
             /\ Head(todo[a]) = "block_ip" /\ undoable
  <2>1. b \in Actors /\ j \in DOMAIN results'[b] /\ IsBlock(results'[b][j]) /\ Ip(b) = ip
    BY <1>5, <1>6 DEF ResultClaims, IsBlock
  <2>2. b = a
    BY <1>1, <1>6, <2>1 DEF ResultClaims
  <2>3. j = Len(results[a]) + 1
    <3>1. j \in DOMAIN results[a] => results'[a][j] = results[a][j]
      BY <1>3
    <3>2. j \notin DOMAIN results[a]
      BY <1>6, <2>1, <2>2, <3>1 DEF ResultClaims
    <3>. HIDE DEF new
    <3>. QED
      BY <1>3, <2>1, <2>2, <3>2
  <2>. QED
    BY <1>3, <2>1, <2>2, <2>3 DEF IsBlock, Result
<1>7. CASE ~(Head(todo[a]) = "block_ip" /\ undoable)
  BY <1>4, <1>6, <1>7, ClaimsShrink
<1>8. CASE Head(todo[a]) = "block_ip" /\ undoable
  <2>1. /\ blocked[Ip(a)] = "none" /\ blocked'[Ip(a)] # "none"
        /\ \A i : ~RowClaims(i, Ip(a)) /\ \A b, j : ~ResultClaims(b, j, Ip(a))
    BY <1>5, <1>8 DEF ClaimInv, ListedInv
  <2>2. ListedInv'
    BY <1>4, <1>6, <2>1 DEF ClaimInv, ListedInv
  <2>3. SingleInv'
    BY <1>4, <1>6, <2>1 DEF ClaimInv, SingleInv
  <2>. QED
    BY <2>2, <2>3 DEF ClaimInv
<1>. QED
  BY <1>7, <1>8

\* A run ends and its results become rows, behind a history that claims what it
\* claimed before.
LEMMA RecordClaims ==
    ASSUME TInv, ClaimInv, NEW a \in Actors, pc[a] # "idle", EndRun(a),
           NEW h \in Seq(Row), DOMAIN h = DOMAIN history,
           \A i \in DOMAIN history : /\ h[i].alert = history[i].alert
                                     /\ h[i].action = history[i].action
                                     /\ h[i].undoable = history[i].undoable,
           history' = h \o Rows(a)
    PROVE  ClaimInv'
<1>1. /\ DOMAIN h \subseteq DOMAIN history'
      /\ \A i \in DOMAIN h : history'[i] = h[i]
      /\ \A i \in DOMAIN history' : i \notin DOMAIN h =>
            \E j \in DOMAIN results[a] :
               i = Len(h) + j /\ history'[i] = RowOf(a, results[a][j])
  BY AppendRows
<1>2. /\ results'[a] = <<>> /\ UNCHANGED blocked
      /\ \A b \in Actors : b # a => results'[b] = results[b] /\ alertOf'[b] = alertOf[b]
  BY DEF EndRun, TInv, TypeOK
<1>3. ASSUME NEW i, NEW ip, RowClaims(i, ip)', ~RowClaims(i, ip)
      PROVE  \E j : ResultClaims(a, j, ip) /\ i = Len(h) + j
  <2>1. i \in DOMAIN history' /\ IsBlock(history'[i]) /\ SourceOf[history'[i].alert] = ip
    BY <1>3 DEF RowClaims, IsBlock
  <2>2. i \notin DOMAIN h
    BY <1>1, <1>3, <2>1 DEF RowClaims, IsBlock
  <2>3. PICK j \in DOMAIN results[a] :
           i = Len(h) + j /\ history'[i] = RowOf(a, results[a][j])
    BY <1>1, <2>1, <2>2
  <2>. QED
    BY <2>1, <2>3 DEF ResultClaims, RowOf, IsBlock, Ip
<1>4. ASSUME NEW b, NEW j, NEW ip, ResultClaims(b, j, ip)'
      PROVE  ResultClaims(b, j, ip) /\ b # a
  <2>1. DOMAIN <<>> = {}
    OBVIOUS
  <2>2. b \in Actors /\ j \in DOMAIN results'[b] /\ IsBlock(results'[b][j]) /\ Ip(b)' = ip
    BY <1>4 DEF ResultClaims, IsBlock
  <2>3. b # a
    BY <1>2, <2>1, <2>2
  <2>. QED
    BY <1>2, <2>2, <2>3 DEF ResultClaims, Ip
<1>5. ListedInv'
  BY <1>2, <1>3, <1>4 DEF ClaimInv, ListedInv
<1>6. ASSUME NEW ip \in Ips
      PROVE  /\ \A i, k : RowClaims(i, ip)' /\ RowClaims(k, ip)' => i = k
             /\ \A i, b, j : ~(RowClaims(i, ip)' /\ ResultClaims(b, j, ip)')
             /\ \A b, j, c, k : ResultClaims(b, j, ip)' /\ ResultClaims(c, k, ip)'
                                   => b = c /\ j = k
  <2>1. /\ \A i, k : RowClaims(i, ip) /\ RowClaims(k, ip) => i = k
        /\ \A i, b, j : ~(RowClaims(i, ip) /\ ResultClaims(b, j, ip))
        /\ \A b, j, c, k : ResultClaims(b, j, ip) /\ ResultClaims(c, k, ip)
                              => b = c /\ j = k
    BY DEF ClaimInv, SingleInv
  <2>. QED
    BY <1>3, <1>4, <2>1
<1>7. SingleInv'
  BY <1>6 DEF SingleInv
<1>. QED
  BY <1>5, <1>7 DEF ClaimInv

LEMMA ClaimStep == TInv /\ ClaimInv /\ [Next]_vars => ClaimInv'
<1> SUFFICES ASSUME TInv, ClaimInv, [Next]_vars PROVE ClaimInv'
  OBVIOUS
<1>0. /\ TypeOK /\ RunInv /\ Workers \subseteq Actors /\ Servers \subseteq Actors
      /\ \A a \in Actors : pc[a] = "idle" => results[a] = <<>>
      /\ \A a \in Actors : pc[a] # "idle" => Ip(a) \in Ips
  BY EngineConstants DEF TInv, RunInv, Actors, Ip
<1>1. ASSUME NEW a \in Actors, NEW alert, NEW actions, NEW isLive, NEW state,
             StartRun(a, alert, actions, isLive, state)
      PROVE  ClaimInv'
  <2>1. /\ UNCHANGED <<history, results, blocked>> /\ results[a] = <<>>
        /\ \A b \in Actors : b # a => alertOf'[b] = alertOf[b]
    BY <1>0, <1>1 DEF StartRun, dataVars, TypeOK
  <2>. QED
    BY <2>1, QuietStep
<1>2. ASSUME NEW w \in Workers, HandleAlert(w) PROVE ClaimInv'
  <2>1. CASE \E alert, actions : StartRun(w, alert, actions, FALSE, "mode")
    BY <1>0, <1>1, <2>1
  <2>2. CASE UNCHANGED <<runVars, dataVars>>
    BY <2>2, QuietStep DEF runVars, dataVars
  <2>. QED
    BY <1>2, <2>1, <2>2 DEF HandleAlert
<1>3. ASSUME NEW s \in Servers, ExecuteManual(s) PROVE ClaimInv'
  BY <1>0, <1>1, <1>3 DEF ExecuteManual
<1>4. ASSUME NEW s \in Servers, StartRollback(s) PROVE ClaimInv'
  <2>1. PICK alert :
           /\ pc[s] = "idle" /\ alertOf' = [alertOf EXCEPT ![s] = alert]
           /\ UNCHANGED <<results, dataVars>>
    BY <1>4 DEF StartRollback
  <2>2. results[s] = <<>> /\ \A b \in Actors : b # s => alertOf'[b] = alertOf[b]
    BY <1>0, <2>1 DEF TypeOK
  <2>. QED
    BY <2>1, <2>2, QuietStep DEF dataVars
<1>5. ASSUME NEW a, ReadMode(a) \/ UpdatePolicy(a) \/ BlockIp(a) \/ UnblockIp(a)
      PROVE  ClaimInv'
  BY <1>5, QuietStep DEF ReadMode, UpdatePolicy, BlockIp, UnblockIp, Firewall,
                         runVars, dataVars
<1>6. ASSUME NEW a \in Actors, InsertBlocked(a) \/ MarkUnblocked(a) \/ OtherAction(a)
      PROVE  ClaimInv'
  <2>1. /\ pc[a] # "idle" /\ todo[a] # <<>> /\ ruleOk[a] \in BOOLEAN
        /\ blocked' \in [Ips -> {"none", "active", "inactive"}]
        /\ \A ip \in Ips : blocked'[ip] = "none" => blocked[ip] = "none"
    BY <1>0, <1>6 DEF InsertBlocked, MarkUnblocked, OtherAction, Executes, RunInv, TypeOK
  <2>2. PICK ok \in BOOLEAN, undoable \in BOOLEAN :
           /\ Finish(a, ok, undoable)
           /\ Head(todo[a]) = "block_ip" /\ undoable =>
                 blocked[Ip(a)] = "none" /\ blocked'[Ip(a)] # "none"
    <3>1. CASE InsertBlocked(a)
      BY <1>0, <2>1, <3>1 DEF InsertBlocked, Unlisted, TypeOK
    <3>2. CASE MarkUnblocked(a)
      BY <2>1, <3>2 DEF MarkUnblocked
    <3>3. CASE OtherAction(a)
      BY <3>3 DEF OtherAction, Executes
    <3>. QED
      BY <1>6, <3>1, <3>2, <3>3
  <2>. QED
    BY <2>1, <2>2, FinishClaims
<1>7. ASSUME NEW a \in Actors, Record(a) PROVE ClaimInv'
  <2>1. /\ pc[a] # "idle" /\ EndRun(a) /\ history' = history \o Rows(a)
        /\ history \in Seq(Row)
    BY <1>0, <1>7 DEF Record, Done, TypeOK
  <2>. QED
    BY <2>1, RecordClaims
<1>8. ASSUME NEW a \in Actors, RecordRollback(a) PROVE ClaimInv'
  <2>1. /\ pc[a] # "idle" /\ EndRun(a) /\ undoing[a] \in DOMAIN history
        /\ history' = Marked(undoing[a]) \o Rows(a)
    BY <1>0, <1>8 DEF RecordRollback, Done, Marked, TypeOK
  <2>2. /\ Marked(undoing[a]) \in Seq(Row)
        /\ DOMAIN Marked(undoing[a]) = DOMAIN history
        /\ \A i \in DOMAIN history :
              /\ Marked(undoing[a])[i].alert = history[i].alert
              /\ Marked(undoing[a])[i].action = history[i].action
              /\ Marked(undoing[a])[i].undoable = history[i].undoable
    BY <1>0, <2>1, MarkedFacts
  <2>. QED
    BY <2>1, <2>2, RecordClaims
<1>9. ASSUME NEW a \in Actors, RecordFails(a) PROVE ClaimInv'
  <2>1. /\ UNCHANGED <<history, blocked>> /\ results'[a] = <<>>
        /\ \A b \in Actors : b # a => results'[b] = results[b] /\ alertOf'[b] = alertOf[b]
    BY <1>0, <1>9 DEF RecordFails, EndRun, TypeOK
  <2>2. \A i, ip : RowClaims(i, ip)' => RowClaims(i, ip)
    BY <2>1 DEF RowClaims, IsBlock
  <2>3. DOMAIN <<>> = {}
    OBVIOUS
  <2>4. \A b, j, ip : ResultClaims(b, j, ip)' => ResultClaims(b, j, ip)
    BY <2>1, <2>3 DEF ResultClaims, IsBlock, Ip
  <2>. QED
    BY <2>1, <2>2, <2>4, ClaimsShrink
<1>10. CASE UNCHANGED vars
  BY <1>10, QuietStep DEF vars, runVars, dataVars
<1>. QED
  BY <1>2, <1>3, <1>4, <1>5, <1>6, <1>7, <1>8, <1>9, <1>10
     DEF Next, Worker, Server, Executing

LEMMA ClaimInit == Init => ClaimInv
<1>1. DOMAIN <<>> = {}
  OBVIOUS
<1>. QED
  BY <1>1 DEF Init, ClaimInv, ListedInv, SingleInv, RowClaims, ResultClaims

\* Two undoable block rows of one address never exist, for any number of
\* workers, servers and requests: the unique column of blocked_ips serialises
\* firewall.block_ip, which looks at nothing before it adds its rule.
THEOREM OneUndoableBlockHolds == Spec => []OneUndoableBlock
<1>1. TInv /\ ClaimInv => OneUndoableBlock
  <2> SUFFICES ASSUME TInv, ClaimInv,
                      NEW i \in DOMAIN history, NEW j \in DOMAIN history,
                      IsBlock(history[i]), IsBlock(history[j]),
                      SourceOf[history[i].alert] = SourceOf[history[j].alert]
               PROVE  i = j
    BY DEF OneUndoableBlock, IsBlock
  <2>1. history[i] \in Row
    BY ElementOfSeq, LenProperties DEF TInv, TypeOK
  <2>2. SourceOf[history[i].alert] \in Ips
    BY <2>1, EngineConstants DEF Row
  <2>. QED
    BY <2>2 DEF ClaimInv, SingleInv, RowClaims
<1>. QED
  BY TInit, TStep, ClaimInit, ClaimStep, <1>1, PTL DEF Spec


-----------------------------------------------------------------------------
(* Rollbacks: their mode.                                                  *)

ModeInv ==
    /\ \A w \in Workers : undoing[w] = NoRow
    /\ \A a \in Actors : undoing[a] # NoRow => live[a] = history[undoing[a]].live
    /\ \A i \in DOMAIN history : history[i].of # NoRow =>
          /\ history[i].of \in DOMAIN history
          /\ history[i].live = history[history[i].of].live

\* A step that records nothing and lets every rollback under way go on as it was.
LEMMA ModeQuiet ==
    ASSUME ModeInv, UNCHANGED history,
           \A a \in Actors : undoing'[a] # NoRow =>
              undoing'[a] = undoing[a] /\ live'[a] = live[a],
           \A w \in Workers : undoing'[w] = undoing[w]
    PROVE  ModeInv'
BY DEF ModeInv, NoRow

\* A run ends and its rows come behind a history with the same modes and origins.
LEMMA ModeRecord ==
    ASSUME TInv, ModeInv, NEW a \in Actors, pc[a] # "idle", EndRun(a),
           NEW h \in Seq(Row), DOMAIN h = DOMAIN history,
           \A i \in DOMAIN history : /\ h[i].live = history[i].live
                                     /\ h[i].of = history[i].of,
           history' = h \o Rows(a)
    PROVE  ModeInv'
<1>1. /\ DOMAIN history \subseteq DOMAIN history'
      /\ \A i \in DOMAIN history : /\ history'[i].live = history[i].live
                                   /\ history'[i].of = history[i].of
      /\ \A i \in DOMAIN history' : i \notin DOMAIN history =>
            history'[i].live = live[a] /\ history'[i].of = undoing[a]
  <2>1. /\ DOMAIN h \subseteq DOMAIN history'
        /\ \A i \in DOMAIN h : history'[i] = h[i]
        /\ \A i \in DOMAIN history' : i \notin DOMAIN h =>
              \E j \in DOMAIN results[a] : history'[i] = RowOf(a, results[a][j])
    BY AppendRows
  <2>2. \A x : RowOf(a, x).live = live[a] /\ RowOf(a, x).of = undoing[a]
    BY DEF RowOf
  <2>. QED
    BY <2>1, <2>2
<1>2. \A b \in Actors : undoing[b] \in {NoRow} \cup DOMAIN history
  BY DEF TInv, TypeOK
<1>3. /\ undoing'[a] = NoRow
      /\ \A b \in Actors : b # a => undoing'[b] = undoing[b] /\ live'[b] = live[b]
  BY DEF EndRun, TInv, TypeOK
<1>4. \A w \in Workers : undoing'[w] = NoRow
  BY <1>3 DEF ModeInv, Actors
<1>5. \A b \in Actors : undoing'[b] # NoRow => live'[b] = history'[undoing'[b]].live
  BY <1>1, <1>2, <1>3 DEF ModeInv
<1>6. ASSUME NEW i \in DOMAIN history', history'[i].of # NoRow
      PROVE  /\ history'[i].of \in DOMAIN history'
             /\ history'[i].live = history'[history'[i].of].live
  <2>1. CASE i \in DOMAIN history
    BY <1>1, <1>6, <2>1 DEF ModeInv
  <2>2. CASE i \notin DOMAIN history
    <3>1. /\ history'[i].live = live[a] /\ history'[i].of = undoing[a]
          /\ undoing[a] \in DOMAIN history
      BY <1>1, <1>2, <1>6, <2>2
    <3>2. /\ live[a] = history[undoing[a]].live
          /\ history'[undoing[a]].live = history[undoing[a]].live
      BY <1>1, <1>6, <3>1 DEF ModeInv
    <3>. QED
      BY <1>1, <3>1, <3>2
  <2>. QED
    BY <2>1, <2>2
<1>. QED
  BY <1>4, <1>5, <1>6 DEF ModeInv

LEMMA ModeStep == TInv /\ ModeInv /\ [Next]_vars => ModeInv'
<1> SUFFICES ASSUME TInv, ModeInv, [Next]_vars PROVE ModeInv'
  OBVIOUS
<1>0. /\ TypeOK /\ RunInv /\ Workers \subseteq Actors /\ Servers \subseteq Actors
      /\ Workers \cap Servers = {}
      /\ \A a \in Actors : pc[a] = "idle" => undoing[a] = NoRow
      /\ \A w \in Workers : undoing[w] = NoRow
  BY EngineConstants DEF TInv, RunInv, Actors, ModeInv
<1>1. ASSUME NEW a \in Actors, NEW alert, NEW actions, NEW isLive, NEW state,
             StartRun(a, alert, actions, isLive, state)
      PROVE  ModeInv'
  <2>1. /\ UNCHANGED <<history, undoing>> /\ undoing[a] = NoRow
        /\ \A b \in Actors : b # a => live'[b] = live[b]
    BY <1>0, <1>1 DEF StartRun, dataVars, TypeOK
  <2>. QED
    BY <2>1, ModeQuiet
<1>2. ASSUME NEW w \in Workers, HandleAlert(w) PROVE ModeInv'
  <2>1. CASE \E alert, actions : StartRun(w, alert, actions, FALSE, "mode")
    BY <1>0, <1>1, <2>1
  <2>2. CASE UNCHANGED <<runVars, dataVars>>
    BY <2>2, ModeQuiet DEF runVars, dataVars
  <2>. QED
    BY <1>2, <2>1, <2>2 DEF HandleAlert
<1>3. ASSUME NEW s \in Servers, ExecuteManual(s) PROVE ModeInv'
  BY <1>0, <1>1, <1>3 DEF ExecuteManual
<1>4. ASSUME NEW s \in Servers, StartRollback(s) PROVE ModeInv'
  <2>1. PICK r \in DOMAIN history :
           /\ live' = [live EXCEPT ![s] = history[r].live]
           /\ undoing' = [undoing EXCEPT ![s] = r]
           /\ UNCHANGED history
    BY <1>4 DEF StartRollback, RollbackMode, dataVars
  <2>2. /\ live'[s] = history[r].live /\ undoing'[s] = r
        /\ \A b \in Actors : b # s => undoing'[b] = undoing[b] /\ live'[b] = live[b]
    BY <1>0, <2>1 DEF TypeOK
  <2>3. \A w \in Workers : undoing'[w] = NoRow
    BY <1>0, <2>2
  <2>. QED
    BY <2>1, <2>2, <2>3 DEF ModeInv
<1>5. ASSUME NEW w \in Workers, ReadMode(w) PROVE ModeInv'
  <2>1. /\ UNCHANGED <<history, undoing>> /\ undoing[w] = NoRow
        /\ \A b \in Actors : b # w => live'[b] = live[b]
    BY <1>0, <1>5 DEF ReadMode, dataVars, TypeOK
  <2>. QED
    BY <2>1, ModeQuiet
<1>6. ASSUME NEW a, \/ UpdatePolicy(a) \/ BlockIp(a) \/ UnblockIp(a)
                    \/ InsertBlocked(a) \/ MarkUnblocked(a) \/ OtherAction(a)
      PROVE  ModeInv'
  <2>1. UNCHANGED <<history, undoing, live>>
    BY <1>6 DEF UpdatePolicy, BlockIp, UnblockIp, InsertBlocked, MarkUnblocked,
                OtherAction, Firewall, Finish, runVars, dataVars
  <2>. QED
    BY <2>1, ModeQuiet
<1>7. ASSUME NEW a \in Actors, Record(a) PROVE ModeInv'
  <2>1. /\ pc[a] # "idle" /\ EndRun(a) /\ history' = history \o Rows(a)
        /\ history \in Seq(Row)
    BY <1>0, <1>7 DEF Record, Done, TypeOK
  <2>. QED
    BY <2>1, ModeRecord
<1>8. ASSUME NEW a \in Actors, RecordRollback(a) PROVE ModeInv'
  <2>1. /\ pc[a] # "idle" /\ EndRun(a) /\ undoing[a] \in DOMAIN history
        /\ history' = Marked(undoing[a]) \o Rows(a)
    BY <1>0, <1>8 DEF RecordRollback, Done, Marked, TypeOK
  <2>2. /\ Marked(undoing[a]) \in Seq(Row)
        /\ DOMAIN Marked(undoing[a]) = DOMAIN history
        /\ \A i \in DOMAIN history :
              /\ Marked(undoing[a])[i].live = history[i].live
              /\ Marked(undoing[a])[i].of = history[i].of
    BY <1>0, <2>1, MarkedFacts
  <2>. QED
    BY <2>1, <2>2, ModeRecord
<1>9. ASSUME NEW a \in Actors, RecordFails(a) PROVE ModeInv'
  <2>1. /\ UNCHANGED history /\ undoing'[a] = NoRow
        /\ \A b \in Actors : b # a => undoing'[b] = undoing[b] /\ live'[b] = live[b]
    BY <1>0, <1>9 DEF RecordFails, EndRun, TypeOK
  <2>2. \A w \in Workers : undoing'[w] = undoing[w]
    BY <1>0, <2>1
  <2>. QED
    BY <2>1, <2>2, ModeQuiet
<1>10. CASE UNCHANGED vars
  BY <1>10, ModeQuiet DEF vars, runVars, dataVars
<1>. QED
  BY <1>2, <1>3, <1>4, <1>5, <1>6, <1>7, <1>8, <1>9, <1>10
     DEF Next, Worker, Server, Executing

\* A rollback is executed in the mode of the row it takes back, for any number of
\* servers and whatever the policy became in between.
THEOREM RollbackKeepsModeHolds == Spec => []RollbackKeepsMode
<1>1. Init => ModeInv
  <2>1. DOMAIN <<>> = {} /\ Workers \subseteq Actors
    BY DEF Actors
  <2>. QED
    BY <2>1 DEF Init, ModeInv, NoRow
<1>2. ModeInv => RollbackKeepsMode
  BY DEF ModeInv, RollbackKeepsMode
<1>. QED
  BY TInit, TStep, <1>1, ModeStep, <1>2, PTL DEF Spec


-----------------------------------------------------------------------------
(* Rollbacks: at most one of a response, with one server process.          *)

SoleServer == \A s, t \in Servers : s = t

\* A rollback under way is of a row not yet marked, and executes one action.
OnceInv ==
    /\ \A a \in Actors : undoing[a] # NoRow =>
          /\ ~history[undoing[a]].undone
          /\ Len(results[a]) + Len(todo[a]) = 1
    /\ RolledBackOnce

LEMMA OnceQuiet ==
    ASSUME OnceInv, UNCHANGED history,
           \A a \in Actors : undoing'[a] # NoRow =>
              /\ undoing'[a] = undoing[a]
              /\ Len(results'[a]) + Len(todo'[a]) = Len(results[a]) + Len(todo[a])
    PROVE  OnceInv'
<1>1. RolledBackOnce'
  BY DEF OnceInv, RolledBackOnce, NoRow
<1>2. ASSUME NEW a \in Actors, undoing'[a] # NoRow
      PROVE  /\ ~history'[undoing'[a]].undone
             /\ Len(results'[a]) + Len(todo'[a]) = 1
  <2>1. /\ undoing'[a] = undoing[a] /\ undoing[a] # NoRow
        /\ Len(results'[a]) + Len(todo'[a]) = Len(results[a]) + Len(todo[a])
    BY <1>2
  <2>2. ~history[undoing[a]].undone /\ Len(results[a]) + Len(todo[a]) = 1
    BY <2>1 DEF OnceInv
  <2>3. Len(results'[a]) + Len(todo'[a]) = 1
    BY <2>1, <2>2, Zenon
  <2>. QED
    BY <2>1, <2>2, <2>3
<1>. QED
  BY <1>1, <1>2 DEF OnceInv, NoRow

\* A run that is no rollback is recorded: its rows have no origin, and mark none.
LEMMA OnceRecord ==
    ASSUME TInv, ModeInv, OnceInv, NEW a \in Actors, Record(a)
    PROVE  OnceInv'
<1>1. pc[a] # "idle" /\ undoing[a] = NoRow /\ history' = history \o Rows(a) /\ EndRun(a)
  BY DEF Record, Done
<1>2. /\ DOMAIN history \subseteq DOMAIN history' /\ DOMAIN history = 1..Len(history)
      /\ \A i \in DOMAIN history : history'[i] = history[i]
      /\ \A i \in DOMAIN history' : i \notin DOMAIN history =>
            \E j \in DOMAIN results[a] : history'[i] = RowOf(a, results[a][j])
  <2>1. history \in Seq(Row)
    BY DEF TInv, TypeOK
  <2>. QED
    BY <1>1, <2>1, AppendRows
<1>3. \A x : RowOf(a, x).of = NoRow /\ ~RowOf(a, x).undone
  BY <1>1 DEF RowOf
<1>4. \A i \in DOMAIN history' : i \notin DOMAIN history =>
         history'[i].of = NoRow /\ ~history'[i].undone
  BY <1>2, <1>3
<1>5. NoRow \notin DOMAIN history'
  <2>1. history' \in Seq(Row)
    BY <1>1, AppendRows DEF TInv, TypeOK
  <2>. QED
    BY <2>1, LenProperties DEF NoRow
<1>6. RolledBackOnce'
  <2>1. ASSUME NEW i \in DOMAIN history', NEW j \in DOMAIN history',
               history'[i].of # NoRow, history'[i].of = history'[j].of
        PROVE  i = j
    BY <1>2, <1>4, <2>1 DEF OnceInv, RolledBackOnce
  <2>2. ASSUME NEW r \in DOMAIN history'
        PROVE  history'[r].undone <=> \E i \in DOMAIN history' : history'[i].of = r
    <3>1. r # NoRow
      BY <1>5
    <3>2. ASSUME NEW i \in DOMAIN history', history'[i].of = r
          PROVE  i \in DOMAIN history /\ history[i].of = r
      BY <1>2, <1>4, <3>1, <3>2
    <3>3. CASE r \in DOMAIN history
      BY <1>2, <3>2, <3>3 DEF OnceInv, RolledBackOnce
    <3>4. CASE r \notin DOMAIN history
      <4>1. ASSUME NEW i \in DOMAIN history, history[i].of = r
            PROVE  FALSE
        <5>1. history[i].of \in {NoRow} \cup DOMAIN history
          BY DEF ModeInv
        <5>. QED
          BY <3>1, <3>4, <4>1, <5>1
      <4>. QED
        BY <1>4, <3>2, <3>4, <4>1
    <3>. QED
      BY <3>3, <3>4
  <2>. QED
    BY <2>1, <2>2 DEF RolledBackOnce, NoRow
<1>7. ASSUME NEW b \in Actors, undoing'[b] # NoRow
      PROVE  /\ ~history'[undoing'[b]].undone
             /\ Len(results'[b]) + Len(todo'[b]) = 1
  <2>1. b # a /\ undoing'[b] = undoing[b] /\ results'[b] = results[b] /\ todo'[b] = todo[b]
    BY <1>1, <1>7 DEF EndRun, TInv, TypeOK
  <2>2. undoing[b] \in DOMAIN history
    BY <1>7, <2>1 DEF TInv, TypeOK
  <2>. QED
    BY <1>2, <1>7, <2>1, <2>2 DEF OnceInv
<1>. QED
  BY <1>6, <1>7 DEF OnceInv, NoRow


\* A rollback is recorded: the row it was made for gets its mark and its one row.
LEMMA OnceRecordRollback ==
    ASSUME SoleServer, TInv, ModeInv, OnceInv, NEW a \in Actors, RecordRollback(a)
    PROVE  OnceInv'
<1> DEFINE r == undoing[a]
<1>1. /\ pc[a] # "idle" /\ EndRun(a) /\ r # NoRow /\ r \in DOMAIN history
      /\ history' = Marked(r) \o Rows(a) /\ todo[a] = <<>>
  BY DEF RecordRollback, Done, Marked, TInv, TypeOK
<1>2. ~history[r].undone /\ Len(results[a]) = 1
  <2>1. Len(results[a]) + Len(todo[a]) = 1 /\ Len(todo[a]) = 0 /\ ~history[r].undone
    BY <1>1 DEF OnceInv
  <2>2. Len(results[a]) \in Nat
    BY LenProperties DEF TInv, TypeOK
  <2>. QED
    BY <2>1, <2>2
<1>3. /\ Marked(r) \in Seq(Row) /\ Len(Marked(r)) = Len(history)
      /\ DOMAIN Marked(r) = DOMAIN history /\ DOMAIN history = 1..Len(history)
      /\ Marked(r)[r].undone
      /\ \A i \in DOMAIN history : i # r => Marked(r)[i] = history[i]
      /\ \A i \in DOMAIN history : Marked(r)[i].of = history[i].of
  <2>. HIDE DEF r
  <2>. QED
    BY <1>1, MarkedFacts DEF TInv
<1>4. /\ history' \in Seq(Row) /\ Len(history') = Len(history) + 1
      /\ DOMAIN history \subseteq DOMAIN history'
      /\ \A i \in DOMAIN history : history'[i] = Marked(r)[i]
      /\ \A i \in DOMAIN history' : i \notin DOMAIN history =>
            \E j \in DOMAIN results[a] : history'[i] = RowOf(a, results[a][j])
  <2> DEFINE h == Marked(r)
  <2>1. h \in Seq(Row) /\ history' = h \o Rows(a) /\ pc[a] # "idle"
    BY <1>1, <1>3
  <2>2. Len(h) = Len(history) /\ DOMAIN h = DOMAIN history
    BY <1>3
  <2>. HIDE DEF r, h
  <2>3. /\ h \o Rows(a) \in Seq(Row)
        /\ Len(h \o Rows(a)) = Len(h) + Len(results[a])
        /\ DOMAIN h \subseteq DOMAIN (h \o Rows(a))
        /\ \A i \in DOMAIN h : (h \o Rows(a))[i] = h[i]
        /\ \A i \in DOMAIN (h \o Rows(a)) : i \notin DOMAIN h =>
              \E j \in DOMAIN results[a] :
                 i = Len(h) + j /\ (h \o Rows(a))[i] = RowOf(a, results[a][j])
    BY <2>1, AppendRows
  <2>4. Len(history') = Len(history) + 1
    BY <1>2, <2>1, <2>2, <2>3
  <2>5. history' \in Seq(Row) /\ \A i \in DOMAIN history : history'[i] = h[i]
    BY <2>1, <2>2, <2>3
  <2>6. \A i \in DOMAIN history' : i \notin DOMAIN history =>
           \E j \in DOMAIN results[a] : history'[i] = RowOf(a, results[a][j])
    BY <2>1, <2>2, <2>3
  <2>7. DOMAIN history \subseteq DOMAIN history'
    BY <2>1, <2>2, <2>3
  <2>. QED
    BY <2>4, <2>5, <2>6, <2>7 DEF h
<1>5. \A x : RowOf(a, x).of = r /\ ~RowOf(a, x).undone
  BY DEF RowOf
<1>6. Len(history) \in Nat /\ DOMAIN history' = 1..(Len(history) + 1)
  BY <1>4, LenProperties DEF TInv, TypeOK
<1> DEFINE n == Len(history) + 1
<1>7. /\ n \in DOMAIN history' /\ n \notin DOMAIN history
      /\ history'[n].of = r /\ ~history'[n].undone
      /\ \A i \in DOMAIN history' : i # n => i \in DOMAIN history
      /\ \A i \in DOMAIN history : history'[i].of = history[i].of
  <2>1. /\ n \in DOMAIN history' /\ n \notin DOMAIN history
        /\ \A i \in DOMAIN history' : i # n => i \in DOMAIN history
    BY <1>3, <1>6
  <2>. HIDE DEF r, n
  <2>. QED
    BY <1>3, <1>4, <1>5, <2>1
<1>8. /\ \A i, j \in DOMAIN history :
            history[i].of # NoRow /\ history[i].of = history[j].of => i = j
      /\ \A x \in DOMAIN history :
            history[x].undone <=> \E i \in DOMAIN history : history[i].of = x
      /\ \A i \in DOMAIN history : history[i].of # r
      /\ \A i \in DOMAIN history : history[i].of # n
  <2>1. /\ \A i, j \in DOMAIN history :
              history[i].of # NoRow /\ history[i].of = history[j].of => i = j
        /\ \A x \in DOMAIN history :
              history[x].undone <=> \E i \in DOMAIN history : history[i].of = x
    BY DEF OnceInv, RolledBackOnce
  <2>2. \A i \in DOMAIN history : history[i].of \in {NoRow} \cup DOMAIN history
    BY DEF ModeInv
  <2>3. n # NoRow
    BY <1>6 DEF NoRow
  <2>. HIDE DEF r, n
  <2>. QED
    BY <1>1, <1>2, <1>7, <2>1, <2>2, <2>3
<1>9. RolledBackOnce'
  <2>. HIDE DEF r, n
  <2>1. ASSUME NEW i \in DOMAIN history', NEW j \in DOMAIN history',
               history'[i].of # NoRow, history'[i].of = history'[j].of
        PROVE  i = j
    BY <1>7, <1>8, <2>1
  <2>2. ASSUME NEW x \in DOMAIN history'
        PROVE  history'[x].undone <=> \E i \in DOMAIN history' : history'[i].of = x
    <3>1. CASE x = r
      <4>1. history'[r].undone /\ n \in DOMAIN history' /\ history'[n].of = r
        BY <1>1, <1>3, <1>4, <1>7
      <4>. QED
        BY <3>1, <4>1
    <3>2. CASE x = n
      <4>1. ~history'[n].undone /\ r # n
        BY <1>1, <1>7
      <4>2. ASSUME NEW i \in DOMAIN history' PROVE history'[i].of # n
        BY <1>7, <1>8, <4>1
      <4>. QED
        BY <3>2, <4>1, <4>2
    <3>3. CASE x # r /\ x # n
      BY <1>3, <1>4, <1>7, <1>8, <3>3
    <3>. QED
      BY <3>1, <3>2, <3>3
  <2>. QED
    BY <2>1, <2>2 DEF RolledBackOnce, NoRow
<1>10. \A b \in Actors : undoing'[b] = NoRow
  <2>1. ASSUME NEW b \in Actors, undoing[b] # NoRow PROVE b = a
    BY <1>1, <2>1 DEF ModeInv, SoleServer, Actors
  <2>. QED
    BY <1>1, <2>1 DEF EndRun, TInv, TypeOK
<1>. QED
  BY <1>9, <1>10 DEF OnceInv, NoRow

LEMMA OnceStep == SoleServer /\ TInv /\ ModeInv /\ OnceInv /\ [Next]_vars => OnceInv'
<1> SUFFICES ASSUME SoleServer, TInv, ModeInv, OnceInv, [Next]_vars PROVE OnceInv'
  OBVIOUS
<1>0. /\ TypeOK /\ RunInv /\ Workers \subseteq Actors /\ Servers \subseteq Actors
      /\ \A a \in Actors : pc[a] = "idle" => undoing[a] = NoRow
  BY EngineConstants DEF TInv, RunInv, Actors
<1>1. ASSUME NEW a \in Actors, NEW alert, NEW actions, NEW isLive, NEW state,
             StartRun(a, alert, actions, isLive, state)
      PROVE  OnceInv'
  <2>1. /\ UNCHANGED <<history, undoing, results>> /\ undoing[a] = NoRow
        /\ \A b \in Actors : b # a => todo'[b] = todo[b]
    BY <1>0, <1>1 DEF StartRun, dataVars, TypeOK
  <2>. QED
    BY <2>1, OnceQuiet
<1>2. ASSUME NEW w \in Workers, HandleAlert(w) PROVE OnceInv'
  <2>1. CASE \E alert, actions : StartRun(w, alert, actions, FALSE, "mode")
    BY <1>0, <1>1, <2>1
  <2>2. CASE UNCHANGED <<runVars, dataVars>>
    BY <2>2, OnceQuiet DEF runVars, dataVars
  <2>. QED
    BY <1>2, <2>1, <2>2 DEF HandleAlert
<1>3. ASSUME NEW s \in Servers, ExecuteManual(s) PROVE OnceInv'
  BY <1>0, <1>1, <1>3 DEF ExecuteManual
<1>4. ASSUME NEW s \in Servers, StartRollback(s) PROVE OnceInv'
  <2>1. PICK r \in DOMAIN history :
           /\ pc[s] = "idle" /\ ~history[r].undone
           /\ todo' = [todo EXCEPT ![s] = <<Undo(history[r].action)>>]
           /\ undoing' = [undoing EXCEPT ![s] = r]
           /\ UNCHANGED <<history, results>>
    BY <1>4 DEF StartRollback, MayRollback, dataVars
  <2>2. /\ todo'[s] = <<Undo(history[r].action)>> /\ undoing'[s] = r
        /\ results'[s] = <<>>
        /\ \A b \in Actors : b # s => undoing'[b] = undoing[b] /\ todo'[b] = todo[b]
    BY <1>0, <2>1 DEF TypeOK, RunInv
  <2>3. Len(results'[s]) + Len(todo'[s]) = 1
    BY <2>2
  <2>4. ASSUME NEW b \in Actors, undoing'[b] # NoRow
        PROVE  /\ ~history'[undoing'[b]].undone
               /\ Len(results'[b]) + Len(todo'[b]) = 1
    <3>1. CASE b = s
      BY <2>1, <2>2, <2>3, <3>1
    <3>2. CASE b # s
      <4>1. /\ ~history[undoing[b]].undone
            /\ Len(results[b]) + Len(todo[b]) = 1
        BY <2>2, <2>4, <3>2 DEF OnceInv
      <4>. QED
        BY <2>1, <2>2, <3>2, <4>1
    <3>. QED
      BY <3>1, <3>2
  <2>5. RolledBackOnce'
    BY <2>1 DEF OnceInv, RolledBackOnce, NoRow
  <2>. QED
    BY <2>4, <2>5 DEF OnceInv, NoRow
<1>5. ASSUME NEW a, ReadMode(a) \/ UpdatePolicy(a) \/ BlockIp(a) \/ UnblockIp(a)
      PROVE  OnceInv'
  <2>1. UNCHANGED <<history, undoing, results, todo>>
    BY <1>5 DEF ReadMode, UpdatePolicy, BlockIp, UnblockIp, Firewall, runVars, dataVars
  <2>. QED
    BY <2>1, OnceQuiet
<1>6. ASSUME NEW a \in Actors, InsertBlocked(a) \/ MarkUnblocked(a) \/ OtherAction(a)
      PROVE  OnceInv'
  <2>1. /\ pc[a] # "idle" /\ todo[a] # <<>> /\ ruleOk[a] \in BOOLEAN
        /\ blocked' \in [Ips -> {"none", "active", "inactive"}]
    BY <1>0, <1>6 DEF InsertBlocked, MarkUnblocked, OtherAction, Executes, RunInv, TypeOK
  <2>2. PICK ok \in BOOLEAN, undoable \in BOOLEAN : Finish(a, ok, undoable)
    BY <1>6, <2>1 DEF InsertBlocked, MarkUnblocked, OtherAction
  <2>3. /\ results'[a] = Append(results[a], Result(Head(todo[a]), ok, undoable))
        /\ results[a] \in Seq(ResultSet) /\ todo[a] \in Seq(Actions)
        /\ todo'[a] = Tail(todo[a])
        /\ \A b \in Actors : b # a => results'[b] = results[b] /\ todo'[b] = todo[b]
    BY <1>0, <2>1, <2>2, FinishType DEF TypeOK, ResultSet
  <2>4. Len(results'[a]) = Len(results[a]) + 1 /\ Len(results[a]) \in Nat
    BY <2>3, LenProperties
  <2>5. Len(todo'[a]) = Len(todo[a]) - 1 /\ Len(todo[a]) \in Nat
    BY <2>1, <2>3, HeadTailProperties, LenProperties
  <2>6. Len(results'[a]) + Len(todo'[a]) = Len(results[a]) + Len(todo[a])
    <3>1. \A x, y \in Nat : (x + 1) + (y - 1) = x + y
      OBVIOUS
    <3>. QED
      BY <2>4, <2>5, <3>1, Zenon
  <2>7. UNCHANGED <<history, undoing>>
    BY <2>2 DEF Finish
  <2>. QED
    BY <2>3, <2>6, <2>7, OnceQuiet
<1>7. ASSUME NEW a \in Actors, Record(a) PROVE OnceInv'
  BY <1>7, OnceRecord
<1>8. ASSUME NEW a \in Actors, RecordRollback(a) PROVE OnceInv'
  BY <1>8, OnceRecordRollback
<1>9. ASSUME NEW a \in Actors, RecordFails(a) PROVE OnceInv'
  <2>1. /\ UNCHANGED <<history, todo>> /\ undoing'[a] = NoRow
        /\ \A b \in Actors : b # a => undoing'[b] = undoing[b] /\ results'[b] = results[b]
    BY <1>0, <1>9 DEF RecordFails, EndRun, TypeOK
  <2>. QED
    BY <2>1, OnceQuiet
<1>10. CASE UNCHANGED vars
  BY <1>10, OnceQuiet DEF vars, runVars, dataVars
<1>. QED
  BY <1>2, <1>3, <1>4, <1>5, <1>6, <1>7, <1>8, <1>9, <1>10
     DEF Next, Worker, Server, Executing

\* With one server process, whose event loop executes one handler at a time, a
\* response is never rolled back twice, and is marked as rolled back exactly when
\* a row tells of it: rollback's check and its mark are two transactions, which
\* only the event loop keeps together.
THEOREM RolledBackOnceHolds == SoleServer => (Spec => []RolledBackOnce)
<1> SUFFICES ASSUME SoleServer PROVE Spec => []RolledBackOnce
  OBVIOUS
<1>1. Init => ModeInv
  <2>1. DOMAIN <<>> = {} /\ Workers \subseteq Actors
    BY DEF Actors
  <2>. QED
    BY <2>1 DEF Init, ModeInv, NoRow
<1>2. Init => OnceInv
  <2>1. DOMAIN <<>> = {}
    OBVIOUS
  <2>. QED
    BY <2>1 DEF Init, OnceInv, RolledBackOnce, NoRow
<1>3. TInv /\ ModeInv /\ OnceInv /\ [Next]_vars => OnceInv'
  BY OnceStep
<1>4. OnceInv => RolledBackOnce
  BY DEF OnceInv
<1>. QED
  BY TInit, TStep, <1>1, ModeStep, <1>2, <1>3, <1>4, PTL DEF Spec

-----------------------------------------------------------------------------
(* The status of an alert.  Every run has a group of its own, so the rows of *)
(* the last run of an alert are those its transaction has just appended.     *)

Own(h, al)  == {i \in DOMAIN h : h[i].alert = al /\ h[i].of = NoRow}
Last(h, al) == {i \in Own(h, al) : \A j \in Own(h, al) : j <= i}
Run(h, al)  == {i \in Own(h, al) : \E l \in Last(h, al) : h[l].group = h[i].group}

Tells(h, st, al) ==
    /\ st[al] = "new" <=> Own(h, al) = {}
    /\ st[al] = "responded" => \A i \in Run(h, al) : h[i].ok
    /\ st[al] = "response_failed" => \A i \in Run(h, al) : ~h[i].ok

InRun(a) == pc[a] # "idle" /\ undoing[a] = NoRow

GroupInv ==
    /\ \A a \in Actors : InRun(a) =>
          /\ group[a] <= started
          /\ \A i \in DOMAIN history : history[i].of = NoRow => history[i].group # group[a]
    /\ \A a, b \in Actors : InRun(a) /\ InRun(b) /\ group[a] = group[b] => a = b
    /\ \A i \in DOMAIN history : history[i].of = NoRow => history[i].group <= started

TellInv == \A al \in Alerts : Tells(history, status, al)

StatusInv == GroupInv /\ TellInv

LEMMA TellsDefined == TellInv <=> StatusTellsLastRun
BY DEF TellInv, Tells, Run, Last, Own, StatusTellsLastRun

\* The status of an alert depends on its own rows only.
LEMMA TellsSame ==
    ASSUME NEW h, NEW k, NEW st, NEW su, NEW al, Tells(h, st, al), su[al] = st[al],
           Own(k, al) = Own(h, al),
           \A i \in Own(h, al) : k[i].group = h[i].group /\ k[i].ok = h[i].ok
    PROVE  Tells(k, su, al)
<1>1. Last(k, al) = Last(h, al) /\ Last(h, al) \subseteq Own(h, al)
  BY DEF Last
<1>2. Run(k, al) = Run(h, al) /\ Run(h, al) \subseteq Own(h, al)
  BY <1>1 DEF Run
<1>. QED
  BY <1>2 DEF Tells

\* Steps that record nothing and begin no run.
LEMMA StatusQuiet ==
    ASSUME StatusInv, UNCHANGED <<history, status, started>>,
           \A a \in Actors : InRun(a)' => InRun(a) /\ group'[a] = group[a]
    PROVE  StatusInv'
<1>1. TellInv'
  BY DEF StatusInv, TellInv
<1>2. GroupInv'
  BY DEF StatusInv, GroupInv
<1>. QED
  BY <1>1, <1>2 DEF StatusInv

LEMMA StatusStart ==
    ASSUME TInv, StatusInv, NEW a \in Actors, NEW alert, NEW actions, NEW isLive, NEW state,
           StartRun(a, alert, actions, isLive, state)
    PROVE  StatusInv'
<1>1. TypeOK /\ started \in Nat /\ started' = started + 1
  <2>1. started \in 0..MaxRuns /\ started' = started + 1
    BY DEF TInv, TypeOK, StartRun
  <2>. QED
    BY <2>1, EngineConstants DEF TInv
<1>2. /\ UNCHANGED <<history, status, undoing>> /\ group'[a] = started + 1
      /\ \A b \in Actors : b # a => pc'[b] = pc[b] /\ group'[b] = group[b]
  BY <1>1 DEF StartRun, dataVars, TypeOK
<1>3. \A b \in Actors : b # a => (InRun(b)' <=> InRun(b))
  BY <1>2 DEF InRun
<1>4. \A b \in Actors : InRun(b) => group[b] <= started /\ group[b] \in Nat
  BY <1>1 DEF StatusInv, GroupInv, TypeOK
<1>5. ASSUME NEW i \in DOMAIN history, history[i].of = NoRow
      PROVE  history[i].group <= started /\ history[i].group \in Nat
  <2>1. history[i] \in Row
    BY <1>1, ElementOfSeq, LenProperties DEF TypeOK
  <2>. QED
    BY <1>5, <2>1, EngineConstants DEF StatusInv, GroupInv, Row
<1>6. ASSUME NEW b \in Actors, InRun(b)'
      PROVE  /\ group'[b] <= started'
             /\ \A i \in DOMAIN history' : history'[i].of = NoRow => history'[i].group # group'[b]
  <2>1. CASE b = a
    <3>1. \A x \in Nat : x <= started => x # started + 1
      BY <1>1
    <3>. QED
      BY <1>1, <1>2, <1>5, <2>1, <3>1
  <2>2. CASE b # a
    <3>1. InRun(b) /\ group'[b] = group[b]
      BY <1>2, <1>3, <1>6, <2>2
    <3>. QED
      BY <1>1, <1>2, <1>4, <3>1 DEF StatusInv, GroupInv
  <2>. QED
    BY <2>1, <2>2
<1>7. ASSUME NEW b \in Actors, NEW c \in Actors, InRun(b)', InRun(c)', group'[b] = group'[c]
      PROVE  b = c
  <2>1. \A x \in Nat : x <= started => x # started + 1
    BY <1>1
  <2>2. CASE b = a \/ c = a
    BY <1>2, <1>3, <1>4, <1>7, <2>1, <2>2
  <2>3. CASE b # a /\ c # a
    BY <1>2, <1>3, <1>7, <2>3 DEF StatusInv, GroupInv
  <2>. QED
    BY <2>2, <2>3
<1>8. \A i \in DOMAIN history' : history'[i].of = NoRow => history'[i].group <= started'
  BY <1>1, <1>2, <1>5
<1>9. TellInv'
  BY <1>2 DEF StatusInv, TellInv
<1>. QED
  BY <1>6, <1>7, <1>8, <1>9 DEF StatusInv, GroupInv

\* Recording a run: its rows come last, they are all of one group, and no other
\* recorded run of the alert has that group.
LEMMA StatusRecord ==
    ASSUME TInv, StatusInv, NEW a \in Actors, Record(a)
    PROVE  StatusInv'
<1>0. /\ TypeOK /\ InRun(a) /\ EndRun(a) /\ history' = history \o Rows(a)
      /\ alertOf[a] \in Alerts /\ results[a] \in Seq(ResultSet) /\ history \in Seq(Row)
      /\ pc[a] # "idle"
  BY DEF TInv, TypeOK, RunInv, Record, Done, InRun, ResultSet
<1>1. /\ Len(history') = Len(history) + Len(results[a]) /\ history' \in Seq(Row)
      /\ Len(history) \in Nat /\ Len(results[a]) \in Nat
      /\ DOMAIN history = 1..Len(history) /\ DOMAIN results[a] = 1..Len(results[a])
      /\ DOMAIN history' = 1..(Len(history) + Len(results[a]))
      /\ \A i \in DOMAIN history : history'[i] = history[i]
  BY <1>0, AppendRows, LenProperties
<1>2. ASSUME NEW i \in DOMAIN history', i \notin DOMAIN history
      PROVE  \E j \in DOMAIN results[a] :
                /\ i = Len(history) + j
                /\ history'[i].alert = alertOf[a] /\ history'[i].of = NoRow
                /\ history'[i].group = group[a] /\ history'[i].ok = results[a][j].ok
  <2>1. PICK j \in DOMAIN results[a] :
           i = Len(history) + j /\ history'[i] = RowOf(a, results[a][j])
    BY <1>0, <1>2, AppendRows
  <2>. QED
    BY <1>0, <2>1 DEF RowOf, InRun
<1>3. ASSUME NEW al \in Alerts, al # alertOf[a]
      PROVE  Tells(history', status', al)
  <2>1. Own(history', al) = Own(history, al)
    BY <1>1, <1>2, <1>3 DEF Own
  <2>2. status'[al] = status[al]
    BY <1>0, <1>3 DEF Record, TypeOK
  <2>3. Own(history, al) \subseteq DOMAIN history /\ Tells(history, status, al)
    BY DEF Own, StatusInv, TellInv
  <2>4. \A i \in Own(history, al) :
            history'[i].group = history[i].group /\ history'[i].ok = history[i].ok
    BY <1>1, <2>3
  <2>. QED
    BY <2>1, <2>2, <2>3, <2>4, TellsSame
<1>4. ASSUME results[a] = <<>>
      PROVE  history' = history /\ status' = status
  <2>1. Rows(a) = <<>>
    <3>1. Len(Rows(a)) = 0 /\ Rows(a) \in Seq(Row)
      BY <1>0, <1>4, RowsFacts
    <3>. QED
      BY <3>1, EmptySeq
  <2>. QED
    BY <1>0, <1>4, <2>1, ConcatEmptySeq DEF Record
<1>5. ASSUME results[a] # <<>>
      PROVE  Tells(history', status', alertOf[a])
  <2> DEFINE al == alertOf[a]
             top == Len(history) + Len(results[a])
  <2>1. Len(results[a]) > 0
    BY <1>0, <1>1, <1>5, EmptySeq
  <2>2. top \in DOMAIN history' /\ top \notin DOMAIN history
        /\ \A i \in DOMAIN history' : i <= top
    BY <1>1, <2>1
  <2>3. \A i \in DOMAIN history' : i \notin DOMAIN history => i \in Own(history', al)
    BY <1>2 DEF Own
  <2>4. top \in Own(history', al) /\ \A i \in Own(history', al) : i <= top
    BY <2>2, <2>3 DEF Own
  <2>5. top \in Nat /\ \A i \in Own(history', al) : i \in Nat
    BY <1>1 DEF Own
  <2>6. \A l \in Last(history', al) : l = top
    BY <2>4, <2>5 DEF Last
  <2>7. history'[top].group = group[a]
    BY <1>2, <2>2
  <2>8. ASSUME NEW i \in Run(history', al)
        PROVE  i \in DOMAIN history' /\ i \notin DOMAIN history
    <3>1. /\ i \in DOMAIN history' /\ history'[i].of = NoRow
          /\ history'[i].group = group[a]
      BY <2>6, <2>7 DEF Run, Own
    <3>2. \A k \in DOMAIN history : history[k].of = NoRow => history[k].group # group[a]
      BY <1>0 DEF StatusInv, GroupInv
    <3>. QED
      BY <1>1, <3>1, <3>2
  <2>9. \A i \in Run(history', al) : \E j \in DOMAIN results[a] :
            history'[i].ok = results[a][j].ok
    BY <1>2, <2>8
  <2>10. /\ status'[al] = Outcome(results[a])
         /\ Outcome(results[a]) \in {"responded", "response_failed"}
    BY <1>0, <1>5 DEF Record, TypeOK, Outcome, Fits
  <2>11. /\ Outcome(results[a]) = "responded" => \A j \in DOMAIN results[a] : results[a][j].ok
         /\ Outcome(results[a]) = "response_failed" =>
               \A j \in DOMAIN results[a] : ~results[a][j].ok
    <3>1. \A j \in DOMAIN results[a] : results[a][j].ok \in BOOLEAN
      <4>1. \A j \in 1..Len(results[a]) : results[a][j] \in ResultSet
        BY <1>0, ElementOfSeq
      <4>. QED
        BY <1>1, <4>1 DEF ResultSet
    <3>. QED
      BY <3>1 DEF Outcome
  <2>. HIDE DEF al, top
  <2>12. \A i \in Run(history', al) :
            /\ status'[al] = "responded" => history'[i].ok
            /\ status'[al] = "response_failed" => ~history'[i].ok
    <3>. TAKE i \in Run(history', al)
    <3>1. PICK j \in DOMAIN results[a] : history'[i].ok = results[a][j].ok
      BY <2>9
    <3>. QED
      BY <2>10, <2>11, <3>1
  <2>13. status'[al] # "new" /\ Own(history', al) # {}
    BY <2>4, <2>10
  <2>14. Tells(history', status', al)
    BY <2>12, <2>13 DEF Tells
  <2>. QED
    BY <2>14 DEF al
<1>6. TellInv'
  <2>1. CASE results[a] = <<>>
    BY <1>4, <2>1 DEF StatusInv, TellInv
  <2>2. CASE results[a] # <<>>
    BY <1>3, <1>5, <2>2 DEF TellInv
  <2>. QED
    BY <2>1, <2>2
<1>7. /\ started' = started /\ pc'[a] = "idle"
      /\ \A b \in Actors : b # a =>
            pc'[b] = pc[b] /\ undoing'[b] = undoing[b] /\ group'[b] = group[b]
  BY <1>0 DEF EndRun, TypeOK
<1>8. \A b \in Actors : InRun(b)' => b # a /\ InRun(b) /\ group'[b] = group[b]
  BY <1>7 DEF InRun
<1>9. ASSUME NEW i \in DOMAIN history', history'[i].of = NoRow
      PROVE  /\ history'[i].group <= started'
             /\ \A b \in Actors : InRun(b)' => history'[i].group # group'[b]
  <2>1. CASE i \in DOMAIN history
    BY <1>1, <1>7, <1>8, <1>9, <2>1 DEF StatusInv, GroupInv
  <2>2. CASE i \notin DOMAIN history
    <3>1. history'[i].group = group[a] /\ group[a] <= started
      BY <1>0, <1>2, <2>2 DEF StatusInv, GroupInv
    <3>2. \A b \in Actors : InRun(b)' => group[a] # group'[b]
      BY <1>0, <1>8 DEF StatusInv, GroupInv
    <3>. QED
      BY <1>7, <3>1, <3>2
  <2>. QED
    BY <2>1, <2>2
<1>10. GroupInv'
  <2>1. \A b \in Actors : InRun(b)' => group'[b] <= started'
    BY <1>7, <1>8 DEF StatusInv, GroupInv
  <2>2. \A b, c \in Actors : InRun(b)' /\ InRun(c)' /\ group'[b] = group'[c] => b = c
    BY <1>8 DEF StatusInv, GroupInv
  <2>. QED
    BY <1>9, <2>1, <2>2 DEF GroupInv
<1>. QED
  BY <1>6, <1>10 DEF StatusInv

LEMMA StatusRecordRollback ==
    ASSUME TInv, StatusInv, NEW a \in Actors, RecordRollback(a)
    PROVE  StatusInv'
<1>0. /\ TypeOK /\ EndRun(a) /\ history' = Marked(undoing[a]) \o Rows(a)
      /\ undoing[a] # NoRow /\ undoing[a] \in DOMAIN history /\ pc[a] # "idle"
      /\ status' = status
  BY DEF TInv, TypeOK, RecordRollback, Done, Marked
<1>m. PICK h \in Seq(Row) : h = Marked(undoing[a])
  BY <1>0, MarkedFacts
<1>a. /\ history' = h \o Rows(a) /\ DOMAIN h = DOMAIN history
      /\ \A i \in DOMAIN history :
            /\ h[i].alert = history[i].alert /\ h[i].of = history[i].of
            /\ h[i].group = history[i].group /\ h[i].ok = history[i].ok
  BY <1>0, <1>m, MarkedFacts
<1>b. /\ DOMAIN h \subseteq DOMAIN (h \o Rows(a))
      /\ \A i \in DOMAIN h : (h \o Rows(a))[i] = h[i]
      /\ \A i \in DOMAIN (h \o Rows(a)) : i \notin DOMAIN h =>
            \E j \in DOMAIN results[a] : (h \o Rows(a))[i] = RowOf(a, results[a][j])
  <2>1. /\ DOMAIN h \subseteq DOMAIN (h \o Rows(a))
        /\ \A i \in DOMAIN h : (h \o Rows(a))[i] = h[i]
    BY <1>0, AppendRows
  <2>2. \A i \in DOMAIN (h \o Rows(a)) : i \notin DOMAIN h =>
            \E j \in DOMAIN results[a] :
               i = Len(h) + j /\ (h \o Rows(a))[i] = RowOf(a, results[a][j])
    BY <1>0, AppendRows
  <2>. QED
    BY <2>1, <2>2
<1>1. /\ DOMAIN history \subseteq DOMAIN history'
      /\ \A i \in DOMAIN history :
            /\ history'[i].alert = history[i].alert /\ history'[i].of = history[i].of
            /\ history'[i].group = history[i].group /\ history'[i].ok = history[i].ok
  BY <1>a, <1>b
<1>2. ASSUME NEW i \in DOMAIN history', i \notin DOMAIN history
      PROVE  history'[i].of # NoRow
  <2>1. PICK j \in DOMAIN results[a] : history'[i] = RowOf(a, results[a][j])
    BY <1>2, <1>a, <1>b
  <2>. QED
    BY <1>0, <2>1 DEF RowOf
<1>3. ASSUME NEW al \in Alerts
      PROVE  Tells(history', status', al)
  <2>1. Own(history', al) = Own(history, al) /\ Own(history, al) \subseteq DOMAIN history
    BY <1>1, <1>2 DEF Own
  <2>2. Tells(history, status, al)
    BY DEF StatusInv, TellInv
  <2>3. \A i \in Own(history, al) :
            history'[i].group = history[i].group /\ history'[i].ok = history[i].ok
    BY <1>1, <2>1
  <2>4. status'[al] = status[al]
    BY <1>0
  <2>. QED
    BY <2>1, <2>2, <2>3, <2>4, TellsSame
<1>4. \A b \in Actors : InRun(b)' => InRun(b) /\ group'[b] = group[b] /\ started' = started
  BY <1>0 DEF EndRun, TypeOK, InRun
<1>5. GroupInv'
  <2>1. started' = started
    BY <1>0 DEF EndRun
  <2>. QED
    BY <1>1, <1>2, <1>4, <2>1 DEF StatusInv, GroupInv
<1>. QED
  BY <1>3, <1>5 DEF StatusInv, TellInv

LEMMA StatusStep == TInv /\ StatusInv /\ [Next]_vars => StatusInv'
<1> SUFFICES ASSUME TInv, StatusInv, [Next]_vars PROVE StatusInv'
  OBVIOUS
<1>0. TypeOK /\ RunInv /\ Workers \subseteq Actors /\ Servers \subseteq Actors
  BY DEF TInv, Actors
<1>1. ASSUME NEW w \in Workers, HandleAlert(w) PROVE StatusInv'
  <2>1. CASE \E alert, actions : StartRun(w, alert, actions, FALSE, "mode")
    BY <1>0, <2>1, StatusStart
  <2>2. CASE UNCHANGED <<pc, runVars, started, dataVars>>
    BY <2>2, StatusQuiet DEF runVars, dataVars, InRun
  <2>. QED
    BY <1>1, <2>1, <2>2 DEF HandleAlert
<1>2. ASSUME NEW s \in Servers, ExecuteManual(s) PROVE StatusInv'
  BY <1>0, <1>2, StatusStart DEF ExecuteManual
<1>3. ASSUME NEW s \in Servers, StartRollback(s) PROVE StatusInv'
  <2>1. PICK r \in DOMAIN history :
           /\ group' = [group EXCEPT ![s] = history[r].group]
           /\ undoing' = [undoing EXCEPT ![s] = r]
           /\ pc' = [pc EXCEPT ![s] = "acting"]
           /\ UNCHANGED <<started, history, status>>
    BY <1>3 DEF StartRollback, dataVars
  <2>2. r # NoRow
    BY <1>0, LenProperties DEF TypeOK, NoRow
  <2>3. ~InRun(s)'
    BY <1>0, <2>1, <2>2 DEF InRun, TypeOK
  <2>4. \A b \in Actors : b # s =>
            pc'[b] = pc[b] /\ undoing'[b] = undoing[b] /\ group'[b] = group[b]
    BY <1>0, <2>1 DEF TypeOK
  <2>. QED
    BY <2>1, <2>3, <2>4, StatusQuiet DEF InRun
<1>4. ASSUME NEW w \in Workers, ReadMode(w) PROVE StatusInv'
  <2>1. /\ UNCHANGED <<history, status, started, group, undoing>>
        /\ pc[w] # "idle" /\ \A b \in Actors : b # w => pc'[b] = pc[b]
    BY <1>0, <1>4 DEF ReadMode, dataVars, TypeOK
  <2>. QED
    BY <2>1, StatusQuiet DEF InRun
<1>5. ASSUME NEW s \in Servers, UpdatePolicy(s) PROVE StatusInv'
  BY <1>5, StatusQuiet DEF UpdatePolicy, runVars, dataVars, InRun
<1>6. ASSUME NEW a \in Actors,
             BlockIp(a) \/ UnblockIp(a) \/ InsertBlocked(a) \/ MarkUnblocked(a) \/ OtherAction(a)
      PROVE  StatusInv'
  <2>1. pc[a] # "idle"
    BY <1>6 DEF BlockIp, UnblockIp, InsertBlocked, MarkUnblocked, OtherAction, Executes
  <2>2. /\ UNCHANGED <<history, status, started, group, undoing>>
        /\ \A b \in Actors : b # a => pc'[b] = pc[b]
    BY <1>0, <1>6
    DEF BlockIp, UnblockIp, InsertBlocked, MarkUnblocked, OtherAction, Firewall, Finish, TypeOK
  <2>. QED
    BY <2>1, <2>2, StatusQuiet DEF InRun
<1>7. ASSUME NEW a \in Actors, RecordFails(a) PROVE StatusInv'
  <2>1. /\ UNCHANGED <<history, status, started>> /\ pc'[a] = "idle"
        /\ \A b \in Actors : b # a =>
              pc'[b] = pc[b] /\ undoing'[b] = undoing[b] /\ group'[b] = group[b]
    BY <1>0, <1>7 DEF RecordFails, EndRun, TypeOK
  <2>. QED
    BY <2>1, StatusQuiet DEF InRun
<1>8. ASSUME NEW a \in Actors, Record(a) \/ RecordRollback(a) PROVE StatusInv'
  BY <1>8, StatusRecord, StatusRecordRollback
<1>9. CASE UNCHANGED vars
  BY <1>9, StatusQuiet DEF vars, runVars, dataVars, InRun
<1>. QED
  BY <1>1, <1>2, <1>3, <1>4, <1>5, <1>6, <1>7, <1>8, <1>9
     DEF Next, Worker, Server, Executing

\* The status of an alert tells the outcome of the last response recorded for it,
\* when automated and manual runs of one alert overlap too (_persist_results).
THEOREM StatusTellsLastRunHolds == Spec => []StatusTellsLastRun
<1>1. Init => StatusInv
  <2>1. DOMAIN <<>> = {}
    OBVIOUS
  <2>2. ASSUME Init PROVE GroupInv
    BY <2>1, <2>2 DEF Init, GroupInv, InRun
  <2>3. ASSUME Init PROVE TellInv
    <3>1. \A al : Own(<<>>, al) = {} /\ Run(<<>>, al) = {}
      BY <2>1 DEF Own, Run
    <3>. QED
      BY <2>3, <3>1 DEF Init, TellInv, Tells
  <2>. QED
    BY <2>2, <2>3 DEF StatusInv
<1>2. StatusInv => StatusTellsLastRun
  BY TellsDefined DEF StatusInv
<1>. QED
  BY TInit, TStep, <1>1, StatusStep, <1>2, PTL DEF Spec
=============================================================================
