--------------------------- MODULE ResponseEngine ---------------------------
(***************************************************************************)
(* Automated and manual responses to alerts (backend/response_engine and   *)
(* api/routes/responses.py).                                               *)
(*                                                                         *)
(* An actor is a detection worker, which answers the alert it has just     *)
(* persisted, or the event loop of a server process, which executes and    *)
(* rolls back responses on request, one handler at a time.  Every process  *)
(* holds the policy in memory.  A step of an actor is one locked read of   *)
(* the policy, one call of iptables or one database transaction: between   *)
(* them the other actors run.                                              *)
(***************************************************************************)
EXTENDS Integers, Sequences

CONSTANTS
    Workers,      \* detection workers
    Servers,      \* server processes (uvicorn --workers)
    Home,         \* the process each worker is a thread of
    Alerts,       \* alerts in the database
    Ips,          \* source addresses
    SourceOf,     \* the source address of each alert
    Policies,     \* what an administrator may configure
    ManualLists,  \* the action lists an analyst may request
    LiveEnabled,  \* ENABLE_LIVE_RESPONSE_ACTIONS
    DbMayFail,    \* may a transaction fail
    MaxRuns,      \* bound: responses started
    NoAlert

Recovery == {"restart_service", "kill_process", "generate_incident", "notify_analyst",
             "increase_monitoring"}
Notifications == {"send_email", "send_telegram", "webhook_notification", "log_response"}
Actions == {"block_ip", "unblock_ip", "quarantine_host", "unquarantine_host"}
           \cup Recovery \cup Notifications

ASSUME EngineConstants ==
    /\ Workers \cap Servers = {}
    /\ Home \in [Workers -> Servers]
    /\ SourceOf \in [Alerts -> Ips]
    /\ Policies \subseteq [actions: Seq(Actions), live: BOOLEAN]
    /\ ManualLists \subseteq Seq(Actions)
    /\ LiveEnabled \in BOOLEAN
    /\ DbMayFail \in BOOLEAN
    /\ MaxRuns \in Nat
    /\ NoAlert \notin Alerts

Actors == Workers \cup Servers
NoRow  == 0

VARIABLES
    policy,     \* PolicyEngine: severity's action list and mode, per process
    pending,    \* alerts persisted and not yet handed to handle_alert
    pc,         \* where each actor is
    alertOf,    \* the alert it answers
    todo,       \* the actions it has still to execute
    live,       \* ResponseContext.mode is "live"
    ruleOk,     \* what the firewall said to the action under way
    results,    \* the ActionResults so far
    group,      \* response_group_id
    undoing,    \* the row it rolls back
    started,    \* groups begun
    chain,      \* DROP rules of each address in iptables' INPUT chain
    blocked,    \* its row in blocked_ips: none, active or inactive
    history,    \* response_history, oldest first
    status      \* alerts.status

runVars  == <<alertOf, todo, live, ruleOk, results, group, undoing>>
dataVars == <<chain, blocked, history, status>>
vars     == <<policy, pending, pc, runVars, started, dataVars>>

Undo(action) == CASE action = "block_ip"        -> "unblock_ip"
                  [] action = "quarantine_host" -> "unquarantine_host"
                  [] OTHER                      -> "none"

\* `of` is no column: it names the row a rollback was made for, 0 for others.
Row == [alert: Alerts, action: Actions, ok: BOOLEAN, undoable: BOOLEAN,
        undone: BOOLEAN, live: BOOLEAN, group: 1..MaxRuns, of: Nat]

Result(action, ok, undoable) == [action |-> action, ok |-> ok, undoable |-> undoable]

Init ==
    /\ policy \in {[s \in Servers |-> p] : p \in Policies}
    /\ pending = Alerts
    /\ pc = [a \in Actors |-> "idle"]
    /\ alertOf = [a \in Actors |-> NoAlert]
    /\ todo = [a \in Actors |-> <<>>]
    /\ live = [a \in Actors |-> FALSE]
    /\ ruleOk = [a \in Actors |-> FALSE]
    /\ results = [a \in Actors |-> <<>>]
    /\ group = [a \in Actors |-> 0]
    /\ undoing = [a \in Actors |-> NoRow]
    /\ started = 0
    /\ chain = [ip \in Ips |-> 0]
    /\ blocked = [ip \in Ips |-> "none"]
    /\ history = <<>>
    /\ status = [al \in Alerts |-> "new"]

-----------------------------------------------------------------------------
(* Starting a response                                                     *)

\* _run: a new group id and a ResponseContext.  `state` is "mode" while the
\* policy's mode is still to be read.
StartRun(a, alert, actions, isLive, state) ==
    /\ pc[a] = "idle"
    /\ started < MaxRuns
    /\ started' = started + 1
    /\ group' = [group EXCEPT ![a] = started + 1]
    /\ alertOf' = [alertOf EXCEPT ![a] = alert]
    /\ todo' = [todo EXCEPT ![a] = actions]
    /\ live' = [live EXCEPT ![a] = isLive]
    /\ pc' = [pc EXCEPT ![a] = state]
    /\ UNCHANGED <<policy, ruleOk, results, undoing, dataVars>>

\* handle_alert: the actions are read under the policy's lock.
HandleAlert(w) ==
    \E alert \in pending :
        LET actions == policy[Home[w]].actions
        IN /\ pending' = pending \ {alert}
           /\ \/ actions # <<>> /\ StartRun(w, alert, actions, FALSE, "mode")
              \/ /\ actions = <<>>
                 /\ pc[w] = "idle"
                 /\ UNCHANGED <<policy, pc, runVars, started, dataVars>>

\* ... and the mode under the lock again: an update may have come between.
ReadMode(w) ==
    /\ pc[w] = "mode"
    /\ live' = [live EXCEPT ![w] = policy[Home[w]].live]
    /\ pc' = [pc EXCEPT ![w] = "acting"]
    /\ UNCHANGED <<policy, pending, alertOf, todo, ruleOk, results, group,
                   undoing, started, dataVars>>

\* POST /responses/execute: the request may leave the actions, or the mode, to
\* the policy; nothing else runs on the loop while both are read.
ExecuteManual(s) ==
    \E alert \in Alerts, actions \in ManualLists \cup {policy[s].actions},
       isLive \in BOOLEAN :
        /\ StartRun(s, alert, actions, isLive, "acting")
        /\ UNCHANGED pending

\* PUT /response-rules, in the process that serves the request.
UpdatePolicy(s) ==
    /\ pc[s] = "idle"
    /\ \E p \in Policies : policy' = [policy EXCEPT ![s] = p]
    /\ UNCHANGED <<pending, pc, runVars, started, dataVars>>

-----------------------------------------------------------------------------
(* Executing the actions                                                   *)

Ip(a) == SourceOf[alertOf[a]]

\* resolve_mode: both gates agree.
Live(a) == live[a] /\ LiveEnabled

Executes(a, action) ==
    /\ pc[a] = "acting"
    /\ todo[a] # <<>>
    /\ Head(todo[a]) = action

\* The first half of block_ip and of unblock_ip, up to their transaction.
Firewall(a, ok, rules, state) ==
    /\ ruleOk' = [ruleOk EXCEPT ![a] = ok]
    /\ chain' = [chain EXCEPT ![Ip(a)] = rules]
    /\ pc' = [pc EXCEPT ![a] = state]
    /\ UNCHANGED <<policy, pending, alertOf, todo, live, results, group,
                   undoing, started, blocked, history, status>>

\* iptables -A adds a rule, also one the chain has already.  A call that fails
\* (the timeout is one of the ways) may have taken effect or not.
BlockIp(a) ==
    /\ Executes(a, "block_ip")
    /\ \/ ~Live(a) /\ Firewall(a, TRUE, chain[Ip(a)], "blocking")
       \/ Live(a) /\ Firewall(a, TRUE, chain[Ip(a)] + 1, "blocking")
       \/ /\ Live(a)
          /\ \E added \in {0, 1} : Firewall(a, FALSE, chain[Ip(a)] + added, "blocking")

\* iptables -D removes one rule, and fails if there is none.
FaultyRemovable(ip) == TRUE
Removable(ip) == chain[ip] > 0

UnblockIp(a) ==
    /\ Executes(a, "unblock_ip")
    /\ \/ ~Live(a) /\ Firewall(a, TRUE, chain[Ip(a)], "unblocking")
       \/ /\ Live(a)
          /\ Removable(Ip(a))
          /\ \E ok \in BOOLEAN : Firewall(a, ok, chain[Ip(a)] - 1, "unblocking")
       \/ Live(a) /\ Firewall(a, FALSE, chain[Ip(a)], "unblocking")

\* execute_actions: the result, or what an exception is turned into.
Finish(a, ok, undoable) ==
    /\ results' = [results EXCEPT ![a] = Append(@, Result(Head(todo[a]), ok, undoable))]
    /\ todo' = [todo EXCEPT ![a] = Tail(@)]
    /\ pc' = [pc EXCEPT ![a] = "acting"]
    /\ ruleOk' = [ruleOk EXCEPT ![a] = FALSE]
    /\ UNCHANGED <<policy, pending, alertOf, live, group, undoing, started,
                   chain, history, status>>

\* INSERT INTO blocked_ips, whose address is unique: a second row raises,
\* whatever the firewall did.
FaultyUnlisted(ip) == TRUE
Unlisted(ip) == blocked[ip] = "none"

InsertBlocked(a) ==
    /\ pc[a] = "blocking"
    /\ \/ /\ Unlisted(Ip(a))
          /\ blocked' = [blocked EXCEPT ![Ip(a)] = "active"]
          /\ Finish(a, ruleOk[a], ruleOk[a])
       \/ /\ ~Unlisted(Ip(a)) \/ DbMayFail
          /\ Finish(a, FALSE, FALSE)
          /\ UNCHANGED blocked

MarkUnblocked(a) ==
    /\ pc[a] = "unblocking"
    /\ \/ /\ blocked' = [blocked EXCEPT ![Ip(a)] = IF @ = "active" THEN "inactive" ELSE @]
          /\ Finish(a, ruleOk[a], FALSE)
       \/ DbMayFail /\ Finish(a, FALSE, FALSE) /\ UNCHANGED blocked

\* What may fail: a call to the operating system or to a service, made in live
\* mode only, and a row of the audit log.
RecoveryFails(a, action) ==
    \/ action \in {"restart_service", "kill_process"} /\ Live(a)
    \/ action = "generate_incident" /\ DbMayFail

NotificationFails(a, action) ==
    \/ action \in {"send_email", "send_telegram", "webhook_notification"} /\ Live(a)
    \/ action = "log_response" /\ DbMayFail

\* Actions that touch nothing modelled here: quarantine is only logged, and what
\* recovery.py and notifications.py do has no undo.
OtherAction(a) ==
    /\ \/ Executes(a, "quarantine_host") /\ Finish(a, TRUE, TRUE)
       \/ Executes(a, "unquarantine_host") /\ Finish(a, TRUE, FALSE)
       \/ \E action \in Recovery \cup Notifications, ok \in BOOLEAN :
            /\ Executes(a, action)
            /\ ok \/ RecoveryFails(a, action) \/ NotificationFails(a, action)
            /\ Finish(a, ok, FALSE)
    /\ UNCHANGED blocked

-----------------------------------------------------------------------------
(* Recording and rolling back                                              *)

RowOf(a, result) ==
    [alert |-> alertOf[a], action |-> result.action, ok |-> result.ok,
     undoable |-> result.undoable, undone |-> FALSE, live |-> live[a],
     group |-> group[a], of |-> undoing[a]]

Rows(a) == [i \in DOMAIN results[a] |-> RowOf(a, results[a][i])]

FaultyOutcome(rs) ==
    IF \E i \in DOMAIN rs : rs[i].ok THEN "responded" ELSE "response_failed"
Outcome(rs) ==
    IF \A i \in DOMAIN rs : rs[i].ok THEN "responded"
    ELSE IF \E i \in DOMAIN rs : rs[i].ok THEN "partially_responded"
    ELSE "response_failed"

\* alerts.status is a varchar(16); PostgreSQL refuses a longer value.
Fits(value) == value # "partially_responded"

Done(a) == pc[a] = "acting" /\ todo[a] = <<>>

EndRun(a) ==
    /\ pc' = [pc EXCEPT ![a] = "idle"]
    /\ alertOf' = [alertOf EXCEPT ![a] = NoAlert]
    /\ live' = [live EXCEPT ![a] = FALSE]
    /\ results' = [results EXCEPT ![a] = <<>>]
    /\ group' = [group EXCEPT ![a] = 0]
    /\ undoing' = [undoing EXCEPT ![a] = NoRow]
    /\ UNCHANGED <<policy, pending, todo, ruleOk, started, chain, blocked>>

\* One transaction: a row per result, and the alert's status.
Record(a) ==
    /\ Done(a)
    /\ undoing[a] = NoRow
    /\ results[a] = <<>> \/ Fits(Outcome(results[a]))
    /\ history' = history \o Rows(a)
    /\ status' = IF results[a] = <<>> THEN status
                 ELSE [status EXCEPT ![alertOf[a]] = Outcome(results[a])]
    /\ EndRun(a)

\* The transaction fails: what the actions did stays, and no row tells of it.
RecordFails(a) ==
    /\ Done(a)
    /\ DbMayFail \/ (undoing[a] = NoRow /\ results[a] # <<>> /\ ~Fits(Outcome(results[a])))
    /\ EndRun(a)
    /\ UNCHANGED <<history, status>>

\* rollback, first session: look at the row, then let the session close.
FaultyMayRollback(row) == row.undoable
MayRollback(row) == row.undoable /\ ~row.undone

FaultyRollbackMode(s, row) == policy[s].live
RollbackMode(s, row) == row.live

StartRollback(s) ==
    \E r \in DOMAIN history :
        LET row == history[r]
        IN /\ pc[s] = "idle"
           /\ MayRollback(row)
           /\ Undo(row.action) # "none"
           /\ todo' = [todo EXCEPT ![s] = <<Undo(row.action)>>]
           /\ live' = [live EXCEPT ![s] = RollbackMode(s, row)]
           /\ alertOf' = [alertOf EXCEPT ![s] = row.alert]
           /\ group' = [group EXCEPT ![s] = row.group]
           /\ undoing' = [undoing EXCEPT ![s] = r]
           /\ pc' = [pc EXCEPT ![s] = "acting"]
           /\ UNCHANGED <<policy, pending, ruleOk, results, started, dataVars>>

\* ... second session: the rollback's row, and rolled_back, whatever came of it.
RecordRollback(s) ==
    /\ Done(s)
    /\ undoing[s] # NoRow
    /\ history' = [history EXCEPT ![undoing[s]].undone = TRUE] \o Rows(s)
    /\ EndRun(s)
    /\ UNCHANGED status

-----------------------------------------------------------------------------
Executing(a) ==
    \/ BlockIp(a)
    \/ InsertBlocked(a)
    \/ UnblockIp(a)
    \/ MarkUnblocked(a)
    \/ OtherAction(a)
    \/ Record(a)
    \/ RecordFails(a)
    \/ RecordRollback(a)

Worker(w) == HandleAlert(w) \/ ReadMode(w)
Server(s) == ExecuteManual(s) \/ StartRollback(s) \/ UpdatePolicy(s)

Next ==
    \/ \E w \in Workers : Worker(w)
    \/ \E s \in Servers : Server(s)
    \/ \E a \in Actors : Executing(a)

Spec == Init /\ [][Next]_vars

-----------------------------------------------------------------------------
(* Properties                                                              *)

TypeOK ==
    /\ policy \in [Servers -> Policies]
    /\ pending \in SUBSET Alerts
    /\ pc \in [Actors -> {"idle", "mode", "acting", "blocking", "unblocking"}]
    /\ alertOf \in [Actors -> Alerts \cup {NoAlert}]
    /\ todo \in [Actors -> Seq(Actions)]
    /\ live \in [Actors -> BOOLEAN]
    /\ ruleOk \in [Actors -> BOOLEAN]
    /\ results \in [Actors -> Seq([action: Actions, ok: BOOLEAN, undoable: BOOLEAN])]
    /\ group \in [Actors -> Nat]
    /\ undoing \in [Actors -> Nat]
    /\ started \in 0..MaxRuns
    /\ chain \in [Ips -> Nat]
    /\ blocked \in [Ips -> {"none", "active", "inactive"}]
    /\ history \in Seq(Row)
    /\ status \in [Alerts -> {"new", "responded", "partially_responded",
                              "response_failed"}]
    /\ \A a \in Actors : undoing[a] \in {NoRow} \cup DOMAIN history

\* However many workers answer alerts of one attacker at once, and analysts with
\* them, at most one response holds the block of an address that a rollback can
\* take back: nobody's rollback removes a block another response relies on.
OneUndoableBlock ==
    \A i, j \in DOMAIN history :
        /\ history[i].action = "block_ip" /\ history[i].undoable
        /\ history[j].action = "block_ip" /\ history[j].undoable
        /\ SourceOf[history[i].alert] = SourceOf[history[j].alert]
        => i = j

\* A response is rolled back once ("was already rolled back"), and is marked so
\* exactly when a row tells of the attempt, although the check and the mark are
\* made in two sessions with the action between them.
RolledBackOnce ==
    /\ \A i, j \in DOMAIN history :
          history[i].of # NoRow /\ history[i].of = history[j].of => i = j
    /\ \A r \in DOMAIN history :
          history[r].undone <=> \E i \in DOMAIN history : history[i].of = r

\* A rollback acts in the mode of the response it takes back, whatever the
\* policy says by then: undoing a simulated block removes no firewall rule.
RollbackKeepsMode ==
    \A i \in DOMAIN history : history[i].of # NoRow =>
        history[i].live = history[history[i].of].live

\* The status of an alert tells the outcome of the last response recorded for it
\* (rollbacks aside), when automated and manual runs of one alert overlap too.
StatusTellsLastRun ==
    \A al \in Alerts :
        LET own  == {i \in DOMAIN history : history[i].alert = al /\ history[i].of = NoRow}
            last == {i \in own : \A j \in own : j <= i}
            run  == {i \in own : \E l \in last : history[l].group = history[i].group}
        IN /\ status[al] = "new" <=> own = {}
           /\ status[al] = "responded" => \A i \in run : history[i].ok
           /\ status[al] = "response_failed" => \A i \in run : ~history[i].ok

\* "Is written to by response_history.py after every executed action" (response
\* repository): a run that ends leaves one row per action it executed.
ActionsAreRecorded ==
    [][\A a \in Actors : Done(a) /\ pc'[a] = "idle" =>
          Len(history') = Len(history) + Len(results[a])]_vars

=============================================================================
