---------------------------- MODULE ApiRequests ----------------------------
(***************************************************************************)
(* The worker processes of the API and the requests that change accounts,  *)
(* sessions and incidents (auth/, services/incident_service.py), each in   *)
(* one READ COMMITTED transaction of PostgreSQL.                           *)
(*                                                                         *)
(* A request is accepted on the event loop of its process.  A dependency   *)
(* loads and authorises the caller in a thread; the handler is `async def` *)
(* but its database calls are synchronous, so it keeps the loop from its   *)
(* first query to its return, also while a flush waits for a row another   *)
(* transaction has locked; get_db commits afterwards, in a thread the loop *)
(* has to dispatch.  Every step is one of these stretches.                 *)
(***************************************************************************)
EXTENDS Integers, Sequences, FiniteSets

CONSTANTS
    Processes,       \* uvicorn worker processes
    MaxRequests,     \* bound: requests
    Calls,           \* the requests clients may send
    Names,           \* user names
    Roles,           \* role names
    Permissions,     \* PERMISSION_CATALOG
    Defaults,        \* DEFAULT_ROLE_PERMISSIONS, as <<role, permission>> pairs
    Admin,           \* DEFAULT_ADMIN_USERNAME
    MaxSessions,     \* bound: refresh tokens ever issued
    MaxIncidents,    \* bound: incidents ever opened
    MaxEvents,       \* bound: crashes, expiries and grants an operator takes away
    Databases        \* the databases the processes may start on

ASSUME ApiConstants ==
    /\ MaxRequests \in Nat
    /\ MaxSessions \in Nat
    /\ MaxIncidents \in Nat
    /\ MaxEvents \in Nat
    /\ Admin \in Names
    /\ {"Admin", "Viewer"} \subseteq Roles
    /\ Defaults \subseteq Roles \X Permissions
    /\ Defaults # {}

Requests   == 1..MaxRequests
SessionIds == 1..MaxSessions
Incidents  == 1..MaxIncidents
Nobody     == 0                     \* no request, no session, no incident
NoAccount  == [active |-> FALSE, role |-> "none", password |-> "none"]

Passwords == {"old", "new"}
Account   == [active : BOOLEAN, role : Roles, password : Passwords]
Session   == [user : Names, revoked : BOOLEAN, expired : BOOLEAN]
NoSession == [user |-> "none", revoked |-> TRUE, expired |-> TRUE]
NoDraft   == [session |-> Nobody, incident |-> Nobody, status |-> "none", timeline |-> << >>]
Statuses  == {"open", "assigned", "in_progress", "resolved", "closed"}

\* A request names rows that may be there or not; those a process finds when it
\* starts are rows the program stored, and grants are stored no later than the
\* first account.
ASSUME ApiInputs ==
    /\ \A c \in Calls :
          /\ c.actor \in Names /\ c.subject \in Names /\ c.session \in SessionIds
          /\ c.op = "update_incident" => c.incident \in Incidents
    /\ \A db \in Databases :
          /\ db.accounts \in [Names -> Account \cup {NoAccount}]
          /\ db.sessions \in [SessionIds -> Session \cup {NoSession}]
          /\ (\A n \in Names : db.accounts[n] = NoAccount) => db.granted = {} /\ db.server = "down"
          /\ \A i \in Incidents : db.incidents[i].timeline \in Seq({Nobody} \cup Requests)

VARIABLES
    accounts,    \* users: name -> account
    sessions,    \* user_sessions: jti -> session
    granted,     \* role_permissions: <<role, permission>> pairs
    incidents,   \* incidents: id -> [status, timeline], the timeline empty if there is none
    server,      \* process -> "down", "seeding", "writing" or "up"
    missing,     \* process -> the grants its seeding found missing
    events,      \* how many crashes, expiries and revocations there were
    loop,        \* process -> the request whose handler keeps its event loop
    phase,       \* request -> how far it is
    proc,        \* request -> the process that serves it
    call,        \* request -> what was asked
    seen,        \* request -> the caller's row as get_current_user loaded it
    rows,        \* request -> rows its flush locks until the transaction ends
    draft,       \* request -> what its handler has computed to store
    witnessed,   \* history: <<request, side>>, see Entitled
    met          \* history: pairs of requests that were served at the same time

data     == <<accounts, sessions, granted, incidents>>
servers  == <<server, missing, events>>
requests == <<proc, call, seen>>
work     == <<loop, phase, rows, draft>>
history  == <<witnessed, met>>
vars     == <<data, servers, requests, work, history>>

-----------------------------------------------------------------------------
(* Requests and row locks                                                  *)

\* What the route's dependency asks for: a permission, any valid account, or
\* nothing at all.
Needs(op) ==
    CASE op \in {"create_user", "set_role", "deactivate", "reactivate"} -> "users:write"
      [] op \in {"open_incident", "update_incident"} -> "incidents:write"
      [] op \in {"logout", "profile"} -> "account"
      [] OTHER -> "nothing"

Creates == {"register", "create_user"}

Ended    == {"done", "failed", "lost"}
InFlight == {r \in Requests : phase[r] \notin Ended \cup {"unused"}}

\* The rows locked by a transaction that has flushed and not ended.
FaultyHolds(r) == IF phase[r] \in {"returned", "closing", "done"} THEN rows[r] ELSE {}
Holds(r) == IF phase[r] \in {"returned", "closing"} THEN rows[r] ELSE {}

Blocks(other, r) == other # r /\ Holds(other) \cap rows[r] # {}

\* The row of a name as the handler of r sees it: the caller's own is the one
\* loaded before (the identity map of the SQLAlchemy session).
AccountFor(r, name) ==
    IF Needs(call[r].op) # "nothing" /\ name = call[r].actor
    THEN seen[r] ELSE accounts[name]

\* has_permission.
May(account, need) ==
    /\ account.active
    /\ need = "account" \/ <<account.role, need>> \in granted

\* The test refresh_access_token makes of the session it found.
FaultyUsable(session) == ~session.expired
Usable(session) == ~session.revoked /\ ~session.expired

\* VALID_TRANSITIONS.
Reachable(status) ==
    CASE status = "open"        -> Statuses
      [] status = "assigned"    -> Statuses \ {"open"}
      [] status = "in_progress" -> {"in_progress", "resolved", "closed"}
      [] status = "resolved"    -> {"resolved", "closed", "in_progress"}
      [] OTHER                  -> {"closed"}

\* jti and incident ids are fresh uuids: the least number no row and no open
\* transaction has.
NextSession ==
    LET taken == {s \in SessionIds : sessions[s] # NoSession}
                     \cup {draft[r].session : r \in Requests}
    IN {s \in SessionIds \ taken : \A t \in SessionIds \ taken : s <= t}

NextIncident ==
    LET taken == {i \in Incidents : incidents[i].timeline # << >>}
                     \cup {draft[r].incident : r \in Requests}
    IN {i \in Incidents \ taken : \A j \in Incidents \ taken : i <= j}

-----------------------------------------------------------------------------
Init ==
    /\ \E db \in Databases :
           /\ accounts = db.accounts
           /\ sessions = db.sessions
           /\ granted = db.granted
           /\ incidents = db.incidents
           /\ server = [p \in Processes |-> db.server]
           /\ events = db.events
    /\ missing = [p \in Processes |-> {}]
    /\ loop = [p \in Processes |-> Nobody]
    /\ phase = [r \in Requests |-> "unused"]
    /\ proc = [r \in Requests |-> CHOOSE p \in Processes : TRUE]
    /\ call = [r \in Requests |-> CHOOSE c \in Calls : TRUE]
    /\ seen = [r \in Requests |-> NoAccount]
    /\ rows = [r \in Requests |-> {}]
    /\ draft = [r \in Requests |-> NoDraft]
    /\ witnessed = {}
    /\ met = {}

-----------------------------------------------------------------------------
(* A request from its arrival to its handler                               *)

\* A route without a dependency on the caller goes straight to its handler.
Accept(r, p, c) ==
    /\ phase[r] = "unused"
    /\ \A s \in Requests : s < r => phase[s] # "unused"
    /\ server[p] = "up"
    /\ loop[p] = Nobody
    /\ phase' = [phase EXCEPT ![r] = IF Needs(c.op) = "nothing" THEN "authorized" ELSE "accepted"]
    /\ proc' = [proc EXCEPT ![r] = p]
    /\ call' = [call EXCEPT ![r] = c]
    /\ UNCHANGED <<data, servers, loop, seen, rows, draft>>

\* get_current_user and require_permission, in a thread: 401, 403, or go on.
Authorize(r) ==
    LET account == accounts[call[r].actor]
    IN /\ phase[r] = "accepted"
       /\ seen' = [seen EXCEPT ![r] = account]
       /\ phase' = [phase EXCEPT ![r] =
                       IF May(account, Needs(call[r].op)) THEN "authorized" ELSE "failed"]
       /\ UNCHANGED <<data, servers, loop, proc, call, rows, draft>>

\* A handler begins on the event loop; what it reads is committed.
Begins(r, op) ==
    /\ phase[r] = "authorized"
    /\ call[r].op = op
    /\ loop[proc[r]] = Nobody
    /\ UNCHANGED <<data, servers, requests>>

\* It raises: get_db rolls the transaction back.
Raise(r) ==
    /\ phase' = [phase EXCEPT ![r] = "failed"]
    /\ UNCHANGED <<loop, rows, draft>>

\* It has changed rows, and flushes them before it returns.
Change(r, changed) ==
    /\ rows' = [rows EXCEPT ![r] = changed]
    /\ phase' = [phase EXCEPT ![r] = "flushing"]
    /\ loop' = [loop EXCEPT ![proc[r]] = r]

\* It returns, and what it changed is flushed by the commit.
Return(r) ==
    /\ phase' = [phase EXCEPT ![r] = "returned"]
    /\ UNCHANGED <<loop, rows>>

-----------------------------------------------------------------------------
(* The handlers of auth/routes.py                                          *)

\* authentication.login: a session row, and last_login_at in the user's row.
Login(r) ==
    LET account == accounts[call[r].subject]
    IN /\ Begins(r, "login")
       /\ IF account.active /\ account.password = call[r].value
          THEN \E s \in NextSession :
                  /\ draft' = [draft EXCEPT ![r].session = s]
                  /\ Change(r, {<<"account", call[r].subject>>})
          ELSE Raise(r)

\* authentication.refresh_access_token: revoke the session, store a new one.
Refresh(r) ==
    LET session == sessions[call[r].session]
    IN /\ Begins(r, "refresh")
       /\ IF Usable(session) /\ accounts[session.user].active
          THEN \E s \in NextSession :
                  /\ draft' = [draft EXCEPT ![r].session = s]
                  /\ Change(r, {<<"session", call[r].session>>})
          ELSE Raise(r)

\* authentication.logout: an unknown or expired token is passed over.
Logout(r) ==
    /\ Begins(r, "logout")
    /\ Change(r, IF Usable(sessions[call[r].session])
                 THEN {<<"session", call[r].session>>} ELSE {})
    /\ UNCHANGED draft

\* 400 if the name is taken.
Insert(r) ==
    IF AccountFor(r, call[r].subject) = NoAccount
    THEN Change(r, {<<"account", call[r].subject>>}) /\ UNCHANGED draft
    ELSE Raise(r)

\* register: anybody, always as a Viewer.
Register(r) == Begins(r, "register") /\ Insert(r)

\* create_user: 400 also if there is no such role.
CreateUser(r) ==
    /\ Begins(r, "create_user")
    /\ IF call[r].value \in Roles THEN Insert(r) ELSE Raise(r)

\* update_profile: a new password asks for the current one; an e-mail address
\* is stored as it is.
UpdateProfile(r) ==
    /\ Begins(r, "profile")
    /\ IF call[r].value \in {"email", seen[r].password}
       THEN Change(r, {<<"account", call[r].actor>>}) /\ UNCHANGED draft
       ELSE Raise(r)

\* reset_password, with a reset token that is still valid.
ResetPassword(r) ==
    /\ Begins(r, "reset_password")
    /\ IF accounts[call[r].subject] # NoAccount
       THEN Change(r, {<<"account", call[r].subject>>}) /\ UNCHANGED draft
       ELSE Raise(r)

\* update_user_role.
SetRole(r) ==
    LET account == AccountFor(r, call[r].subject)
    IN /\ Begins(r, "set_role")
       /\ IF account # NoAccount /\ call[r].value \in Roles
          THEN /\ Change(r, IF account.role = call[r].value THEN {}
                            ELSE {<<"account", call[r].subject>>})
               /\ UNCHANGED draft
          ELSE Raise(r)

\* _set_user_active: never one's own account.
SetActive(r, op, active) ==
    LET account == AccountFor(r, call[r].subject)
    IN /\ Begins(r, op)
       /\ IF account # NoAccount /\ call[r].subject # call[r].actor
          THEN /\ Change(r, IF account.active = active THEN {}
                            ELSE {<<"account", call[r].subject>>})
               /\ UNCHANGED draft
          ELSE Raise(r)

-----------------------------------------------------------------------------
(* The handlers of api/routes/incidents.py                                 *)

\* create_incident.
OpenIncident(r) ==
    /\ Begins(r, "open_incident")
    /\ \E i \in NextIncident :
          draft' = [draft EXCEPT ![r] = [@ EXCEPT !.incident = i, !.status = "open",
                                                  !.timeline = <<r>>]]
    /\ Return(r)

\* update_incident reads status and timeline and computes the new ones.  A
\* timeline entry is the request that wrote it; a note, an owner and a priority
\* are alike: an entry, and a column no check depends on.  Nothing is flushed:
\* the UPDATE is part of the commit.
FaultyTimeline(old, r) == <<r>>
Timeline(old, r) == Append(old, r)

UpdateIncident(r) ==
    LET i      == call[r].incident
        old    == incidents[i]
        status == call[r].value
        entry  == [status   |-> IF status = "note" THEN old.status ELSE status,
                   timeline |-> Timeline(old.timeline, r)]
    IN /\ Begins(r, "update_incident")
       /\ IF old.timeline # << >> /\ status \in Reachable(old.status) \cup {"note"}
          THEN /\ draft' = [draft EXCEPT ![r] =
                     IF status = old.status THEN [@ EXCEPT !.incident = i]
                     ELSE [@ EXCEPT !.incident = i, !.timeline = entry.timeline,
                                    !.status = IF status = "note" THEN "none" ELSE status]]
               /\ Return(r)
          ELSE Raise(r)

-----------------------------------------------------------------------------
(* The end of a request                                                    *)

\* audit.log_event flushes, and with it everything the handler changed: a row
\* another transaction has locked is waited for, with the event loop kept; a
\* name that was committed meanwhile is refused by its unique index.
Taken(r) == call[r].op \in Creates /\ accounts[call[r].subject] # NoAccount

Flush(r) ==
    /\ phase[r] = "flushing"
    /\ ~\E other \in Requests : Blocks(other, r)
    /\ phase' = [phase EXCEPT ![r] = IF Taken(r) THEN "failed" ELSE "returned"]
    /\ loop' = [loop EXCEPT ![proc[r]] = Nobody]
    /\ UNCHANGED <<data, servers, requests, rows, draft>>

\* The e-mail address is refused by its unique index.
EmailTaken(r) ==
    /\ phase[r] = "flushing"
    /\ call[r].op = "profile" /\ call[r].value = "email"
    /\ phase' = [phase EXCEPT ![r] = "failed"]
    /\ loop' = [loop EXCEPT ![proc[r]] = Nobody]
    /\ UNCHANGED <<data, servers, requests, rows, draft>>

\* The event loop gives get_db's exit to a thread.
Dispatch(r) ==
    /\ phase[r] = "returned"
    /\ loop[proc[r]] = Nobody
    /\ phase' = [phase EXCEPT ![r] = "closing"]
    /\ UNCHANGED <<data, servers, requests, loop, rows, draft>>

\* What the transaction of r leaves in each table: the columns it changed.
StoredAccounts(r) ==
    LET c    == call[r]
        name == IF c.op = "profile" THEN c.actor ELSE c.subject
    IN IF <<"account", name>> \notin rows[r] THEN accounts
       ELSE CASE c.op = "register"    -> [accounts EXCEPT ![name] =
                                            [active |-> TRUE, role |-> "Viewer", password |-> "old"]]
              [] c.op = "create_user" -> [accounts EXCEPT ![name] =
                                            [active |-> TRUE, role |-> c.value, password |-> "old"]]
              [] c.op = "set_role"    -> [accounts EXCEPT ![name].role = c.value]
              [] c.op = "deactivate"  -> [accounts EXCEPT ![name].active = FALSE]
              [] c.op = "reactivate"  -> [accounts EXCEPT ![name].active = TRUE]
              [] c.op = "reset_password" \/ (c.op = "profile" /\ c.value # "email")
                                      -> [accounts EXCEPT ![name].password = "new"]
              [] OTHER                -> accounts

NewSession(r) ==
    [user    |-> IF call[r].op = "login" THEN call[r].subject ELSE sessions[call[r].session].user,
     revoked |-> FALSE, expired |-> FALSE]

StoredSessions(r) ==
    [s \in SessionIds |->
        IF s = draft[r].session THEN NewSession(r)
        ELSE IF <<"session", s>> \in rows[r] THEN [sessions[s] EXCEPT !.revoked = TRUE]
        ELSE sessions[s]]

StoredIncidents(r) ==
    LET d == draft[r]
    IN [i \in Incidents |->
           IF i # d.incident \/ d.timeline = << >> THEN incidents[i]
           ELSE [status   |-> IF d.status = "none" THEN incidents[i].status ELSE d.status,
                 timeline |-> d.timeline]]

Commit(r) ==
    /\ phase[r] = "closing"
    /\ accounts' = StoredAccounts(r)
    /\ sessions' = StoredSessions(r)
    /\ incidents' = StoredIncidents(r)
    /\ phase' = [phase EXCEPT ![r] = "done"]
    /\ UNCHANGED <<granted, servers, requests, loop, rows, draft>>

\* Something from outside the program, at most MaxEvents times.
Event == events < MaxEvents /\ events' = events + 1

\* A refresh token reaches its expires_at.
Expire(s) ==
    /\ sessions[s] # NoSession
    /\ ~sessions[s].expired
    /\ Event
    /\ sessions' = [sessions EXCEPT ![s].expired = TRUE]
    /\ UNCHANGED <<accounts, granted, incidents, server, missing, requests, work>>

-----------------------------------------------------------------------------
(* Processes: they seed the database before they serve, and may die        *)

\* seed_default_data reads what there is.
SeedRead(p) ==
    /\ server[p] = "down"
    /\ missing' = [missing EXCEPT ![p] = Defaults \ granted]
    /\ server' = [server EXCEPT ![p] = IF missing'[p] = {} THEN "up" ELSE "seeding"]
    /\ UNCHANGED <<data, events, requests, work>>

FaultySeedOutcome(p) == IF missing[p] \cap granted = {} THEN "writing" ELSE "seeding"
SeedOutcome(p) == IF missing[p] \cap granted = {} THEN "writing" ELSE "down"

\* It inserts what was missing.  A row another process is inserting is waited
\* for; if it is there in the end, the startup fails and uvicorn's supervisor
\* starts the process again.
SeedFlush(p) ==
    /\ server[p] = "seeding"
    /\ ~\E q \in Processes : server[q] = "writing" /\ missing[q] \cap missing[p] # {}
    /\ server' = [server EXCEPT ![p] = SeedOutcome(p)]
    /\ UNCHANGED <<data, missing, events, requests, work>>

\* The first start also stores the default administrator.
SeedCommit(p) ==
    /\ server[p] = "writing"
    /\ granted' = granted \cup missing[p]
    /\ accounts' = IF \A n \in Names : accounts[n] = NoAccount
                   THEN [accounts EXCEPT ![Admin] =
                            [active |-> TRUE, role |-> "Admin", password |-> "old"]]
                   ELSE accounts
    /\ server' = [server EXCEPT ![p] = "up"]
    /\ UNCHANGED <<sessions, incidents, missing, events, requests, work>>

\* A process dies: PostgreSQL rolls its transactions back.
Crash(p) ==
    /\ server[p] = "up"
    /\ Event
    /\ server' = [server EXCEPT ![p] = "down"]
    /\ loop' = [loop EXCEPT ![p] = Nobody]
    /\ phase' = [r \in Requests |->
                    IF r \in InFlight /\ proc[r] = p THEN "lost" ELSE phase[r]]
    /\ UNCHANGED <<data, missing, requests, rows, draft>>

\* An operator takes a grant away in the database; no route does.
OperatorRevokes(g) ==
    /\ g \in granted
    /\ Event
    /\ granted' = granted \ {g}
    /\ UNCHANGED <<accounts, sessions, incidents, server, missing, requests, work>>

-----------------------------------------------------------------------------
(* History                                                                 *)

\* What must be so in the database for the request to be granted: of the one
\* who asks, and of what is asked for.
CallerEntitled(c) ==
    \/ Needs(c.op) = "nothing"
    \/ /\ accounts[c.actor].active
       /\ \/ Needs(c.op) = "account"
          \/ <<accounts[c.actor].role, Needs(c.op)>> \in granted

CallEntitled(c) ==
    /\ c.op = "login" => accounts[c.subject].active /\ accounts[c.subject].password = c.value
    /\ c.op = "refresh" => /\ ~sessions[c.session].revoked
                           /\ ~sessions[c.session].expired
                           /\ accounts[sessions[c.session].user].active
    /\ c.op \in Creates => accounts[c.subject] = NoAccount
    /\ c.op = "profile" => c.value \in {"email", accounts[c.actor].password}
    /\ c.op \in {"reset_password", "set_role", "deactivate", "reactivate"} =>
           accounts[c.subject] # NoAccount
    /\ c.op = "update_incident" =>
           /\ incidents[c.incident].timeline # << >>
           /\ c.value \in {"note"} \cup Reachable(incidents[c.incident].status)

Entitled(r, side) == IF side = "caller" THEN CallerEntitled(call[r]) ELSE CallEntitled(call[r])

Remember ==
    /\ witnessed' = witnessed \cup
          {w \in Requests \X {"caller", "call"} : w[1] \in InFlight' /\ Entitled(w[1], w[2])'}
    /\ met' = met \cup {{r, s} : r, s \in InFlight'}

-----------------------------------------------------------------------------
Handle(r) ==
    \/ Login(r) \/ Refresh(r) \/ Logout(r)
    \/ Register(r) \/ CreateUser(r) \/ UpdateProfile(r) \/ ResetPassword(r) \/ SetRole(r)
    \/ SetActive(r, "deactivate", FALSE) \/ SetActive(r, "reactivate", TRUE)
    \/ OpenIncident(r) \/ UpdateIncident(r)

Progress(r) == Authorize(r) \/ Handle(r) \/ Flush(r) \/ Dispatch(r) \/ Commit(r)

Seed(p) == SeedRead(p) \/ SeedFlush(p) \/ SeedCommit(p)

Step ==
    \/ \E r \in Requests, p \in Processes, c \in Calls : Accept(r, p, c)
    \/ \E r \in Requests : Progress(r) \/ EmailTaken(r)
    \/ \E s \in SessionIds : Expire(s)
    \/ \E p \in Processes : Seed(p) \/ Crash(p)
    \/ \E g \in Defaults : OperatorRevokes(g)

Next == Step /\ Remember

Spec == Init /\ [][Next]_vars

\* As long as an event loop, a thread, PostgreSQL or the supervisor has something
\* to do, one of them does it; nobody has to call, crash or revoke.  No request
\* can be passed over for ever: each takes finitely many steps.
Work == (\E r \in Requests : Progress(r)) \/ (\E p \in Processes : Seed(p))

Fairness == WF_vars(Work /\ Remember)

FairSpec == Spec /\ Fairness

-----------------------------------------------------------------------------
(* Properties                                                              *)

\* Every row, request and process has a value of its kind.
TypeOK ==
    /\ accounts \in [Names -> Account \cup {NoAccount}]
    /\ sessions \in [SessionIds -> Session \cup {NoSession}]
    /\ granted \subseteq Roles \X Permissions
    /\ DOMAIN incidents = Incidents
    /\ \A i \in Incidents : /\ incidents[i].status \in Statuses \cup {"none"}
                            /\ incidents[i].timeline \in Seq({Nobody} \cup Requests)
    /\ server \in [Processes -> {"down", "seeding", "writing", "up"}]
    /\ missing \in [Processes -> SUBSET Defaults]
    /\ events \in 0..MaxEvents
    /\ loop \in [Processes -> Requests \cup {Nobody}]
    /\ phase \in [Requests -> Ended \cup {"unused", "accepted", "authorized", "flushing",
                                           "returned", "closing"}]
    /\ proc \in [Requests -> Processes]
    /\ call \in [Requests -> Calls]
    /\ seen \in [Requests -> Account \cup {NoAccount}]
    /\ \A r \in Requests : draft[r].session \in SessionIds \cup {Nobody}

\* What a request was granted, the committed database allowed at some moment
\* between its arrival and its end: its caller was active and had the
\* permission, and its token, password, name or status change was good.  So a
\* refresh token is worthless to any request that arrives after its rotation, a
\* logout or a deactivation has been committed, an old password after a change,
\* and no update that arrives after an incident was closed opens it again.
SuccessWasEntitled ==
    \A r \in Requests : phase[r] = "done" =>
        <<r, "caller">> \in witnessed /\ <<r, "call">> \in witnessed

\* A timeline entry is lost only to an update that was served at the same time:
\* of updates that follow one another, each finds and keeps what came before.
EntriesLostOnlyToOverlap ==
    \A r \in Requests :
        LET i == draft[r].incident
            Has(q) == \E n \in 1..Len(incidents[i].timeline) : incidents[i].timeline[n] = q
        IN phase[r] = "done" /\ draft[r].timeline # << >> =>
              \/ Has(r)
              \/ \E q \in Requests \ {r} : Has(q) /\ {q, r} \in met

\* A set of processes none of which can go on: each one's event loop waits for a
\* row of a transaction that only the event loop of one of them can end.
Hung(p) ==
    \E P \in SUBSET Processes :
        /\ p \in P
        /\ \A q \in P :
              /\ loop[q] # Nobody
              /\ \E other \in Requests :
                    Blocks(other, loop[q]) /\ phase[other] = "returned" /\ proc[other] \in P

\* Every request ends, unless the event loop of its process waits for a row of a
\* transaction that waits for this loop (two logins of one user in one process
\* are enough): nothing else can keep a request from its end.
AnsweredUnlessHung ==
    \A r \in Requests : []<>(r \notin InFlight \/ Hung(proc[r]))

\* Every process serves in the end, also when several start on an empty database
\* or find the same grants missing, and all but one fail on a unique index.
WorkersServe == \A p \in Processes : []<>(server[p] = "up")
=============================================================================
