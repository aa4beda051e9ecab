---------------------------- MODULE LiveUpdates ----------------------------
(***************************************************************************)
(* Alerts on their way to the analysts' screens: worker threads publish    *)
(* them to the event loop of their process (websocket/broadcaster.py),     *)
(* where tasks send them to the connected clients one at a time            *)
(* (websocket/ws_manager.py); the pages of a browser connect, are cut off, *)
(* reconnect and share one login (frontend/src/services, context).         *)
(*                                                                         *)
(* A step of the server is what a task does between two awaits.  A step of *)
(* a page is one callback; the tokens in localStorage belong to all pages. *)
(***************************************************************************)
EXTENDS Integers, Sequences, FiniteSets, SequencesExt

CONSTANTS
    Tabs,             \* pages of the application open in the browser
    Processes,        \* uvicorn worker processes
    Home,             \* the process whose capture finds the alerts
    MaxAlerts,        \* bound: alerts ever published
    MaxConnections,   \* bound: connections that exist at one time
    MaxTokens,        \* bound: pairs of tokens ever issued
    MaxEvents         \* bound: cuts, stalls, restarts, expiries and logouts

ASSUME LiveConstants ==
    /\ Home \in Processes
    /\ MaxAlerts \in Nat
    /\ MaxTokens \in Nat \ {0}
    /\ MaxEvents \in Nat
    /\ MaxConnections >= Cardinality(Tabs)

Alerts      == 1..MaxAlerts
Connections == 1..MaxConnections
Tokens      == 1..MaxTokens
None        == 0                    \* no connection, no tokens

VARIABLES
    store,        \* localStorage: the pair of tokens all pages use
    issued,       \* how many pairs were issued
    fresh,        \* pairs whose access token has not expired
    usable,       \* pairs whose refresh token was not revoked
    page,         \* page -> who is logged in, its socket, its timers and its refresh
    conn,         \* connection -> both of its ends and what lies between them
    connections,  \* ConnectionManager._connections, of all processes
    task,         \* alert -> the broadcast of it
    feed,         \* page -> liveAlerts, the newest first
    events        \* how many of the bounded events there were

logins == <<store, issued, fresh, usable>>
vars   == <<logins, page, conn, connections, task, feed, events>>

Closed == [tab |-> "none", at |-> Home, token |-> None, client |-> "closed", link |-> "down",
           handler |-> "ended", wire |-> << >>, owed |-> {}]
LoggedOut == [user |-> FALSE, socket |-> None, timers |-> 0, call |-> "none", token |-> None]
NoTask    == [state |-> "none", left |-> {}, dead |-> {}]

TypeOK ==
    /\ store \in {None} \cup Tokens
    /\ issued \in Tokens
    /\ fresh \subseteq Tokens
    /\ usable \subseteq Tokens
    /\ page \in [Tabs -> [user : BOOLEAN, socket : {None} \cup Connections, timers : Nat,
                          call : {"none", "refused", "passed", "granted"},
                          token : {None} \cup Tokens]]
    /\ conn \in [Connections ->
                   [tab : Tabs \cup {"none"}, at : Processes, token : {None} \cup Tokens,
                    client : {"open", "closed"}, link : {"up", "stalled", "down"},
                    handler : {"checking", "accepted", "serving", "ended"},
                    wire : Seq(Alerts), owed : SUBSET Alerts]]
    /\ connections \subseteq Connections
    /\ task \in [Alerts -> [state : {"none", "queued", "sending", "ended"},
                            left : SUBSET Connections, dead : SUBSET Connections]]
    /\ feed \in [Tabs -> Seq(Alerts)]
    /\ events \in 0..MaxEvents

\* Nothing refers to the connection any more: its number may be used again.
Free(c) ==
    /\ conn[c].client = "closed"
    /\ conn[c].handler = "ended"
    /\ c \notin connections
    /\ \A t \in Tabs : page[t].socket # c
    /\ \A a \in Alerts : c \notin task[a].left \cup task[a].dead

\* The connection a page opens next: the numbers mean nothing.
Vacant == {c \in Connections : Free(c) /\ \A d \in 1..(c - 1) : ~Free(d)}

\* A broken connection: what was on its way is lost, nothing is owed any more.
Down(k) == [k EXCEPT !.link = "down", !.wire = << >>, !.owed = {}]

Spend == events < MaxEvents /\ events' = events + 1
Issue == issued < MaxTokens /\ issued' = issued + 1

-----------------------------------------------------------------------------
(* The page: AlertSocket, the effect that owns it, and the login           *)

\* Without a token the socket is not opened, and nothing tries again.
Open(t, p, token, c) ==
    IF token = None
    THEN /\ page' = [page EXCEPT ![t] = p]
         /\ UNCHANGED conn
    ELSE \E at \in Processes :
         /\ page' = [page EXCEPT ![t] = [p EXCEPT !.socket = c]]
         /\ conn' = [conn EXCEPT ![c] = [Closed EXCEPT
                        !.tab = t, !.at = at, !.token = token, !.client = "open",
                        !.link = "up", !.handler = "checking"]]

\* A page is loaded with a session in localStorage, or someone logs in: the
\* user is set and the effect opens a new AlertSocket.
SignIn(t) ==
    /\ ~page[t].user
    /\ page[t].call = "none"
    /\ \/ store \in fresh /\ UNCHANGED logins
       \/ /\ Issue
          /\ store' = issued'
          /\ fresh' = fresh \cup {issued'}
          /\ usable' = usable \cup {issued'}
    /\ \E c \in Vacant : Open(t, [page[t] EXCEPT !.user = TRUE], store', c)
    /\ UNCHANGED <<connections, task, feed, events>>

\* The effect's cleanup: listeners off, timer cleared, socket closed.
Leave(t) ==
    /\ page' = [page EXCEPT ![t] = [@ EXCEPT !.user = FALSE, !.socket = None, !.timers = 0,
                                             !.call = "none", !.token = None]]
    /\ conn' = [c \in Connections |->
                  IF c = page[t].socket
                  THEN [Down(conn[c]) EXCEPT !.client = "closed"]
                  ELSE conn[c]]

Logout(t) ==
    /\ page[t].user
    /\ page[t].call = "none"
    /\ Spend
    /\ store' = None
    /\ usable' = usable \ {store}
    /\ Leave(t)
    /\ UNCHANGED <<issued, fresh, connections, task, feed>>

\* onmessage: an alert is put in front of the feed.
Receive(t) ==
    \E c \in Connections :
      /\ conn[c].tab = t
      /\ conn[c].client = "open"
      /\ conn[c].link = "up"
      /\ conn[c].wire # << >>
      /\ feed' = [feed EXCEPT ![t] = <<Head(conn[c].wire)>> \o @]
      /\ conn' = [conn EXCEPT ![c].wire = Tail(@), ![c].owed = @ \ {Head(conn[c].wire)}]
      /\ UNCHANGED <<logins, page, connections, task, events>>

\* onerror and onclose of one broken socket: how many reconnects they schedule.
FaultyScheduled == 2
Scheduled == 1

\* The socket is gone: rejected, cut off or closed by the server.
Dropped(t) ==
    \E c \in Connections :
      /\ conn[c].tab = t
      /\ conn[c].client # "closed"
      /\ conn[c].link = "down"
      /\ conn' = [conn EXCEPT ![c].client = "closed"]
      /\ page' = [page EXCEPT ![t].timers = @ + Scheduled,
                              ![t].socket = IF @ = c THEN None ELSE @]
      /\ UNCHANGED <<logins, connections, task, feed, events>>

\* The reconnect timer calls open.
Retry(t) ==
    /\ page[t].timers > 0
    /\ \E c \in Vacant : Open(t, [page[t] EXCEPT !.timers = @ - 1], store, c)
    /\ UNCHANGED <<logins, connections, task, feed, events>>

\* An API request of the page is answered 401: the interceptor asks for new
\* tokens.  The server decides by what it reads before it revokes.
Refresh(t) ==
    /\ page[t].user
    /\ page[t].call = "none"
    /\ store \notin fresh
    /\ page' = [page EXCEPT ![t] = IF store \in usable
                                   THEN [@ EXCEPT !.call = "passed", !.token = store]
                                   ELSE [@ EXCEPT !.call = "refused"]]
    /\ UNCHANGED <<logins, conn, connections, task, feed, events>>

\* The server revokes the token and issues the next pair.
Rotate(t) ==
    /\ page[t].call = "passed"
    /\ Issue
    /\ usable' = (usable \ {page[t].token}) \cup {issued'}
    /\ fresh' = fresh \cup {issued'}
    /\ page' = [page EXCEPT ![t].call = "granted", ![t].token = issued']
    /\ UNCHANGED <<store, conn, connections, task, feed, events>>

Granted(t) ==
    /\ page[t].call = "granted"
    /\ store' = page[t].token
    /\ page' = [page EXCEPT ![t].call = "none", ![t].token = None]
    /\ UNCHANGED <<issued, fresh, usable, conn, connections, task, feed, events>>

\* No token or a refused one: the tokens of all pages are cleared, the user of
\* this page.
SessionExpired(t) ==
    /\ page[t].call = "refused"
    /\ store' = None
    /\ Leave(t)
    /\ UNCHANGED <<issued, fresh, usable, connections, task, feed, events>>

-----------------------------------------------------------------------------
(* The server: the route of one connection                                 *)

\* decode_token decides before anything is accepted.
Reject(c) ==
    /\ conn[c].handler = "checking"
    /\ conn[c].token \notin fresh
    /\ conn' = [conn EXCEPT ![c] = [Down(@) EXCEPT !.handler = "ended"]]
    /\ UNCHANGED <<logins, page, connections, task, feed, events>>

Accept(c) ==
    /\ conn[c].handler = "checking"
    /\ conn[c].token \in fresh
    /\ conn' = [conn EXCEPT ![c].handler = IF conn[c].link = "down" THEN "ended" ELSE "accepted"]
    /\ UNCHANGED <<logins, page, connections, task, feed, events>>

Register(c) ==
    /\ conn[c].handler = "accepted"
    /\ conn' = [conn EXCEPT ![c].handler = "serving"]
    /\ connections' = connections \cup {c}
    /\ UNCHANGED <<logins, page, task, feed, events>>

\* receive_text raises WebSocketDisconnect.
FaultyRemaining(c) == connections
Remaining(c) == connections \ {c}

Disconnect(c) ==
    /\ conn[c].handler = "serving"
    /\ conn[c].link = "down"
    /\ conn' = [conn EXCEPT ![c].handler = "ended"]
    /\ connections' = Remaining(c)
    /\ UNCHANGED <<logins, page, task, feed, events>>

Serve(c) == Reject(c) \/ Accept(c) \/ Register(c) \/ Disconnect(c)

-----------------------------------------------------------------------------
(* The server: the task of one broadcast                                   *)

\* A worker thread hands the coroutine to the loop.  Those that are connected
\* by now are owed the alert.
Publish(a) ==
    /\ task[a].state = "none"
    /\ \A b \in 1..(a - 1) : task[b].state # "none"
    /\ task' = [task EXCEPT ![a].state = "queued"]
    /\ conn' = [c \in Connections |->
                  IF c \in connections /\ conn[c].at = Home /\ conn[c].link # "down"
                  THEN [conn[c] EXCEPT !.owed = @ \cup {a}] ELSE conn[c]]
    /\ UNCHANGED <<logins, page, connections, feed, events>>

\* The loop starts the tasks in the order they came; each copies the set.
Start(a) ==
    /\ task[a].state = "queued"
    /\ \A b \in 1..(a - 1) : task[b].state # "queued"
    /\ task' = [task EXCEPT ![a].state = "sending",
                            ![a].left = {c \in connections : conn[c].at = Home}]
    /\ UNCHANGED <<logins, page, conn, connections, feed, events>>

\* One client failed: who is still to be sent to.
FaultyAfterFailure(left, c) == {}
AfterFailure(left, c) == left \ {c}

\* send_text to a client that keeps up; to one that is gone it is lost or raises.
Send(a) ==
    /\ task[a].state = "sending"
    /\ \E c \in task[a].left :
         \/ /\ conn[c].link # "stalled"
            /\ task' = [task EXCEPT ![a].left = @ \ {c}]
            /\ conn' = IF conn[c].link = "up"
                       THEN [conn EXCEPT ![c].wire = Append(@, a)] ELSE conn
         \/ /\ conn[c].link = "down"
            /\ task' = [task EXCEPT ![a].left = AfterFailure(@, c), ![a].dead = @ \cup {c}]
            /\ UNCHANGED conn
    /\ UNCHANGED <<logins, page, connections, feed, events>>

\* Everyone was tried: the dead are dropped.
Finish(a) ==
    /\ task[a].state = "sending"
    /\ task[a].left = {}
    /\ connections' = connections \ task[a].dead
    /\ task' = [task EXCEPT ![a] = [NoTask EXCEPT !.state = "ended"]]
    /\ UNCHANGED <<logins, page, conn, feed, events>>

Broadcast(a) == Start(a) \/ Send(a) \/ Finish(a)

-----------------------------------------------------------------------------
(* What happens to them                                                    *)

Expire ==
    /\ Spend
    /\ \E g \in fresh : fresh' = fresh \ {g}
    /\ UNCHANGED <<store, issued, usable, page, conn, connections, task, feed>>

Cut(c) ==
    /\ conn[c].link # "down"
    /\ Spend
    /\ conn' = [conn EXCEPT ![c] = Down(@)]
    /\ UNCHANGED <<logins, page, connections, task, feed>>

\* A client stops reading, or its network stands still ...
Stall(c) ==
    /\ conn[c].link = "up"
    /\ conn[c].handler = "serving"
    /\ Spend
    /\ conn' = [conn EXCEPT ![c].link = "stalled"]
    /\ UNCHANGED <<logins, page, connections, task, feed>>

\* ... until it goes on, or the server's ping times out.
Unstall(c) ==
    /\ conn[c].link = "stalled"
    /\ \E k \in {[conn[c] EXCEPT !.link = "up"], Down(conn[c])} : conn' = [conn EXCEPT ![c] = k]
    /\ UNCHANGED <<logins, page, connections, task, feed, events>>

\* A process dies and is replaced: its tasks and its set are gone.
Restart(p) ==
    /\ Spend
    /\ conn' = [c \in Connections |->
                  IF conn[c].at = p THEN [Down(conn[c]) EXCEPT !.handler = "ended"]
                  ELSE conn[c]]
    /\ connections' = {c \in connections : conn[c].at # p}
    /\ task' = [a \in Alerts |->
                  IF p = Home /\ task[a].state # "none"
                  THEN [NoTask EXCEPT !.state = "ended"] ELSE task[a]]
    /\ UNCHANGED <<logins, page, feed>>

-----------------------------------------------------------------------------

Init ==
    /\ store = 1
    /\ issued = 1
    /\ fresh = {1}
    /\ usable = {1}
    /\ page = [t \in Tabs |-> LoggedOut]
    /\ conn = [c \in Connections |-> Closed]
    /\ connections = {}
    /\ task = [a \in Alerts |-> NoTask]
    /\ feed = [t \in Tabs |-> << >>]
    /\ events = 0

Callback(t) == Receive(t) \/ Dropped(t) \/ Retry(t)
Answer(t)   == Rotate(t) \/ Granted(t) \/ SessionExpired(t)

Next ==
    \/ \E t \in Tabs : SignIn(t) \/ Logout(t) \/ Refresh(t) \/ Callback(t) \/ Answer(t)
    \/ \E c \in Connections : Serve(c) \/ Cut(c) \/ Stall(c) \/ Unstall(c)
    \/ \E a \in Alerts : Publish(a) \/ Broadcast(a)
    \/ \E p \in Processes : Restart(p)
    \/ Expire

\* The loops of browser and server go on, timers fire, requests are answered and
\* a stalled connection is pinged.  Nobody has to log in, ask or publish.
Spec ==
    /\ Init /\ [][Next]_vars
    /\ \A t \in Tabs : WF_vars(Callback(t)) /\ WF_vars(Answer(t))
    /\ \A c \in Connections : WF_vars(Serve(c)) /\ WF_vars(Unstall(c))
    /\ \A a \in Alerts : WF_vars(Broadcast(a))

-----------------------------------------------------------------------------
(* Properties                                                              *)

\* A page that reconnects while broadcasts are under way, or whose connection
\* breaks during one, has no alert twice in its feed: it hears of one socket at
\* a time, and an alert is sent once to each.
NothingShownTwice == \A t \in Tabs : IsInjective(feed[t])

\* A page whose connection was registered when an alert was published, and still
\* holds, gets to show it, whatever becomes of the clients before it in the set.
ConnectedGetAll == []<>(\A c \in Connections : conn[c].link = "up" => conn[c].owed = {})

\* A page left without a token when it had to reconnect waits for a login.
Stranded(t) == page[t].socket = None /\ page[t].timers = 0

\* In the end the set holds the connections that are alive and no others, and a
\* page with a valid token has one of them unless it is stranded.
ViewsSettle ==
    []<>(/\ \A c \in connections : conn[c].link # "down"
         /\ \A t \in Tabs :
              page[t].user /\ store \in fresh /\ ~Stranded(t)
                => page[t].socket \in connections)
=============================================================================
