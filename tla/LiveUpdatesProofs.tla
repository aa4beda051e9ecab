------------------------- MODULE LiveUpdatesProofs -------------------------
(***************************************************************************)
(* Theorems about LiveUpdates, for any number of pages, processes, alerts, *)
(* connections, tokens and events: the type invariant, that no page shows  *)
(* an alert twice, that none which is owed is forgotten, and that the set  *)
(* of a process holds those it serves.                                     *)
(*                                                                         *)
(* The argument for the first: a page has at most one open socket, the one *)
(* it knows, and a timer only when it has none (SocketInv); so for a page  *)
(* and an alert there is one place at most where the alert may still be    *)
(* before it is in the feed: to be sent to that connection, or on its wire *)
(* (DeliverInv).  For the second: what is owed is passed on from queue to  *)
(* set to wire (DebtInv), and only a connection that is down is dropped.   *)
(***************************************************************************)
EXTENDS LiveUpdates, SequenceTheorems, TLAPS

ConnectionType ==
    [tab : Tabs \cup {"none"}, at : Processes, token : {None} \cup Tokens,
     client : {"open", "closed"}, link : {"up", "stalled", "down"},
     handler : {"checking", "accepted", "serving", "ended"},
     wire : Seq(Alerts), owed : SUBSET Alerts]

PageType ==
    [user : BOOLEAN, socket : {None} \cup Connections, timers : Nat,
     call : {"none", "refused", "passed", "granted"}, token : {None} \cup Tokens]

TaskType ==
    [state : {"none", "queued", "sending", "ended"},
     left : SUBSET Connections, dead : SUBSET Connections]

In(a, s) == \E i \in DOMAIN s : s[i] = a

Live(c) == conn[c].client = "open"

LinkInv ==
    \A c \in Connections :
        /\ conn[c].link # "down" => Live(c)
        /\ conn[c].link = "down" => conn[c].wire = << >>

SocketInv ==
    /\ \A t \in Tabs :
          /\ page[t].timers \in {0, 1}
          /\ page[t].timers = 1 \/ ~page[t].user => page[t].socket = None
          /\ ~page[t].user => page[t].timers = 0
    /\ \A c \in Connections : Live(c) => conn[c].tab \in Tabs /\ page[conn[c].tab].socket = c

\* An alert has left the queue of its loop.
Begun(a) == task[a].state \in {"sending", "ended"}

\* The alert may still get on the wire of the connection.
ToCome(a, c) == c \in task[a].left

DeliverInv ==
    /\ \A a \in Alerts, c \in Connections : ToCome(a, c) => task[a].state = "sending"
    /\ \A a \in Alerts, c \in Connections : In(a, conn[c].wire) => Begun(a) /\ ~ToCome(a, c)
    /\ \A a \in Alerts, t \in Tabs : In(a, feed[t]) =>
          /\ Begun(a)
          /\ \A c \in Connections : Live(c) /\ conn[c].tab = t =>
                ~ToCome(a, c) /\ ~In(a, conn[c].wire)

NoRepeats ==
    /\ \A c \in Connections : IsInjective(conn[c].wire)
    /\ \A t \in Tabs : IsInjective(feed[t])

ScreenInv == TypeOK /\ LinkInv /\ SocketInv /\ DeliverInv /\ NoRepeats

-----------------------------------------------------------------------------
(* Sequences without repetition                                            *)

LEMMA AppendNew ==
    ASSUME NEW S, NEW s \in Seq(S), NEW a \in S, IsInjective(s), ~In(a, s)
    PROVE  /\ Append(s, a) \in Seq(S) /\ IsInjective(Append(s, a))
           /\ \A b : In(b, Append(s, a)) <=> b = a \/ In(b, s)
<1>1. /\ Append(s, a) \in Seq(S) /\ Len(s) \in Nat /\ DOMAIN s = 1..Len(s)
      /\ DOMAIN Append(s, a) = 1..(Len(s) + 1)
      /\ \A i \in 1..Len(s) : Append(s, a)[i] = s[i]
      /\ Append(s, a)[Len(s) + 1] = a
  BY AppendProperties, LenProperties
<1>2. \A i \in 1..(Len(s) + 1) : i = Len(s) + 1 \/ i \in 1..Len(s)
  BY <1>1
<1>3. IsInjective(Append(s, a))
  BY <1>1, <1>2 DEF IsInjective, In
<1>4. \A b : In(b, Append(s, a)) <=> b = a \/ In(b, s)
  BY <1>1, <1>2 DEF In
<1>. QED
  BY <1>1, <1>3, <1>4

LEMMA PutInFront ==
    ASSUME NEW S, NEW s \in Seq(S), NEW a \in S, IsInjective(s), ~In(a, s)
    PROVE  /\ <<a>> \o s \in Seq(S) /\ IsInjective(<<a>> \o s)
           /\ \A b : In(b, <<a>> \o s) <=> b = a \/ In(b, s)
<1> DEFINE u == <<a>> \o s
<1>1. /\ u \in Seq(S) /\ Len(s) \in Nat /\ DOMAIN s = 1..Len(s) /\ Len(u) = Len(s) + 1
      /\ \A i \in 1..(Len(s) + 1) : u[i] = IF i <= 1 THEN a ELSE s[i - 1]
  <2>1. <<a>> \in Seq(S) /\ Len(<<a>>) = 1 /\ <<a>>[1] = a
    OBVIOUS
  <2>2. Len(s) \in Nat /\ DOMAIN s = 1..Len(s)
    BY LenProperties
  <2>3. /\ u \in Seq(S) /\ Len(u) = 1 + Len(s)
        /\ \A i \in 1..(1 + Len(s)) : u[i] = IF i <= 1 THEN <<a>>[i] ELSE s[i - 1]
    BY <2>1, ConcatProperties
  <2>4. \A i \in 1..(1 + Len(s)) : i <= 1 => i = 1
    BY <2>2
  <2>. HIDE DEF u
  <2>. QED
    BY <2>1, <2>2, <2>3, <2>4
<1>2. DOMAIN u = 1..(Len(s) + 1)
  BY <1>1, LenProperties
<1>3. /\ u[1] = a
      /\ \A i \in 1..Len(s) : u[i + 1] = s[i]
      /\ \A i \in DOMAIN u : i = 1 \/ (i - 1 \in 1..Len(s) /\ u[i] = s[i - 1])
  <2>. HIDE DEF u
  <2>. QED
    BY <1>1, <1>2
<1>. HIDE DEF u
<1>4. IsInjective(u)
  <2>1. SUFFICES ASSUME NEW i \in DOMAIN u, NEW j \in DOMAIN u, u[i] = u[j]
                 PROVE  i = j
    BY DEF IsInjective
  <2>2. i = 1 \/ j = 1 => i = j
    BY <1>1, <1>3, <2>1 DEF In
  <2>3. i - 1 \in 1..Len(s) /\ j - 1 \in 1..Len(s) /\ i # 1 /\ j # 1 => i - 1 = j - 1
    BY <1>1, <1>3, <2>1 DEF IsInjective
  <2>. QED
    BY <1>1, <1>2, <1>3, <2>2, <2>3
<1>5. \A b : In(b, u) <=> b = a \/ In(b, s)
  <2>1. \A b : In(b, u) => b = a \/ In(b, s)
    BY <1>1, <1>3 DEF In
  <2>2. \A i \in 1..Len(s) : i + 1 \in DOMAIN u
    BY <1>1, <1>2
  <2>3. 1 \in DOMAIN u
    BY <1>1, <1>2
  <2>. QED
    BY <1>1, <1>3, <2>1, <2>2, <2>3 DEF In
<1>. QED
  BY <1>1, <1>4, <1>5 DEF u

LEMMA TakeFirst ==
    ASSUME NEW S, NEW s \in Seq(S), s # << >>, IsInjective(s)
    PROVE  /\ Head(s) \in S /\ In(Head(s), s)
           /\ Tail(s) \in Seq(S) /\ IsInjective(Tail(s)) /\ ~In(Head(s), Tail(s))
           /\ \A b : In(b, Tail(s)) => In(b, s)
<1>1. /\ Head(s) \in S /\ Tail(s) \in Seq(S) /\ Len(Tail(s)) = Len(s) - 1
      /\ \A i \in 1..Len(Tail(s)) : Tail(s)[i] = s[i + 1]
      /\ Len(s) \in Nat /\ DOMAIN s = 1..Len(s) /\ DOMAIN Tail(s) = 1..Len(Tail(s))
      /\ Len(Tail(s)) \in Nat
  BY HeadTailProperties, LenProperties
<1>2. Head(s) = s[1] /\ 1 \in DOMAIN s
  BY <1>1
<1>3. \A i \in DOMAIN Tail(s) : i + 1 \in DOMAIN s /\ i + 1 # 1 /\ Tail(s)[i] = s[i + 1]
  BY <1>1
<1>4. \A i, j \in DOMAIN Tail(s) : i + 1 = j + 1 => i = j
  BY <1>1
<1>5. IsInjective(Tail(s))
  BY <1>3, <1>4 DEF IsInjective
<1>6. ~In(Head(s), Tail(s))
  BY <1>2, <1>3 DEF In, IsInjective
<1>7. In(Head(s), s) /\ \A b : In(b, Tail(s)) => In(b, s)
  BY <1>2, <1>3 DEF In
<1>. QED
  BY <1>1, <1>5, <1>6, <1>7

LEMMA EmptySequence == IsInjective(<< >>) /\ \A a : ~In(a, << >>)
BY DEF IsInjective, In

-----------------------------------------------------------------------------
(* The type invariant                                                      *)

LEMMA TypeParts ==
    TypeOK <=> /\ store \in {None} \cup Tokens
               /\ issued \in Tokens
               /\ fresh \subseteq Tokens
               /\ usable \subseteq Tokens
               /\ page \in [Tabs -> PageType]
               /\ conn \in [Connections -> ConnectionType]
               /\ connections \subseteq Connections
               /\ task \in [Alerts -> TaskType]
               /\ feed \in [Tabs -> Seq(Alerts)]
               /\ events \in 0..MaxEvents
BY DEF TypeOK, PageType, ConnectionType, TaskType

LEMMA ConnectionTypes ==
    /\ Closed \in ConnectionType
    /\ \A k \in ConnectionType :
          /\ Down(k) \in ConnectionType
          /\ [k EXCEPT !.client = "closed"] \in ConnectionType
          /\ [k EXCEPT !.link = "up"] \in ConnectionType
          /\ [k EXCEPT !.link = "stalled"] \in ConnectionType
          /\ \A h \in {"checking", "accepted", "serving", "ended"} :
                [k EXCEPT !.handler = h] \in ConnectionType
          /\ \A a \in Alerts : [k EXCEPT !.owed = @ \cup {a}] \in ConnectionType
          /\ \A w \in Seq(Alerts) : [k EXCEPT !.wire = w] \in ConnectionType
<1>1. << >> \in Seq(Alerts) /\ Home \in Processes
  BY LiveConstants
<1>2. Closed \in ConnectionType
  BY <1>1 DEF Closed, ConnectionType, None
<1>3. ASSUME NEW k \in ConnectionType
      PROVE  Down(k) \in ConnectionType
  BY <1>1 DEF Down, ConnectionType
<1>4. ASSUME NEW k \in ConnectionType
      PROVE  /\ [k EXCEPT !.client = "closed"] \in ConnectionType
             /\ [k EXCEPT !.link = "up"] \in ConnectionType
             /\ [k EXCEPT !.link = "stalled"] \in ConnectionType
  BY DEF ConnectionType
<1>5. ASSUME NEW k \in ConnectionType, NEW h \in {"checking", "accepted", "serving", "ended"}
      PROVE  [k EXCEPT !.handler = h] \in ConnectionType
  BY DEF ConnectionType
<1>6. ASSUME NEW k \in ConnectionType, NEW w \in Seq(Alerts)
      PROVE  [k EXCEPT !.wire = w] \in ConnectionType
  BY DEF ConnectionType
<1>7. ASSUME NEW k \in ConnectionType, NEW a \in Alerts
      PROVE  [k EXCEPT !.owed = @ \cup {a}] \in ConnectionType
  <2>1. k.owed \cup {a} \in SUBSET Alerts
    BY DEF ConnectionType
  <2>. QED
    BY <2>1 DEF ConnectionType
<1>. QED
  BY <1>2, <1>3, <1>4, <1>5, <1>6, <1>7

LEMMA NextTokens == Issue /\ issued \in Tokens => issued' \in Tokens
BY LiveConstants DEF Issue, Tokens

LEMMA NextEvents == Spend /\ events \in 0..MaxEvents => events' \in 0..MaxEvents
BY LiveConstants DEF Spend

\* Open stores a page that waits for nothing or knows its new connection.
LEMMA OpenType ==
    ASSUME TypeOK, NEW t \in Tabs, NEW p \in PageType, NEW token \in {None} \cup Tokens,
           NEW c \in Connections, Open(t, p, token, c)
    PROVE  page' \in [Tabs -> PageType] /\ conn' \in [Connections -> ConnectionType]
<1>0. page \in [Tabs -> PageType] /\ conn \in [Connections -> ConnectionType]
  BY TypeParts
<1>1. CASE token = None
  BY <1>0, <1>1 DEF Open
<1>2. CASE token # None
  <2>0. << >> \in Seq(Alerts)
    OBVIOUS
  <2>1. PICK at \in Processes :
          /\ page' = [page EXCEPT ![t] = [p EXCEPT !.socket = c]]
          /\ conn' = [conn EXCEPT ![c] = [Closed EXCEPT
                         !.tab = t, !.at = at, !.token = token, !.client = "open",
                         !.link = "up", !.handler = "checking"]]
    BY <1>2 DEF Open
  <2>2. [p EXCEPT !.socket = c] \in PageType
    BY DEF PageType
  <2>3. [Closed EXCEPT !.tab = t, !.at = at, !.token = token, !.client = "open",
                       !.link = "up", !.handler = "checking"] \in ConnectionType
    BY <2>0 DEF Closed, ConnectionType, None
  <2>. QED
    BY <1>0, <2>1, <2>2, <2>3
<1>. QED
  BY <1>1, <1>2

LEMMA LeaveType ==
    ASSUME TypeOK, NEW t \in Tabs, Leave(t)
    PROVE  page' \in [Tabs -> PageType] /\ conn' \in [Connections -> ConnectionType]
<1>0. page \in [Tabs -> PageType] /\ conn \in [Connections -> ConnectionType]
  BY TypeParts
<1>1. page' \in [Tabs -> PageType]
  <2>1. [page[t] EXCEPT !.user = FALSE, !.socket = None, !.timers = 0, !.call = "none",
                        !.token = None] \in PageType
    BY <1>0 DEF PageType
  <2>. QED
    BY <1>0, <2>1 DEF Leave
<1>2. \A c \in Connections : [Down(conn[c]) EXCEPT !.client = "closed"] \in ConnectionType
  BY <1>0, ConnectionTypes
<1>3. conn' \in [Connections -> ConnectionType]
  BY <1>0, <1>2 DEF Leave
<1>. QED
  BY <1>1, <1>3

LEMMA PageSteps ==
    ASSUME TypeOK, NEW t \in Tabs
    PROVE  /\ SignIn(t) => TypeOK'
           /\ Logout(t) => TypeOK'
           /\ Receive(t) => TypeOK'
           /\ Dropped(t) => TypeOK'
           /\ Retry(t) => TypeOK'
<1>0. /\ page \in [Tabs -> PageType] /\ conn \in [Connections -> ConnectionType]
      /\ feed \in [Tabs -> Seq(Alerts)] /\ page[t] \in PageType
      /\ events \in 0..MaxEvents /\ store \in {None} \cup Tokens /\ issued \in Tokens
      /\ fresh \subseteq Tokens /\ usable \subseteq Tokens
  BY TypeParts
<1>1. ASSUME SignIn(t)
      PROVE  TypeOK'
  <2>1. /\ store' \in {None} \cup Tokens /\ issued' \in Tokens
        /\ fresh' \subseteq Tokens /\ usable' \subseteq Tokens
    BY <1>0, <1>1, NextTokens DEF SignIn, logins
  <2>2. PICK c \in Vacant : Open(t, [page[t] EXCEPT !.user = TRUE], store', c)
    BY <1>1 DEF SignIn
  <2>3. [page[t] EXCEPT !.user = TRUE] \in PageType /\ c \in Connections
    BY <1>0 DEF PageType, Vacant
  <2>4. page' \in [Tabs -> PageType] /\ conn' \in [Connections -> ConnectionType]
    BY <2>1, <2>2, <2>3, OpenType
  <2>. QED
    BY <1>1, <2>1, <2>4, TypeParts DEF SignIn, TypeOK, PageType, ConnectionType
<1>2. ASSUME Logout(t)
      PROVE  TypeOK'
  <2>1. page' \in [Tabs -> PageType] /\ conn' \in [Connections -> ConnectionType]
    BY <1>2, LeaveType DEF Logout
  <2>2. events' \in 0..MaxEvents /\ store' \in {None} \cup Tokens /\ usable' \subseteq Tokens
    BY <1>0, <1>2, NextEvents DEF Logout
  <2>. QED
    BY <1>2, <2>1, <2>2 DEF Logout, TypeOK, PageType, ConnectionType
<1>3. ASSUME Receive(t)
      PROVE  TypeOK'
  <2>1. PICK c \in Connections :
          /\ conn[c].wire # << >>
          /\ feed' = [feed EXCEPT ![t] = <<Head(conn[c].wire)>> \o @]
          /\ conn' = [conn EXCEPT ![c].wire = Tail(@), ![c].owed = @ \ {Head(conn[c].wire)}]
    BY <1>3 DEF Receive
  <2>2. conn[c] \in ConnectionType /\ conn[c].wire \in Seq(Alerts)
    BY <1>0 DEF ConnectionType
  <2>3. Head(conn[c].wire) \in Alerts /\ Tail(conn[c].wire) \in Seq(Alerts)
    BY <2>1, <2>2, HeadTailProperties
  <2>4. feed' \in [Tabs -> Seq(Alerts)]
    <3>1. <<Head(conn[c].wire)>> \in Seq(Alerts) /\ feed[t] \in Seq(Alerts)
      BY <1>0, <2>3
    <3>2. <<Head(conn[c].wire)>> \o feed[t] \in Seq(Alerts)
      BY <3>1, ConcatProperties
    <3>. QED
      BY <1>0, <2>1, <3>2
  <2>5. conn' \in [Connections -> ConnectionType]
    <3> DEFINE k == [conn[c] EXCEPT !.wire = Tail(conn[c].wire),
                                    !.owed = conn[c].owed \ {Head(conn[c].wire)}]
    <3>1. k \in ConnectionType
      BY <2>2, <2>3 DEF ConnectionType
    <3>2. conn' = [conn EXCEPT ![c] = k]
      BY <1>0, <2>1, <2>2 DEF ConnectionType
    <3>. HIDE DEF k
    <3>. QED
      BY <1>0, <3>1, <3>2
  <2>6. UNCHANGED <<store, issued, fresh, usable, page, connections, task, events>>
    BY <1>3 DEF Receive, logins
  <2>7. TypeOK' <=> feed' \in [Tabs -> Seq(Alerts)] /\ conn' \in [Connections -> ConnectionType]
    BY <2>6, TypeParts DEF TypeOK, ConnectionType
  <2>. QED
    BY <2>4, <2>5, <2>7
<1>4. ASSUME Dropped(t)
      PROVE  TypeOK'
  <2>1. PICK c \in Connections :
          /\ conn' = [conn EXCEPT ![c].client = "closed"]
          /\ page' = [page EXCEPT ![t].timers = @ + Scheduled,
                                  ![t].socket = IF @ = c THEN None ELSE @]
    BY <1>4 DEF Dropped
  <2>2. conn' \in [Connections -> ConnectionType]
    BY <1>0, <2>1, ConnectionTypes
  <2>3. /\ page[t].timers + Scheduled \in Nat
        /\ (IF page[t].socket = c THEN None ELSE page[t].socket) \in {None} \cup Connections
    BY <1>0 DEF PageType, Scheduled
  <2>4. page' \in [Tabs -> PageType]
    BY <1>0, <2>1, <2>3 DEF PageType
  <2>. QED
    BY <1>4, <2>2, <2>4 DEF Dropped, TypeOK, ConnectionType, PageType, logins
<1>5. ASSUME Retry(t)
      PROVE  TypeOK'
  <2>1. PICK c \in Vacant : Open(t, [page[t] EXCEPT !.timers = @ - 1], store, c)
    BY <1>5 DEF Retry
  <2>2. [page[t] EXCEPT !.timers = @ - 1] \in PageType /\ c \in Connections
    <3>1. page[t].timers \in Nat /\ page[t].timers > 0
      BY <1>0, <1>5 DEF Retry, PageType
    <3>2. page[t].timers - 1 \in Nat
      BY <3>1
    <3>. QED
      BY <1>0, <3>2 DEF PageType, Vacant
  <2>3. page' \in [Tabs -> PageType] /\ conn' \in [Connections -> ConnectionType]
    BY <1>0, <2>1, <2>2, OpenType
  <2>. QED
    BY <1>5, <2>3 DEF Retry, TypeOK, ConnectionType, PageType, logins
<1>. QED
  BY <1>1, <1>2, <1>3, <1>4, <1>5

LEMMA AnswerSteps ==
    ASSUME TypeOK, NEW t \in Tabs
    PROVE  /\ Refresh(t) => TypeOK'
           /\ Answer(t) => TypeOK'
<1>0. /\ page \in [Tabs -> PageType] /\ page[t] \in PageType
      /\ store \in {None} \cup Tokens /\ issued \in Tokens
      /\ fresh \subseteq Tokens /\ usable \subseteq Tokens
  BY TypeParts
<1>1. \A n \in {"none", "refused", "passed", "granted"}, g \in {None} \cup Tokens :
         /\ [page EXCEPT ![t].call = n] \in [Tabs -> PageType]
         /\ [page EXCEPT ![t].call = n, ![t].token = g] \in [Tabs -> PageType]
         /\ [page EXCEPT ![t] = [@ EXCEPT !.call = n]] \in [Tabs -> PageType]
         /\ [page EXCEPT ![t] = [@ EXCEPT !.call = n, !.token = g]] \in [Tabs -> PageType]
  BY <1>0 DEF PageType
<1>2. ASSUME Refresh(t)
      PROVE  TypeOK'
  <2>1. page' \in [Tabs -> PageType]
    BY <1>0, <1>1, <1>2 DEF Refresh
  <2>. QED
    BY <1>2, <2>1 DEF Refresh, TypeOK, PageType, logins
<1>3. ASSUME Rotate(t)
      PROVE  TypeOK'
  <2>1. issued' \in Tokens
    BY <1>0, <1>3, NextTokens DEF Rotate
  <2>2. page' \in [Tabs -> PageType]
    BY <1>1, <1>3, <2>1 DEF Rotate
  <2>3. usable' \subseteq Tokens /\ fresh' \subseteq Tokens
    BY <1>0, <1>3, <2>1 DEF Rotate
  <2>. QED
    BY <1>3, <2>1, <2>2, <2>3 DEF Rotate, TypeOK, PageType
<1>4. ASSUME Granted(t)
      PROVE  TypeOK'
  <2>1. page' \in [Tabs -> PageType]
    BY <1>1, <1>4 DEF Granted
  <2>2. store' \in {None} \cup Tokens
    BY <1>0, <1>4 DEF Granted, PageType
  <2>. QED
    BY <1>4, <2>1, <2>2 DEF Granted, TypeOK, PageType
<1>5. ASSUME SessionExpired(t)
      PROVE  TypeOK'
  <2>1. page' \in [Tabs -> PageType] /\ conn' \in [Connections -> ConnectionType]
    BY <1>5, LeaveType DEF SessionExpired
  <2>. QED
    BY <1>5, <2>1 DEF SessionExpired, TypeOK, PageType, ConnectionType
<1>. QED
  BY <1>2, <1>3, <1>4, <1>5 DEF Answer

LEMMA ServerSteps ==
    ASSUME TypeOK, NEW c \in Connections
    PROVE  /\ Serve(c) => TypeOK'
           /\ Cut(c) \/ Stall(c) \/ Unstall(c) => TypeOK'
<1>0. /\ conn \in [Connections -> ConnectionType] /\ conn[c] \in ConnectionType
      /\ connections \subseteq Connections /\ events \in 0..MaxEvents
  BY TypeParts
<1>1. ASSUME NEW k \in ConnectionType
      PROVE  [conn EXCEPT ![c] = k] \in [Connections -> ConnectionType]
  BY <1>0
<1>2. ASSUME NEW h \in {"checking", "accepted", "serving", "ended"}
      PROVE  [conn EXCEPT ![c].handler = h] \in [Connections -> ConnectionType]
  BY <1>0, <1>1, ConnectionTypes
<1>3. ASSUME Serve(c)
      PROVE  TypeOK'
  <2>1. CASE Reject(c)
    <3>1. [Down(conn[c]) EXCEPT !.handler = "ended"] \in ConnectionType
      BY <1>0, ConnectionTypes
    <3>2. conn' \in [Connections -> ConnectionType]
      BY <1>1, <2>1, <3>1 DEF Reject
    <3>. QED
      BY <2>1, <3>2 DEF Reject, TypeOK, ConnectionType, logins
  <2>2. CASE Accept(c)
    <3>1. conn' \in [Connections -> ConnectionType]
      BY <1>2, <2>2 DEF Accept
    <3>. QED
      BY <2>2, <3>1 DEF Accept, TypeOK, ConnectionType, logins
  <2>3. CASE Register(c)
    <3>1. conn' \in [Connections -> ConnectionType] /\ connections' \subseteq Connections
      BY <1>0, <1>2, <2>3 DEF Register
    <3>. QED
      BY <2>3, <3>1 DEF Register, TypeOK, ConnectionType, logins
  <2>4. CASE Disconnect(c)
    <3>1. conn' \in [Connections -> ConnectionType] /\ connections' \subseteq Connections
      BY <1>0, <1>2, <2>4 DEF Disconnect, Remaining
    <3>. QED
      BY <2>4, <3>1 DEF Disconnect, TypeOK, ConnectionType, logins
  <2>. QED
    BY <1>3, <2>1, <2>2, <2>3, <2>4 DEF Serve
<1>4. ASSUME Cut(c) \/ Stall(c) \/ Unstall(c)
      PROVE  TypeOK'
  <2>1. conn' \in [Connections -> ConnectionType]
    <3>1. CASE Cut(c)
      BY <1>0, <1>1, <3>1, ConnectionTypes DEF Cut
    <3>2. CASE Stall(c)
      <4>1. [conn[c] EXCEPT !.link = "stalled"] \in ConnectionType
        BY <1>0, ConnectionTypes
      <4>. QED
        BY <1>0, <1>1, <3>2, <4>1 DEF Stall
    <3>3. CASE Unstall(c)
      <4>1. [conn[c] EXCEPT !.link = "up"] \in ConnectionType /\ Down(conn[c]) \in ConnectionType
        BY <1>0, ConnectionTypes
      <4>2. \/ conn' = [conn EXCEPT ![c] = [conn[c] EXCEPT !.link = "up"]]
            \/ conn' = [conn EXCEPT ![c] = Down(conn[c])]
        BY <3>3 DEF Unstall
      <4>. QED
        BY <1>1, <4>1, <4>2
    <3>. QED
      BY <1>4, <3>1, <3>2, <3>3
  <2>2. events' \in 0..MaxEvents
    BY <1>0, <1>4, NextEvents DEF Cut, Stall, Unstall
  <2>3. UNCHANGED <<logins, page, connections, task, feed>>
    BY <1>4 DEF Cut, Stall, Unstall
  <2>. QED
    BY <2>1, <2>2, <2>3 DEF TypeOK, ConnectionType, logins
<1>. QED
  BY <1>3, <1>4

LEMMA TaskTypes ==
    /\ NoTask \in TaskType
    /\ \A k \in TaskType :
          /\ \A n \in {"none", "queued", "sending", "ended"} : [k EXCEPT !.state = n] \in TaskType
          /\ \A L \in SUBSET Connections : [k EXCEPT !.left = L] \in TaskType
          /\ \A D \in SUBSET Connections : [k EXCEPT !.dead = D] \in TaskType
BY DEF NoTask, TaskType

LEMMA BroadcastSteps ==
    ASSUME TypeOK, NEW a \in Alerts
    PROVE  /\ Publish(a) => TypeOK'
           /\ Broadcast(a) => TypeOK'
<1>0. /\ conn \in [Connections -> ConnectionType] /\ connections \subseteq Connections
      /\ task \in [Alerts -> TaskType] /\ task[a] \in TaskType
  BY TypeParts
<1>1. ASSUME NEW k \in TaskType
      PROVE  [task EXCEPT ![a] = k] \in [Alerts -> TaskType]
  BY <1>0
<1>2. ASSUME Publish(a)
      PROVE  TypeOK'
  <2>1. task' \in [Alerts -> TaskType]
    BY <1>0, <1>1, <1>2, TaskTypes DEF Publish
  <2>2. \A c \in Connections : [conn[c] EXCEPT !.owed = @ \cup {a}] \in ConnectionType
    BY <1>0, ConnectionTypes
  <2>3. conn' \in [Connections -> ConnectionType]
    BY <1>0, <1>2, <2>2 DEF Publish
  <2>. QED
    BY <1>2, <2>1, <2>3 DEF Publish, TypeOK, TaskType, ConnectionType, logins
<1>3. ASSUME Start(a)
      PROVE  TypeOK'
  <2>1. {c \in connections : conn[c].at = Home} \in SUBSET Connections
    BY <1>0
  <2>2. task' \in [Alerts -> TaskType]
    BY <1>0, <1>3, <2>1 DEF Start, TaskType
  <2>. QED
    BY <1>3, <2>2 DEF Start, TypeOK, TaskType, ConnectionType, logins
<1>4. ASSUME Send(a)
      PROVE  TypeOK'
  <2>1. PICK c \in task[a].left :
          \/ /\ task' = [task EXCEPT ![a].left = @ \ {c}]
             /\ conn' = conn \/ conn' = [conn EXCEPT ![c].wire = Append(@, a)]
          \/ /\ task' = [task EXCEPT ![a].left = @ \ {c}, ![a].dead = @ \cup {c}]
             /\ UNCHANGED conn
    BY <1>4 DEF Send, AfterFailure
  <2>2. c \in Connections /\ task[a].left \in SUBSET Connections /\ task[a].dead \in SUBSET Connections
    BY <1>0 DEF TaskType
  <2>3. task' \in [Alerts -> TaskType]
    BY <1>0, <2>1, <2>2 DEF TaskType
  <2>4. conn' \in [Connections -> ConnectionType]
    <3>1. conn[c].wire \in Seq(Alerts)
      BY <1>0, <2>2 DEF ConnectionType
    <3>2. Append(conn[c].wire, a) \in Seq(Alerts)
      BY <3>1, AppendProperties
    <3>3. [conn[c] EXCEPT !.wire = Append(conn[c].wire, a)] \in ConnectionType
      BY <1>0, <2>2, <3>2, ConnectionTypes
    <3>. QED
      BY <1>0, <2>1, <2>2, <3>3
  <2>5. UNCHANGED <<logins, page, connections, feed, events>>
    BY <1>4 DEF Send
  <2>. QED
    BY <2>3, <2>4, <2>5 DEF TypeOK, TaskType, ConnectionType, logins
<1>5. ASSUME Finish(a)
      PROVE  TypeOK'
  <2>1. [NoTask EXCEPT !.state = "ended"] \in TaskType
    BY TaskTypes
  <2>2. task' \in [Alerts -> TaskType] /\ connections' \subseteq Connections
    BY <1>0, <1>1, <1>5, <2>1 DEF Finish
  <2>. QED
    BY <1>5, <2>2 DEF Finish, TypeOK, TaskType, ConnectionType, logins
<1>. QED
  BY <1>2, <1>3, <1>4, <1>5 DEF Broadcast

LEMMA RestartType == ASSUME TypeOK, NEW p \in Processes, Restart(p) PROVE TypeOK'
<1>0. /\ conn \in [Connections -> ConnectionType] /\ connections \subseteq Connections
      /\ task \in [Alerts -> TaskType] /\ events \in 0..MaxEvents
  BY TypeParts
<1>1. \A c \in Connections : [Down(conn[c]) EXCEPT !.handler = "ended"] \in ConnectionType
  BY <1>0, ConnectionTypes
<1>2. conn' \in [Connections -> ConnectionType]
  BY <1>0, <1>1 DEF Restart
<1>3. [NoTask EXCEPT !.state = "ended"] \in TaskType
  BY TaskTypes
<1>4. task' \in [Alerts -> TaskType] /\ connections' \subseteq Connections
  BY <1>0, <1>3 DEF Restart
<1>5. events' \in 0..MaxEvents
  BY <1>0, NextEvents DEF Restart
<1>. QED
  BY <1>2, <1>4, <1>5 DEF Restart, TypeOK, TaskType, ConnectionType, logins

LEMMA TypeInit == Init => TypeOK
<1>1. 1 \in Tokens /\ 0 \in 0..MaxEvents
  BY LiveConstants DEF Tokens
<1>2. LoggedOut \in PageType /\ << >> \in Seq(Alerts)
  BY DEF LoggedOut, PageType, None
<1>. QED
  BY <1>1, <1>2, ConnectionTypes, TaskTypes, TypeParts DEF Init

LEMMA TypeStep == TypeOK /\ [Next]_vars => TypeOK'
<1> SUFFICES ASSUME TypeOK, [Next]_vars
             PROVE  TypeOK'
  OBVIOUS
<1>1. ASSUME Expire
      PROVE  TypeOK'
  <2>1. fresh' \subseteq Tokens /\ events' \in 0..MaxEvents
    BY <1>1, NextEvents DEF Expire, TypeOK
  <2>. QED
    BY <1>1, <2>1 DEF Expire, TypeOK
<1>2. CASE UNCHANGED vars
  BY <1>2 DEF vars, logins, TypeOK
<1>. QED
  BY <1>1, <1>2, PageSteps, AnswerSteps, ServerSteps, BroadcastSteps, RestartType
  DEF Next, Callback

\* Every variable keeps its kind through every step of browser and server.
THEOREM TypeCorrect == Spec => []TypeOK
BY TypeInit, TypeStep, PTL DEF Spec

-----------------------------------------------------------------------------
(* What the steps leave alone                                              *)

\* A connection keeps its page and stays open or closed; it keeps what is on its
\* wire or breaks.
Kept(c) == conn'[c].tab = conn[c].tab /\ conn'[c].client = conn[c].client

WireKept(c) ==
    \/ conn'[c].wire = conn[c].wire /\ (conn'[c].link = "down" <=> conn[c].link = "down")
    \/ conn'[c].wire = << >> /\ conn'[c].link = "down"

PageKept(t) ==
    /\ page'[t].user = page[t].user
    /\ page'[t].socket = page[t].socket
    /\ page'[t].timers = page[t].timers

TaskKept(a) ==
    /\ Begun(a) => Begun(a)'
    /\ task'[a].left \subseteq task[a].left
    /\ \/ task'[a].state = task[a].state
       \/ task'[a].left = {}
       \/ task[a].state = "none"

LEMMA QuietPages ==
    ASSUME TypeOK, NEW t \in Tabs, Refresh(t) \/ Rotate(t) \/ Granted(t)
    PROVE  UNCHANGED <<conn, task, feed>> /\ \A u \in Tabs : PageKept(u)
<1>0. page \in [Tabs -> PageType]
  BY TypeParts
<1>1. UNCHANGED <<conn, task, feed>>
  BY DEF Refresh, Rotate, Granted
<1>3. CASE Refresh(t)
  BY <1>0, <1>3 DEF Refresh, PageKept, PageType
<1>4. CASE Rotate(t)
  BY <1>0, <1>4 DEF Rotate, PageKept, PageType
<1>5. CASE Granted(t)
  BY <1>0, <1>5 DEF Granted, PageKept, PageType
<1>. QED
  BY <1>1, <1>3, <1>4, <1>5

LEMMA QuietConnections ==
    ASSUME TypeOK, NEW c \in Connections, Serve(c) \/ Cut(c) \/ Stall(c) \/ Unstall(c)
    PROVE  UNCHANGED <<page, task, feed>> /\ \A d \in Connections : Kept(d) /\ WireKept(d)
<1>0. conn \in [Connections -> ConnectionType] /\ conn[c] \in ConnectionType
  BY TypeParts
<1>1. UNCHANGED <<page, task, feed>>
  BY DEF Serve, Reject, Accept, Register, Disconnect, Cut, Stall, Unstall, logins
<1>2. \E k : /\ conn' = [conn EXCEPT ![c] = k]
             /\ k.tab = conn[c].tab /\ k.client = conn[c].client
             /\ \/ k.wire = conn[c].wire /\ (k.link = "down" <=> conn[c].link = "down")
                \/ k.wire = << >> /\ k.link = "down"
  <2>1. \A h : /\ [conn[c] EXCEPT !.handler = h].tab = conn[c].tab
               /\ [conn[c] EXCEPT !.handler = h].client = conn[c].client
               /\ [conn[c] EXCEPT !.handler = h].wire = conn[c].wire
               /\ [conn[c] EXCEPT !.handler = h].link = conn[c].link
    BY <1>0 DEF ConnectionType
  <2>2. \A n : /\ [conn[c] EXCEPT !.link = n].tab = conn[c].tab
               /\ [conn[c] EXCEPT !.link = n].client = conn[c].client
               /\ [conn[c] EXCEPT !.link = n].wire = conn[c].wire
               /\ [conn[c] EXCEPT !.link = n].link = n
    BY <1>0 DEF ConnectionType
  <2>3. /\ Down(conn[c]).tab = conn[c].tab /\ Down(conn[c]).client = conn[c].client
        /\ Down(conn[c]).wire = << >> /\ Down(conn[c]).link = "down"
    BY <1>0 DEF Down, ConnectionType
  <2>4. CASE Reject(c)
    <3> DEFINE k == [Down(conn[c]) EXCEPT !.handler = "ended"]
    <3>1. k.tab = conn[c].tab /\ k.client = conn[c].client /\ k.wire = << >> /\ k.link = "down"
      BY <1>0 DEF Down, ConnectionType
    <3>2. conn' = [conn EXCEPT ![c] = k]
      BY <2>4 DEF Reject
    <3>. HIDE DEF k
    <3>. QED
      BY <3>1, <3>2
  <2>5. CASE Accept(c)
    <3> DEFINE h == IF conn[c].link = "down" THEN "ended" ELSE "accepted"
               k == [conn[c] EXCEPT !.handler = h]
    <3>1. conn' = [conn EXCEPT ![c] = k]
      BY <2>5 DEF Accept
    <3>. HIDE DEF h
    <3>2. k.tab = conn[c].tab /\ k.client = conn[c].client /\ k.wire = conn[c].wire
          /\ k.link = conn[c].link
      BY <2>1
    <3>. HIDE DEF k
    <3>. QED
      BY <3>1, <3>2
  <2>6. CASE Register(c)
    <3> DEFINE h == "serving"
               k == [conn[c] EXCEPT !.handler = h]
    <3>1. conn' = [conn EXCEPT ![c] = k]
      BY <2>6 DEF Register
    <3>. HIDE DEF h
    <3>2. k.tab = conn[c].tab /\ k.client = conn[c].client /\ k.wire = conn[c].wire
          /\ k.link = conn[c].link
      BY <2>1
    <3>. HIDE DEF k
    <3>. QED
      BY <3>1, <3>2
  <2>7. CASE Disconnect(c)
    <3> DEFINE h == "ended"
               k == [conn[c] EXCEPT !.handler = h]
    <3>1. conn' = [conn EXCEPT ![c] = k]
      BY <2>7 DEF Disconnect
    <3>. HIDE DEF h
    <3>2. k.tab = conn[c].tab /\ k.client = conn[c].client /\ k.wire = conn[c].wire
          /\ k.link = conn[c].link
      BY <2>1
    <3>. HIDE DEF k
    <3>. QED
      BY <3>1, <3>2
  <2>8. CASE Cut(c)
    BY <2>3, <2>8 DEF Cut
  <2>9. CASE Stall(c)
    <3> DEFINE k == [conn[c] EXCEPT !.link = "stalled"]
    <3>1. k.tab = conn[c].tab /\ k.client = conn[c].client /\ k.wire = conn[c].wire
          /\ k.link = "stalled"
      BY <2>2
    <3>2. conn' = [conn EXCEPT ![c] = k] /\ conn[c].link # "down"
      BY <2>9 DEF Stall
    <3>. HIDE DEF k
    <3>. QED
      BY <3>1, <3>2
  <2>10. CASE Unstall(c)
    <3>1. \/ conn' = [conn EXCEPT ![c] = [conn[c] EXCEPT !.link = "up"]]
          \/ conn' = [conn EXCEPT ![c] = Down(conn[c])]
      BY <2>10 DEF Unstall
    <3> DEFINE k == [conn[c] EXCEPT !.link = "up"]
    <3>2. k.tab = conn[c].tab /\ k.client = conn[c].client /\ k.wire = conn[c].wire
          /\ k.link = "up" /\ conn[c].link # "down"
      BY <2>2, <2>10 DEF Unstall
    <3>3. conn' = [conn EXCEPT ![c] = k] \/ conn' = [conn EXCEPT ![c] = Down(conn[c])]
      BY <3>1
    <3>. HIDE DEF k
    <3>. QED
      BY <2>3, <3>2, <3>3
  <2>. QED
    BY <2>4, <2>5, <2>6, <2>7, <2>8, <2>9, <2>10 DEF Serve
<1>3. \A d \in Connections : Kept(d) /\ WireKept(d)
  BY <1>0, <1>2 DEF Kept, WireKept
<1>. QED
  BY <1>1, <1>3

LEMMA QuietTasks ==
    ASSUME TypeOK, NEW a \in Alerts
    PROVE  /\ Publish(a) =>
                /\ UNCHANGED <<page, feed>> /\ \A c \in Connections : Kept(c) /\ WireKept(c)
                /\ \A b \in Alerts : TaskKept(b)
           /\ Finish(a) => UNCHANGED <<page, conn, feed>> /\ \A b \in Alerts : TaskKept(b)
<1>0. conn \in [Connections -> ConnectionType] /\ task \in [Alerts -> TaskType]
  BY TypeParts
<1>1. ASSUME Publish(a)
      PROVE  /\ UNCHANGED <<page, feed>> /\ \A c \in Connections : Kept(c) /\ WireKept(c)
             /\ \A b \in Alerts : TaskKept(b)
  <2>1. ASSUME NEW c \in Connections
        PROVE  /\ conn'[c].tab = conn[c].tab /\ conn'[c].client = conn[c].client
               /\ conn'[c].wire = conn[c].wire /\ conn'[c].link = conn[c].link
    BY <1>0, <1>1 DEF Publish, ConnectionType
  <2>2. ASSUME NEW b \in Alerts
        PROVE  /\ task'[b].left = task[b].left
               /\ task'[b].state = task[b].state \/ task[b].state = "none"
    BY <1>0, <1>1 DEF Publish, TaskType
  <2>3. \A b \in Alerts : TaskKept(b)
    BY <2>2 DEF TaskKept, Begun
  <2>. QED
    BY <1>1, <2>1, <2>3 DEF Publish, Kept, WireKept
<1>2. ASSUME Finish(a)
      PROVE  UNCHANGED <<page, conn, feed>> /\ \A b \in Alerts : TaskKept(b)
  <2>1. /\ task'[a].left = {} /\ task'[a].state = "ended"
        /\ \A b \in Alerts \ {a} : task'[b] = task[b]
    BY <1>0, <1>2 DEF Finish, NoTask, TaskType
  <2>. QED
    BY <1>2, <2>1 DEF Finish, TaskKept, Begun
<1>. QED
  BY <1>1, <1>2

LEMMA QuietRestart ==
    ASSUME TypeOK, NEW p \in Processes, Restart(p)
    PROVE  /\ UNCHANGED <<page, feed>> /\ \A c \in Connections : Kept(c) /\ WireKept(c)
           /\ \A b \in Alerts : TaskKept(b)
<1>0. conn \in [Connections -> ConnectionType] /\ task \in [Alerts -> TaskType]
  BY TypeParts
<1>1. ASSUME NEW c \in Connections
      PROVE  Kept(c) /\ WireKept(c)
  <2>1. CASE conn[c].at = p
    <3>1. conn'[c] = [Down(conn[c]) EXCEPT !.handler = "ended"]
      BY <1>0, <2>1 DEF Restart
    <3>. QED
      BY <1>0, <3>1 DEF Down, ConnectionType, Kept, WireKept
  <2>2. CASE conn[c].at # p
    BY <1>0, <2>2 DEF Restart, Kept, WireKept
  <2>. QED
    BY <2>1, <2>2
<1>2. ASSUME NEW b \in Alerts
      PROVE  TaskKept(b)
  <2>1. \/ task'[b] = task[b]
        \/ task'[b].left = {} /\ task'[b].state = "ended"
    BY <1>0 DEF Restart, NoTask
  <2>. QED
    BY <2>1 DEF TaskKept, Begun
<1>. QED
  BY <1>1, <1>2 DEF Restart

-----------------------------------------------------------------------------
(* No alert twice                                                          *)

\* Alerts reach nobody anew: wires and what is still to be sent only shrink, and
\* a connection that is new to its page has nothing on its way.
LEMMA DeliverFrame ==
    ASSUME DeliverInv, NoRepeats, UNCHANGED feed, \A a \in Alerts : TaskKept(a),
           \A c \in Connections : conn'[c].wire = conn[c].wire \/ conn'[c].wire = << >>,
           \A c \in Connections : Live(c)' =>
              \/ Live(c) /\ conn'[c].tab = conn[c].tab
              \/ conn'[c].wire = << >> /\ \A a \in Alerts : ~ToCome(a, c)
    PROVE  DeliverInv' /\ NoRepeats'
<1>1. \A a \in Alerts, c \in Connections : ToCome(a, c)' => ToCome(a, c)
  BY DEF ToCome, TaskKept
<1>2. \A a \in Alerts, c \in Connections : ToCome(a, c)' => task'[a].state = "sending"
  <2>1. \A a \in Alerts, c \in Connections : ToCome(a, c)' => task'[a].left # {}
    BY DEF ToCome
  <2>. QED
    BY <1>1, <2>1 DEF DeliverInv, TaskKept
<1>3. \A a, c : c \in Connections /\ In(a, conn'[c].wire) => In(a, conn[c].wire)
  BY EmptySequence
<1>4. \A a \in Alerts : Begun(a) => Begun(a)'
  BY DEF TaskKept
<1>5. \A a \in Alerts, c \in Connections : In(a, conn'[c].wire) => Begun(a)' /\ ~ToCome(a, c)'
  BY <1>1, <1>3, <1>4 DEF DeliverInv
<1>6. ASSUME NEW a \in Alerts, NEW t \in Tabs, In(a, feed'[t])
      PROVE  /\ Begun(a)'
             /\ \A c \in Connections : Live(c)' /\ conn'[c].tab = t =>
                   ~ToCome(a, c)' /\ ~In(a, conn'[c].wire)
  <2>1. Begun(a) /\ \A c \in Connections : Live(c) /\ conn[c].tab = t =>
                       ~ToCome(a, c) /\ ~In(a, conn[c].wire)
    BY <1>6 DEF DeliverInv
  <2>2. ASSUME NEW c \in Connections, Live(c)', conn'[c].tab = t
        PROVE  ~ToCome(a, c)' /\ ~In(a, conn'[c].wire)
    BY <1>1, <1>3, <2>1, <2>2, EmptySequence
  <2>. QED
    BY <1>4, <2>1, <2>2
<1>7. DeliverInv'
  BY <1>2, <1>5, <1>6 DEF DeliverInv
<1>8. NoRepeats'
  BY EmptySequence DEF NoRepeats
<1>. QED
  BY <1>7, <1>8

LEMMA ScreenFrame ==
    ASSUME ScreenInv, TypeOK', UNCHANGED feed,
           \A t \in Tabs : PageKept(t),
           \A c \in Connections : Kept(c) /\ WireKept(c),
           \A a \in Alerts : TaskKept(a)
    PROVE  ScreenInv'
<1>1. LinkInv'
  BY DEF ScreenInv, LinkInv, Kept, WireKept, Live
<1>2. SocketInv'
  BY DEF ScreenInv, SocketInv, PageKept, Kept, Live
<1>3. DeliverInv' /\ NoRepeats'
  BY DeliverFrame DEF ScreenInv, Kept, WireKept, Live
<1>. QED
  BY <1>1, <1>2, <1>3 DEF ScreenInv

LEMMA Unmoved ==
    /\ \A c \in Connections : conn' = conn => Kept(c) /\ WireKept(c)
    /\ \A t \in Tabs : page' = page => PageKept(t)
    /\ \A a \in Alerts : task' = task => TaskKept(a)
BY DEF Kept, WireKept, PageKept, TaskKept, Begun

\* A page that has no socket gets one, or nothing.
LEMMA Opened ==
    ASSUME ScreenInv, TypeOK', UNCHANGED <<task, feed>>, NEW t \in Tabs,
           page[t].socket = None,
           NEW p \in PageType, p.user, p.socket = None, p.timers = 0,
           NEW token, NEW c \in Vacant, Open(t, p, token, c)
    PROVE  ScreenInv'
<1>0. /\ page \in [Tabs -> PageType] /\ conn \in [Connections -> ConnectionType]
      /\ c \in Connections /\ Free(c) /\ ~Live(c)
  BY TypeParts DEF ScreenInv, Vacant, Free, Live
<1>1. CASE token = None
  <2>1. /\ page'[t] = p /\ \A u \in Tabs \ {t} : page'[u] = page[u]
        /\ conn' = conn
    BY <1>0, <1>1 DEF Open
  <2>2. \A d \in Connections : ~(Live(d) /\ conn[d].tab = t)
    BY DEF ScreenInv, SocketInv, None, Connections
  <2>3. SocketInv'
    BY <2>1, <2>2 DEF ScreenInv, SocketInv, Live
  <2>4. LinkInv' /\ DeliverInv' /\ NoRepeats'
    BY <2>1, Unmoved, DeliverFrame DEF ScreenInv, LinkInv, Live
  <2>. QED
    BY <2>3, <2>4 DEF ScreenInv
<1>2. CASE token # None
  <2>1. PICK at \in Processes :
          /\ page' = [page EXCEPT ![t] = [p EXCEPT !.socket = c]]
          /\ conn' = [conn EXCEPT ![c] = [Closed EXCEPT
                         !.tab = t, !.at = at, !.token = token, !.client = "open",
                         !.link = "up", !.handler = "checking"]]
    BY <1>2 DEF Open
  <2>2. /\ conn'[c].tab = t /\ conn'[c].client = "open" /\ conn'[c].link = "up"
        /\ conn'[c].wire = << >>
        /\ \A d \in Connections \ {c} : conn'[d] = conn[d]
    BY <1>0, <2>1 DEF Closed
  <2>3. /\ page'[t].user /\ page'[t].socket = c /\ page'[t].timers = 0
        /\ \A u \in Tabs \ {t} : page'[u] = page[u]
    BY <1>0, <2>1 DEF PageType
  <2>4. LinkInv'
    BY <2>2 DEF ScreenInv, LinkInv, Live
  <2>5. \A d \in Connections : ~(Live(d) /\ conn[d].tab = t)
    BY DEF ScreenInv, SocketInv, None, Connections
  <2>6. SocketInv'
    <3>1. \A d \in Connections : Live(d)' => conn'[d].tab \in Tabs /\ page'[conn'[d].tab].socket = d
      BY <2>2, <2>3, <2>5 DEF ScreenInv, SocketInv, Live
    <3>2. \A u \in Tabs : /\ page'[u].timers \in {0, 1}
                          /\ page'[u].timers = 1 \/ ~page'[u].user => page'[u].socket = None
                          /\ ~page'[u].user => page'[u].timers = 0
      BY <2>3 DEF ScreenInv, SocketInv
    <3>. QED
      BY <3>1, <3>2 DEF SocketInv
  <2>7. \A a \in Alerts : ~ToCome(a, c)
    BY <1>0 DEF Free, ToCome
  <2>8. DeliverInv' /\ NoRepeats'
    BY <2>2, <2>7, Unmoved, DeliverFrame DEF ScreenInv, Live
  <2>. QED
    BY <2>4, <2>6, <2>8 DEF ScreenInv
<1>. QED
  BY <1>1, <1>2

LEMMA Left ==
    ASSUME ScreenInv, TypeOK', UNCHANGED <<task, feed>>, NEW t \in Tabs, Leave(t)
    PROVE  ScreenInv'
<1>0. /\ page \in [Tabs -> PageType] /\ conn \in [Connections -> ConnectionType]
  BY TypeParts DEF ScreenInv
<1>1. /\ ~page'[t].user /\ page'[t].socket = None /\ page'[t].timers = 0
      /\ \A u \in Tabs \ {t} : page'[u] = page[u]
  BY <1>0 DEF Leave, PageType
<1>2. ASSUME NEW c \in Connections
      PROVE  IF c = page[t].socket
             THEN conn'[c].client = "closed" /\ conn'[c].link = "down" /\ conn'[c].wire = << >>
             ELSE conn'[c] = conn[c]
  <2>1. c # page[t].socket => conn'[c] = conn[c]
    BY <1>0 DEF Leave
  <2>2. c = page[t].socket => conn'[c] = [Down(conn[c]) EXCEPT !.client = "closed"]
    BY <1>0 DEF Leave
  <2>3. Down(conn[c]) \in ConnectionType
    BY <1>0, ConnectionTypes
  <2>4. \A k \in ConnectionType : /\ [k EXCEPT !.client = "closed"].client = "closed"
                                 /\ [k EXCEPT !.client = "closed"].link = k.link
                                 /\ [k EXCEPT !.client = "closed"].wire = k.wire
    BY DEF ConnectionType
  <2>5. Down(conn[c]).link = "down" /\ Down(conn[c]).wire = << >>
    BY <1>0 DEF Down, ConnectionType
  <2>. QED
    BY <2>1, <2>2, <2>3, <2>4, <2>5
<1>3. LinkInv'
  BY <1>2 DEF ScreenInv, LinkInv, Live
<1>4. \A c \in Connections : Live(c)' =>
         Live(c) /\ conn'[c] = conn[c] /\ c # page[t].socket
  BY <1>2 DEF Live
<1>5. SocketInv'
  <2>1. \A c \in Connections : Live(c)' => conn'[c].tab \in Tabs /\ page'[conn'[c].tab].socket = c
    BY <1>1, <1>4 DEF ScreenInv, SocketInv
  <2>2. \A u \in Tabs : /\ page'[u].timers \in {0, 1}
                        /\ page'[u].timers = 1 \/ ~page'[u].user => page'[u].socket = None
                        /\ ~page'[u].user => page'[u].timers = 0
    BY <1>1 DEF ScreenInv, SocketInv
  <2>. QED
    BY <2>1, <2>2 DEF SocketInv
<1>6. DeliverInv' /\ NoRepeats'
  BY <1>2, <1>4, Unmoved, DeliverFrame DEF ScreenInv
<1>. QED
  BY <1>3, <1>5, <1>6 DEF ScreenInv

LEMMA DroppedStep ==
    ASSUME ScreenInv, TypeOK', NEW t \in Tabs, Dropped(t)
    PROVE  ScreenInv'
<1>0. /\ page \in [Tabs -> PageType] /\ conn \in [Connections -> ConnectionType]
  BY TypeParts DEF ScreenInv
<1>1. PICK c \in Connections :
        /\ conn[c].tab = t /\ conn[c].client # "closed" /\ conn[c].link = "down"
        /\ conn' = [conn EXCEPT ![c].client = "closed"]
        /\ page' = [page EXCEPT ![t].timers = @ + Scheduled,
                                ![t].socket = IF @ = c THEN None ELSE @]
  BY DEF Dropped
<1>2. /\ conn'[c].client = "closed" /\ conn'[c].link = "down" /\ conn'[c].wire = conn[c].wire
      /\ \A d \in Connections \ {c} : conn'[d] = conn[d]
  BY <1>0, <1>1 DEF ConnectionType
<1>3. Live(c) /\ page[t].socket = c
  <2>1. conn[c].client \in {"open", "closed"}
    BY <1>0 DEF ConnectionType
  <2>. QED
    BY <1>1, <2>1 DEF ScreenInv, SocketInv, Live
<1>4. page[t].user /\ page[t].timers = 0
  BY <1>1, <1>3 DEF ScreenInv, SocketInv, None, Connections
<1>5. /\ page'[t].user /\ page'[t].socket = None /\ page'[t].timers = 1
      /\ \A u \in Tabs \ {t} : page'[u] = page[u]
  BY <1>0, <1>1, <1>3, <1>4 DEF PageType, Scheduled
<1>6. LinkInv'
  BY <1>1, <1>2 DEF ScreenInv, LinkInv, Live
<1>7. \A d \in Connections : Live(d)' => Live(d) /\ conn'[d] = conn[d] /\ d # c
  BY <1>2 DEF Live
<1>8. SocketInv'
  <2>1. \A d \in Connections : Live(d)' => conn'[d].tab \in Tabs /\ page'[conn'[d].tab].socket = d
    BY <1>3, <1>5, <1>7 DEF ScreenInv, SocketInv
  <2>2. \A u \in Tabs : /\ page'[u].timers \in {0, 1}
                        /\ page'[u].timers = 1 \/ ~page'[u].user => page'[u].socket = None
                        /\ ~page'[u].user => page'[u].timers = 0
    BY <1>5 DEF ScreenInv, SocketInv
  <2>. QED
    BY <2>1, <2>2 DEF SocketInv
<1>9. UNCHANGED <<task, feed>>
  BY DEF Dropped
<1>10. DeliverInv' /\ NoRepeats'
  BY <1>2, <1>7, <1>9, Unmoved, DeliverFrame DEF ScreenInv
<1>. QED
  BY <1>6, <1>8, <1>10 DEF ScreenInv

LEMMA ReceiveStep ==
    ASSUME ScreenInv, TypeOK', NEW t \in Tabs, Receive(t)
    PROVE  ScreenInv'
<1>0. /\ conn \in [Connections -> ConnectionType] /\ feed \in [Tabs -> Seq(Alerts)]
      /\ LinkInv /\ SocketInv /\ DeliverInv /\ NoRepeats
  BY TypeParts DEF ScreenInv
<1>1. PICK c \in Connections :
        /\ conn[c].tab = t /\ conn[c].client = "open" /\ conn[c].link = "up"
        /\ conn[c].wire # << >>
        /\ feed' = [feed EXCEPT ![t] = <<Head(conn[c].wire)>> \o @]
        /\ conn' = [conn EXCEPT ![c].wire = Tail(@), ![c].owed = @ \ {Head(conn[c].wire)}]
  BY DEF Receive
<1> DEFINE a == Head(conn[c].wire)
<1>2. UNCHANGED <<page, task>>
  BY DEF Receive
<1>3. /\ conn'[c].tab = conn[c].tab /\ conn'[c].client = conn[c].client
      /\ conn'[c].link = conn[c].link /\ conn'[c].wire = Tail(conn[c].wire)
      /\ \A d \in Connections \ {c} : conn'[d] = conn[d]
  <2>1. conn[c] \in ConnectionType
    BY <1>0
  <2>2. conn'[c] = [conn[c] EXCEPT !.wire = Tail(conn[c].wire), !.owed = conn[c].owed \ {a}]
    BY <1>0, <1>1, <2>1 DEF ConnectionType
  <2>3. \A d \in Connections \ {c} : conn'[d] = conn[d]
    BY <1>0, <1>1
  <2>. QED
    BY <2>1, <2>2, <2>3 DEF ConnectionType
<1>4. /\ a \in Alerts /\ In(a, conn[c].wire)
      /\ IsInjective(conn'[c].wire) /\ ~In(a, conn'[c].wire)
      /\ \A b : In(b, conn'[c].wire) => In(b, conn[c].wire)
  <2>1. conn[c].wire \in Seq(Alerts) /\ IsInjective(conn[c].wire)
    BY <1>0 DEF ConnectionType, NoRepeats
  <2> DEFINE w == conn[c].wire
  <2>2. w \in Seq(Alerts) /\ IsInjective(w) /\ w # << >> /\ conn'[c].wire = Tail(w)
    BY <1>1, <1>3, <2>1
  <2>. HIDE DEF w
  <2>3. /\ Head(w) \in Alerts /\ In(Head(w), w)
        /\ IsInjective(Tail(w)) /\ ~In(Head(w), Tail(w))
        /\ \A b : In(b, Tail(w)) => In(b, w)
    BY <2>2, TakeFirst
  <2>. QED
    BY <2>2, <2>3 DEF w
<1>5. Begun(a) /\ ~ToCome(a, c) /\ ~In(a, feed[t])
  BY <1>0, <1>1, <1>4 DEF DeliverInv, Live
<1>. HIDE DEF a
<1>6. /\ IsInjective(feed'[t]) /\ \A b : In(b, feed'[t]) => b = a \/ In(b, feed[t])
      /\ \A u \in Tabs \ {t} : feed'[u] = feed[u]
  <2>1. feed'[t] = <<a>> \o feed[t] /\ feed[t] \in Seq(Alerts) /\ IsInjective(feed[t])
    BY <1>0, <1>1 DEF a, NoRepeats
  <2>2. \A u \in Tabs \ {t} : feed'[u] = feed[u]
    BY <1>0, <1>1
  <2>. QED
    BY <1>4, <1>5, <2>1, <2>2, PutInFront
<1>7. /\ \A d \in Connections : Live(d)' <=> Live(d)
      /\ \A d \in Connections : conn'[d].tab = conn[d].tab /\ conn'[d].link = conn[d].link
      /\ \A d \in Connections : \A b : In(b, conn'[d].wire) => In(b, conn[d].wire)
  BY <1>3, <1>4 DEF Live
<1>8. \A b \in Alerts, d \in Connections : ToCome(b, d)' <=> ToCome(b, d)
  BY <1>2 DEF ToCome
<1>9. \A b \in Alerts : Begun(b)' <=> Begun(b)
  BY <1>2 DEF Begun
<1>10. LinkInv'
  BY <1>0, <1>1, <1>3, <1>7 DEF LinkInv, Live
<1>11. SocketInv'
  BY <1>0, <1>2, <1>7 DEF SocketInv
<1>12. DeliverInv'
  <2>1. \A b \in Alerts, d \in Connections : ToCome(b, d)' => task'[b].state = "sending"
    BY <1>0, <1>2, <1>8 DEF DeliverInv
  <2>2. \A b \in Alerts, d \in Connections :
           In(b, conn'[d].wire) => Begun(b)' /\ ~ToCome(b, d)'
    BY <1>0, <1>7, <1>8, <1>9 DEF DeliverInv
  <2>3. ASSUME NEW b \in Alerts, NEW u \in Tabs, In(b, feed'[u])
        PROVE  /\ Begun(b)'
               /\ \A d \in Connections : Live(d)' /\ conn'[d].tab = u =>
                     ~ToCome(b, d)' /\ ~In(b, conn'[d].wire)
    <3>1. CASE In(b, feed[u])
      BY <1>0, <1>7, <1>8, <1>9, <3>1 DEF DeliverInv
    <3>2. CASE ~In(b, feed[u])
      <4>1. u = t /\ b = a
        BY <1>6, <2>3, <3>2
      <4>2. \A d \in Connections : Live(d) /\ conn[d].tab = t => d = c
        BY <1>0, <1>1 DEF SocketInv, Live
      <4>. QED
        BY <1>4, <1>5, <1>7, <1>8, <1>9, <4>1, <4>2
    <3>. QED
      BY <3>1, <3>2
  <2>. QED
    BY <2>1, <2>2, <2>3 DEF DeliverInv
<1>13. NoRepeats'
  BY <1>0, <1>3, <1>4, <1>6 DEF NoRepeats
<1>. QED
  BY <1>10, <1>11, <1>12, <1>13 DEF ScreenInv

\* A task that starts has not sent its alert to anyone.
LEMMA StartStep ==
    ASSUME ScreenInv, TypeOK', NEW a \in Alerts, Start(a)
    PROVE  ScreenInv'
<1>0. /\ task \in [Alerts -> TaskType]
      /\ LinkInv /\ SocketInv /\ DeliverInv /\ NoRepeats
  BY TypeParts DEF ScreenInv
<1>1. UNCHANGED <<page, conn, feed>> /\ task[a].state = "queued"
  BY DEF Start
<1>2. /\ task'[a].state = "sending"
      /\ \A b \in Alerts \ {a} : task'[b] = task[b]
  <2>1. task' = [task EXCEPT ![a] = [task[a] EXCEPT !.state = "sending",
                                        !.left = {c \in connections : conn[c].at = Home}]]
    BY <1>0 DEF Start, TaskType
  <2>. QED
    BY <1>0, <2>1 DEF TaskType
<1>3. \A c \in Connections : ~In(a, conn[c].wire)
  BY <1>0, <1>1 DEF DeliverInv, Begun
<1>4. \A t \in Tabs : ~In(a, feed[t])
  BY <1>0, <1>1 DEF DeliverInv, Begun
<1>5. \A b \in Alerts \ {a} :
         /\ Begun(b)' <=> Begun(b)
         /\ \A c \in Connections : ToCome(b, c)' <=> ToCome(b, c)
  BY <1>2 DEF Begun, ToCome
<1>6. LinkInv' /\ SocketInv' /\ NoRepeats'
  BY <1>0, <1>1 DEF LinkInv, SocketInv, NoRepeats, Live
<1>7. DeliverInv'
  <2>1. \A b \in Alerts, c \in Connections : ToCome(b, c)' => task'[b].state = "sending"
    BY <1>0, <1>2, <1>5 DEF DeliverInv
  <2>2. \A b \in Alerts, c \in Connections :
           In(b, conn'[c].wire) => Begun(b)' /\ ~ToCome(b, c)'
    BY <1>0, <1>1, <1>3, <1>5 DEF DeliverInv
  <2>3. \A b \in Alerts, t \in Tabs : In(b, feed'[t]) =>
           /\ Begun(b)'
           /\ \A c \in Connections : Live(c)' /\ conn'[c].tab = t =>
                 ~ToCome(b, c)' /\ ~In(b, conn'[c].wire)
    BY <1>0, <1>1, <1>4, <1>5 DEF DeliverInv, Live
  <2>. QED
    BY <2>1, <2>2, <2>3 DEF DeliverInv
<1>. QED
  BY <1>6, <1>7 DEF ScreenInv

\* An alert goes out to a connection that neither holds it nor had it shown.
LEMMA SendStep ==
    ASSUME ScreenInv, TypeOK', NEW a \in Alerts, Send(a)
    PROVE  ScreenInv'
<1>0. /\ conn \in [Connections -> ConnectionType] /\ task \in [Alerts -> TaskType]
      /\ LinkInv /\ SocketInv /\ DeliverInv /\ NoRepeats
  BY TypeParts DEF ScreenInv
<1>1. PICK c \in task[a].left :
        \/ /\ conn[c].link # "stalled"
           /\ task' = [task EXCEPT ![a].left = @ \ {c}]
           /\ conn' = IF conn[c].link = "up"
                      THEN [conn EXCEPT ![c].wire = Append(@, a)] ELSE conn
        \/ /\ conn[c].link = "down"
           /\ task' = [task EXCEPT ![a].left = AfterFailure(@, c), ![a].dead = @ \cup {c}]
           /\ UNCHANGED conn
  BY DEF Send
<1>2. UNCHANGED <<page, feed>> /\ task[a].state = "sending" /\ c \in Connections
  BY <1>0 DEF Send, TaskType
<1>3. /\ task'[a].state = "sending" /\ task'[a].left = task[a].left \ {c}
      /\ \A b \in Alerts \ {a} : task'[b] = task[b]
  <2>1. CASE task' = [task EXCEPT ![a].left = @ \ {c}]
    <3>1. task' = [task EXCEPT ![a] = [task[a] EXCEPT !.left = task[a].left \ {c}]]
      BY <1>0, <2>1 DEF TaskType
    <3>. QED
      BY <1>0, <1>2, <3>1 DEF TaskType
  <2>2. CASE task' = [task EXCEPT ![a].left = AfterFailure(@, c), ![a].dead = @ \cup {c}]
    <3>1. task' = [task EXCEPT ![a] = [task[a] EXCEPT !.left = task[a].left \ {c},
                                                      !.dead = task[a].dead \cup {c}]]
      BY <1>0, <2>2 DEF TaskType, AfterFailure
    <3>. QED
      BY <1>0, <1>2, <3>1 DEF TaskType
  <2>. QED
    BY <1>1, <2>1, <2>2
<1>4. /\ \A b \in Alerts : Begun(b)' <=> Begun(b)
      /\ \A b \in Alerts, d \in Connections : ToCome(b, d)' <=> ToCome(b, d) /\ ~(b = a /\ d = c)
  BY <1>2, <1>3 DEF Begun, ToCome
<1>5. CASE conn' = conn
  <2>1. \A b \in Alerts : TaskKept(b)
    BY <1>2, <1>3 DEF TaskKept, Begun
  <2>. QED
    BY <1>2, <1>5, <2>1, Unmoved, ScreenFrame
<1>6. CASE conn[c].link = "up" /\ conn' = [conn EXCEPT ![c].wire = Append(@, a)]
  <2>1. /\ conn'[c].tab = conn[c].tab /\ conn'[c].client = conn[c].client
        /\ conn'[c].link = conn[c].link /\ conn'[c].wire = Append(conn[c].wire, a)
        /\ \A d \in Connections \ {c} : conn'[d] = conn[d]
    <3>1. conn[c] \in ConnectionType
      BY <1>0, <1>2
    <3>2. conn'[c] = [conn[c] EXCEPT !.wire = Append(conn[c].wire, a)]
      BY <1>0, <1>2, <1>6
    <3>3. \A d \in Connections \ {c} : conn'[d] = conn[d]
      BY <1>0, <1>6
    <3>. QED
      BY <3>1, <3>2, <3>3 DEF ConnectionType
  <2>2. Live(c) /\ ToCome(a, c)
    BY <1>0, <1>1, <1>2, <1>6 DEF LinkInv, ToCome
  <2>3. ~In(a, conn[c].wire) /\ \A t \in Tabs : conn[c].tab = t => ~In(a, feed[t])
    BY <1>0, <1>2, <2>2 DEF DeliverInv
  <2>4. /\ IsInjective(conn'[c].wire)
        /\ \A b : In(b, conn'[c].wire) <=> b = a \/ In(b, conn[c].wire)
    <3>1. conn[c].wire \in Seq(Alerts) /\ IsInjective(conn[c].wire)
      BY <1>0, <1>2 DEF ConnectionType, NoRepeats
    <3>. QED
      BY <2>1, <2>3, <3>1, AppendNew
  <2>5. /\ \A d \in Connections : Live(d)' <=> Live(d)
        /\ \A d \in Connections : conn'[d].tab = conn[d].tab /\ conn'[d].link = conn[d].link
        /\ \A d \in Connections : \A b : In(b, conn'[d].wire) =>
              In(b, conn[d].wire) \/ (b = a /\ d = c)
    BY <2>1, <2>4 DEF Live
  <2>6. LinkInv'
    BY <1>0, <1>6, <2>1, <2>5 DEF LinkInv
  <2>7. SocketInv'
    BY <1>0, <1>2, <2>5 DEF SocketInv
  <2>8. DeliverInv'
    <3>1. \A b \in Alerts, d \in Connections : ToCome(b, d)' => task'[b].state = "sending"
      BY <1>0, <1>3, <1>4 DEF DeliverInv
    <3>2. Begun(a)
      BY <1>2 DEF Begun
    <3>3. \A b \in Alerts, d \in Connections :
             In(b, conn'[d].wire) => Begun(b)' /\ ~ToCome(b, d)'
      BY <1>0, <1>4, <2>5, <3>2 DEF DeliverInv
    <3>4. \A b \in Alerts, t \in Tabs : In(b, feed'[t]) =>
             /\ Begun(b)'
             /\ \A d \in Connections : Live(d)' /\ conn'[d].tab = t =>
                   ~ToCome(b, d)' /\ ~In(b, conn'[d].wire)
      <4>1. SUFFICES ASSUME NEW b \in Alerts, NEW t \in Tabs, In(b, feed[t])
                     PROVE  /\ Begun(b)
                            /\ \A d \in Connections : Live(d) /\ conn[d].tab = t =>
                                  ~ToCome(b, d) /\ ~In(b, conn'[d].wire)
        BY <1>2, <1>4, <2>5
      <4>2. /\ Begun(b)
            /\ \A d \in Connections : Live(d) /\ conn[d].tab = t =>
                  ~ToCome(b, d) /\ ~In(b, conn[d].wire)
        BY <1>0, <4>1 DEF DeliverInv
      <4>. QED
        BY <2>3, <2>5, <4>1, <4>2
    <3>. QED
      BY <3>1, <3>3, <3>4 DEF DeliverInv
  <2>9. NoRepeats'
    BY <1>0, <1>2, <2>1, <2>4 DEF NoRepeats
  <2>. QED
    BY <2>6, <2>7, <2>8, <2>9 DEF ScreenInv
<1>. QED
  BY <1>1, <1>5, <1>6

LEMMA ScreenInit == Init => ScreenInv
<1> SUFFICES ASSUME Init
             PROVE  ScreenInv
  OBVIOUS
<1>1. TypeOK
  BY TypeInit
<1>2. LinkInv /\ SocketInv
  BY DEF Init, LinkInv, SocketInv, Live, Closed, LoggedOut
<1>3. \A a \in Alerts, c \in Connections : ~ToCome(a, c)
  BY DEF Init, ToCome, NoTask
<1>4. /\ \A c \in Connections : conn[c].wire = << >>
      /\ \A t \in Tabs : feed[t] = << >>
  BY DEF Init, Closed
<1>5. DeliverInv /\ NoRepeats
  BY <1>3, <1>4, EmptySequence DEF DeliverInv, NoRepeats
<1>. QED
  BY <1>1, <1>2, <1>5 DEF ScreenInv

LEMMA PageScreen ==
    ASSUME ScreenInv, TypeOK', NEW t \in Tabs,
           SignIn(t) \/ Logout(t) \/ Refresh(t) \/ Callback(t) \/ Answer(t)
    PROVE  ScreenInv'
<1>0. TypeOK /\ page \in [Tabs -> PageType] /\ page[t] \in PageType
  BY TypeParts DEF ScreenInv
<1>1. CASE SignIn(t)
  <2>1. page[t].socket = None /\ page[t].timers = 0
    BY <1>1 DEF SignIn, ScreenInv, SocketInv
  <2>2. PICK c \in Vacant : Open(t, [page[t] EXCEPT !.user = TRUE], store', c)
    BY <1>1 DEF SignIn
  <2> DEFINE p == [page[t] EXCEPT !.user = TRUE]
  <2>3. p \in PageType /\ p.user /\ p.socket = None /\ p.timers = 0
    BY <1>0, <2>1 DEF PageType
  <2>4. UNCHANGED <<task, feed>>
    BY <1>1 DEF SignIn
  <2>. HIDE DEF p
  <2>5. Open(t, p, store', c)
    BY <2>2 DEF p
  <2>. QED
    BY <2>1, <2>3, <2>4, <2>5, Opened
<1>2. CASE Retry(t)
  <2>1. page[t].timers = 1 /\ page[t].socket = None /\ page[t].user
    <3>1. page[t].timers \in {0, 1} /\ page[t].timers > 0
      BY <1>2 DEF Retry, ScreenInv, SocketInv
    <3>2. page[t].timers = 1
      BY <3>1
    <3>3. page[t].user \in BOOLEAN
      BY <1>0 DEF PageType
    <3>. QED
      BY <3>2, <3>3 DEF ScreenInv, SocketInv
  <2>2. PICK c \in Vacant : Open(t, [page[t] EXCEPT !.timers = @ - 1], store, c)
    BY <1>2 DEF Retry
  <2> DEFINE p == [page[t] EXCEPT !.timers = 0]
  <2>3. p \in PageType /\ p.user /\ p.socket = None /\ p.timers = 0
    BY <1>0, <2>1 DEF PageType
  <2>4. UNCHANGED <<task, feed>>
    BY <1>2 DEF Retry
  <2>5. [page[t] EXCEPT !.timers = @ - 1] = p
    BY <1>0, <2>1 DEF PageType
  <2>. HIDE DEF p
  <2>6. Open(t, p, store, c)
    BY <2>2, <2>5
  <2>. QED
    BY <2>1, <2>3, <2>4, <2>6, Opened
<1>3. CASE Logout(t)
  BY <1>3, Left DEF Logout
<1>4. CASE SessionExpired(t)
  BY <1>4, Left DEF SessionExpired
<1>5. CASE Refresh(t) \/ Rotate(t) \/ Granted(t)
  BY <1>0, <1>5, QuietPages, Unmoved, ScreenFrame
<1>. QED
  BY <1>1, <1>2, <1>3, <1>4, <1>5, ReceiveStep, DroppedStep DEF Callback, Answer

LEMMA ScreenStep == ScreenInv /\ [Next]_vars => ScreenInv'
<1> SUFFICES ASSUME ScreenInv, [Next]_vars
             PROVE  ScreenInv'
  OBVIOUS
<1>0. TypeOK /\ TypeOK'
  BY TypeStep DEF ScreenInv
<1>1. ASSUME NEW c \in Connections, Serve(c) \/ Cut(c) \/ Stall(c) \/ Unstall(c)
      PROVE  ScreenInv'
  BY <1>0, <1>1, QuietConnections, Unmoved, ScreenFrame
<1>2. ASSUME NEW a \in Alerts, Publish(a) \/ Broadcast(a)
      PROVE  ScreenInv'
  <2>1. CASE Publish(a)
    BY <1>0, <2>1, QuietTasks, Unmoved, ScreenFrame
  <2>2. CASE Finish(a)
    BY <1>0, <2>2, QuietTasks, Unmoved, ScreenFrame
  <2>. QED
    BY <1>0, <1>2, <2>1, <2>2, StartStep, SendStep DEF Broadcast
<1>3. ASSUME NEW p \in Processes, Restart(p)
      PROVE  ScreenInv'
  BY <1>0, <1>3, QuietRestart, Unmoved, ScreenFrame
<1>4. CASE Expire
  BY <1>0, <1>4, Unmoved, ScreenFrame DEF Expire
<1>5. CASE UNCHANGED vars
  BY <1>0, <1>5, Unmoved, ScreenFrame DEF vars
<1>. QED
  BY <1>0, <1>1, <1>2, <1>3, <1>4, <1>5, PageScreen DEF Next

\* A page that reconnects while broadcasts are under way, or whose connection
\* breaks during one, has no alert twice in its feed (broadcaster.py, ws_manager.py
\* and the reconnect timer of websocket.js).
THEOREM NothingShownTwiceHolds == Spec => []NothingShownTwice
<1>1. ScreenInv => NothingShownTwice
  BY DEF ScreenInv, NoRepeats, NothingShownTwice
<1>. QED
  BY <1>1, ScreenInit, ScreenStep, PTL DEF Spec

-----------------------------------------------------------------------------
(* Nothing that is owed is forgotten                                       *)

\* An alert that a page was owed when it was published, and that it has not
\* shown, waits for its broadcast to start, is still to be sent to that
\* connection, or is on its wire.
OwedIsOnItsWay ==
    \A c \in Connections : \A a \in conn[c].owed :
        \/ task[a].state = "queued" /\ c \in connections
        \/ ToCome(a, c)
        \/ In(a, conn[c].wire)

DebtInv ==
    /\ \A c \in Connections : conn[c].link = "down" => conn[c].owed = {}
    /\ \A c \in Connections : conn[c].owed # {} => conn[c].at = Home
    /\ \A a \in Alerts, c \in Connections : c \in task[a].dead => conn[c].link = "down"
    /\ OwedIsOnItsWay

\* The set of a process holds the connections its routes serve, except those
\* that a broadcast found dead.
RegisteredInv ==
    \A c \in Connections :
        /\ c \in connections => conn[c].handler = "serving"
        /\ conn[c].handler = "serving" /\ conn[c].link # "down" => c \in connections

\* What a step may do to a connection without breaking DebtInv: keep what is on
\* its way, take its link down, or give its number to another connection.
Steady(c) ==
    /\ conn'[c].at = conn[c].at
    /\ conn'[c].owed = conn[c].owed
    /\ conn'[c].wire = conn[c].wire
    /\ conn'[c].link = "down" <=> conn[c].link = "down"

Gone(c) == conn'[c].owed = {} /\ conn'[c].link = "down"

Anew(c) == conn'[c].owed = {} /\ \A a \in Alerts : c \notin task[a].dead

LEMMA AppendKeeps ==
    ASSUME NEW S, NEW s \in Seq(S), NEW a
    PROVE  In(a, Append(s, a)) /\ \A b : In(b, s) => In(b, Append(s, a))
<1>1. /\ Len(s) \in Nat /\ DOMAIN s = 1..Len(s)
      /\ DOMAIN Append(s, a) = 1..(Len(s) + 1)
      /\ \A i \in 1..Len(s) : Append(s, a)[i] = s[i]
      /\ Append(s, a)[Len(s) + 1] = a
  OBVIOUS
<1>2. Len(s) + 1 \in 1..(Len(s) + 1) /\ \A i \in 1..Len(s) : i \in 1..(Len(s) + 1)
  BY <1>1
<1>. QED
  BY <1>1, <1>2 DEF In

LEMMA DebtFrame ==
    ASSUME DebtInv, UNCHANGED task,
           \A c \in Connections : Steady(c) \/ Gone(c) \/ Anew(c),
           \A c \in connections : Steady(c) /\ conn'[c].link # "down" => c \in connections'
    PROVE  DebtInv'
<1>1. \A c \in Connections : conn'[c].link = "down" => conn'[c].owed = {}
  BY DEF DebtInv, Steady, Gone, Anew
<1>2. \A c \in Connections : conn'[c].owed # {} => Steady(c) /\ conn[c].owed # {}
  BY DEF Steady, Gone, Anew
<1>3. \A c \in Connections : conn'[c].owed # {} => conn'[c].at = Home
  BY <1>2 DEF DebtInv, Steady
<1>4. \A a \in Alerts, c \in Connections : c \in task'[a].dead => conn'[c].link = "down"
  BY DEF DebtInv, Steady, Gone, Anew
<1>5. OwedIsOnItsWay'
  <2>1. SUFFICES ASSUME NEW c \in Connections, NEW a \in conn'[c].owed
                 PROVE  \/ task'[a].state = "queued" /\ c \in connections'
                        \/ ToCome(a, c)'
                        \/ In(a, conn'[c].wire)
    BY DEF OwedIsOnItsWay
  <2>2. Steady(c) /\ a \in conn[c].owed /\ conn'[c].link # "down"
    BY <1>1, <1>2, <2>1 DEF Steady
  <2>3. \/ task[a].state = "queued" /\ c \in connections
        \/ ToCome(a, c)
        \/ In(a, conn[c].wire)
    BY <2>2 DEF DebtInv, OwedIsOnItsWay
  <2>. QED
    BY <2>2, <2>3 DEF Steady, ToCome
<1>. QED
  BY <1>1, <1>3, <1>4, <1>5 DEF DebtInv

\* What the operations on one end of a connection leave of it.
LEMMA Ends ==
    ASSUME NEW k \in ConnectionType
    PROVE  /\ Down(k).owed = {} /\ Down(k).link = "down" /\ Down(k).handler = k.handler
           /\ Down(k).at = k.at
           /\ \A h : LET m == [k EXCEPT !.handler = h]
                     IN  /\ m.owed = k.owed /\ m.link = k.link /\ m.wire = k.wire
                         /\ m.at = k.at /\ m.handler = h
           /\ \A h : LET m == [k EXCEPT !.client = h]
                     IN  /\ m.owed = k.owed /\ m.link = k.link /\ m.wire = k.wire
                         /\ m.at = k.at /\ m.handler = k.handler
           /\ \A h : LET m == [k EXCEPT !.link = h]
                     IN  /\ m.owed = k.owed /\ m.link = h /\ m.wire = k.wire
                         /\ m.at = k.at /\ m.handler = k.handler
<1>1. /\ Down(k).owed = {} /\ Down(k).link = "down" /\ Down(k).handler = k.handler
      /\ Down(k).at = k.at
  BY DEF Down, ConnectionType
<1>2. ASSUME NEW h
      PROVE  LET m == [k EXCEPT !.handler = h]
             IN  /\ m.owed = k.owed /\ m.link = k.link /\ m.wire = k.wire
                 /\ m.at = k.at /\ m.handler = h
  BY DEF ConnectionType
<1>3. ASSUME NEW h
      PROVE  LET m == [k EXCEPT !.client = h]
             IN  /\ m.owed = k.owed /\ m.link = k.link /\ m.wire = k.wire
                 /\ m.at = k.at /\ m.handler = k.handler
  BY DEF ConnectionType
<1>4. ASSUME NEW h
      PROVE  LET m == [k EXCEPT !.link = h]
             IN  /\ m.owed = k.owed /\ m.link = h /\ m.wire = k.wire
                 /\ m.at = k.at /\ m.handler = k.handler
  BY DEF ConnectionType
<1>. QED
  BY <1>1, <1>2, <1>3, <1>4

\* A page opens a socket with a number that nothing refers to.
LEMMA OpenEffect ==
    ASSUME TypeOK, NEW t, NEW p, NEW token, NEW c \in Vacant, Open(t, p, token, c)
    PROVE  /\ \A d \in Connections \ {c} : conn'[d] = conn[d]
           /\ \/ conn'[c] = conn[c]
              \/ Anew(c) /\ conn'[c].handler = "checking" /\ c \notin connections
<1>0. conn \in [Connections -> ConnectionType] /\ c \in Connections /\ Free(c)
  BY TypeParts DEF Vacant
<1>1. CASE token = None
  BY <1>1 DEF Open
<1>2. CASE token # None
  <2>1. PICK at \in Processes :
          /\ page' = [page EXCEPT ![t] = [p EXCEPT !.socket = c]]
          /\ conn' = [conn EXCEPT ![c] = [Closed EXCEPT
                         !.tab = t, !.at = at, !.token = token, !.client = "open",
                         !.link = "up", !.handler = "checking"]]
    BY <1>2, Zenon DEF Open
  <2>2. /\ conn'[c].owed = {} /\ conn'[c].handler = "checking"
        /\ \A d \in Connections \ {c} : conn'[d] = conn[d]
    BY <1>0, <2>1 DEF Closed
  <2>. QED
    BY <1>0, <2>2 DEF Anew, Free
<1>. QED
  BY <1>1, <1>2

\* What a page does to its connections; only to show an alert takes one off.
LEMMA PageEffect ==
    ASSUME TypeOK, NEW t \in Tabs,
           SignIn(t) \/ Logout(t) \/ Refresh(t) \/ Dropped(t) \/ Retry(t) \/ Answer(t)
    PROVE  /\ UNCHANGED <<task, connections>>
           /\ \A c \in Connections :
                 \/ Steady(c) /\ conn'[c].handler = conn[c].handler
                 \/ Gone(c) /\ conn'[c].handler = conn[c].handler
                 \/ Anew(c) /\ conn'[c].handler = "checking" /\ c \notin connections
<1>0. conn \in [Connections -> ConnectionType]
  BY TypeParts
<1>1. UNCHANGED <<task, connections>>
  BY DEF SignIn, Logout, Refresh, Dropped, Retry, Answer, Rotate, Granted, SessionExpired
<1>2. \A c \in Connections : conn'[c] = conn[c] => Steady(c) /\ conn'[c].handler = conn[c].handler
  BY DEF Steady
<1>3. CASE SignIn(t)
  <2>1. PICK c \in Vacant : Open(t, [page[t] EXCEPT !.user = TRUE], store', c)
    BY <1>3 DEF SignIn
  <2>. QED
    BY <1>1, <1>2, <2>1, OpenEffect
<1>4. CASE Retry(t)
  <2>1. PICK c \in Vacant : Open(t, [page[t] EXCEPT !.timers = @ - 1], store, c)
    BY <1>4 DEF Retry
  <2>. QED
    BY <1>1, <1>2, <2>1, OpenEffect
<1>5. CASE Leave(t)
  <2>1. ASSUME NEW c \in Connections, c = page[t].socket
        PROVE  Gone(c) /\ conn'[c].handler = conn[c].handler
    <3>1. conn'[c] = [Down(conn[c]) EXCEPT !.client = "closed"]
      BY <1>0, <1>5, <2>1 DEF Leave
    <3>2. conn[c] \in ConnectionType /\ Down(conn[c]) \in ConnectionType
      BY <1>0, ConnectionTypes
    <3>3. /\ conn'[c].owed = Down(conn[c]).owed /\ conn'[c].link = Down(conn[c]).link
          /\ conn'[c].handler = Down(conn[c]).handler
      BY <3>1, <3>2, Ends
    <3>. QED
      BY <3>2, <3>3, Ends DEF Gone
  <2>2. ASSUME NEW c \in Connections, c # page[t].socket
        PROVE  conn'[c] = conn[c]
    BY <1>0, <1>5, <2>2 DEF Leave
  <2>. QED
    BY <1>1, <1>2, <2>1, <2>2
<1>6. CASE Dropped(t)
  <2>1. PICK c \in Connections : conn' = [conn EXCEPT ![c].client = "closed"]
    BY <1>6 DEF Dropped
  <2>2. conn'[c] = [conn[c] EXCEPT !.client = "closed"] /\ conn[c] \in ConnectionType
    BY <1>0, <2>1
  <2>3. Steady(c) /\ conn'[c].handler = conn[c].handler
    BY <2>2, Ends DEF Steady
  <2>4. \A d \in Connections \ {c} : conn'[d] = conn[d]
    BY <1>0, <2>1
  <2>. QED
    BY <1>1, <1>2, <2>3, <2>4
<1>7. CASE UNCHANGED conn
  BY <1>1, <1>2, <1>7
<1>. QED
  BY <1>3, <1>4, <1>5, <1>6, <1>7 DEF Logout, SessionExpired, Answer, Refresh, Rotate, Granted

LEMMA ServeEffect ==
    ASSUME TypeOK, NEW c \in Connections, Serve(c) \/ Cut(c) \/ Stall(c) \/ Unstall(c)
    PROVE  /\ UNCHANGED task
           /\ \A d \in Connections \ {c} : conn'[d] = conn[d]
           /\ Steady(c) \/ Gone(c)
           /\ \/ /\ UNCHANGED connections
                 /\ conn'[c].handler = conn[c].handler
              \/ /\ UNCHANGED connections
                 /\ conn[c].handler = "checking" /\ conn'[c].handler # "serving"
              \/ connections' = connections \cup {c} /\ conn'[c].handler = "serving"
              \/ /\ connections' = connections \ {c} /\ conn'[c].handler = "ended"
                 /\ conn[c].link = "down"
<1>0. conn \in [Connections -> ConnectionType] /\ conn[c] \in ConnectionType
  BY TypeParts
<1>1. CASE Reject(c)
  <2>1. conn'[c] = [Down(conn[c]) EXCEPT !.handler = "ended"] /\ Down(conn[c]) \in ConnectionType
    BY <1>0, <1>1, ConnectionTypes DEF Reject
  <2>2. conn'[c].owed = {} /\ conn'[c].link = "down" /\ conn'[c].handler = "ended"
    BY <1>0, <2>1, Ends
  <2>. QED
    BY <1>0, <1>1, <2>2 DEF Reject, Gone
<1>2. CASE Accept(c)
  <2> DEFINE h == IF conn[c].link = "down" THEN "ended" ELSE "accepted"
  <2>1. conn' = [conn EXCEPT ![c].handler = h]
    BY <1>2 DEF Accept
  <2>2. h # "serving"
    OBVIOUS
  <2>. HIDE DEF h
  <2>3. conn'[c] = [conn[c] EXCEPT !.handler = h]
    BY <1>0, <2>1
  <2>4. Steady(c) /\ conn'[c].handler = h
    BY <1>0, <2>3, Ends DEF Steady
  <2>. QED
    BY <1>0, <1>2, <2>1, <2>2, <2>4 DEF Accept
<1>3. CASE Register(c)
  <2>1. conn'[c] = [conn[c] EXCEPT !.handler = "serving"]
    BY <1>0, <1>3 DEF Register
  <2>2. Steady(c) /\ conn'[c].handler = "serving"
    BY <1>0, <2>1, Ends DEF Steady
  <2>. QED
    BY <1>0, <1>3, <2>2 DEF Register
<1>4. CASE Disconnect(c)
  <2>1. conn'[c] = [conn[c] EXCEPT !.handler = "ended"]
    BY <1>0, <1>4 DEF Disconnect
  <2>2. Steady(c) /\ conn'[c].handler = "ended"
    BY <1>0, <2>1, Ends DEF Steady
  <2>. QED
    BY <1>0, <1>4, <2>2 DEF Disconnect, Remaining
<1>5. CASE Cut(c)
  <2>1. conn'[c] = Down(conn[c]) /\ \A d \in Connections \ {c} : conn'[d] = conn[d]
    BY <1>0, <1>5 DEF Cut
  <2>2. Gone(c) /\ conn'[c].handler = conn[c].handler
    BY <1>0, <2>1, Ends DEF Gone
  <2>. QED
    BY <1>5, <2>1, <2>2 DEF Cut
<1>6. CASE Stall(c)
  <2>1. conn'[c] = [conn[c] EXCEPT !.link = "stalled"] /\ conn[c].link # "down"
    BY <1>0, <1>6 DEF Stall
  <2>2. Steady(c) /\ conn'[c].handler = conn[c].handler
    BY <1>0, <2>1, Ends DEF Steady
  <2>. QED
    BY <1>0, <1>6, <2>2 DEF Stall
<1>7. CASE Unstall(c)
  <2>1. PICK k \in {[conn[c] EXCEPT !.link = "up"], Down(conn[c])} : conn' = [conn EXCEPT ![c] = k]
    BY <1>7 DEF Unstall
  <2>2. /\ conn'[c] = [conn[c] EXCEPT !.link = "up"] \/ conn'[c] = Down(conn[c])
        /\ \A d \in Connections \ {c} : conn'[d] = conn[d]
    BY <1>0, <2>1
  <2>3. conn[c].link # "down"
    BY <1>7 DEF Unstall
  <2>4. (Steady(c) \/ Gone(c)) /\ conn'[c].handler = conn[c].handler
    <3>1. CASE conn'[c] = [conn[c] EXCEPT !.link = "up"]
      BY <1>0, <2>3, <3>1, Ends DEF Steady
    <3>2. CASE conn'[c] = Down(conn[c])
      BY <1>0, <3>2, Ends DEF Gone
    <3>. QED
      BY <2>2, <3>1, <3>2
  <2>. QED
    BY <1>7, <2>2, <2>4 DEF Unstall
<1>. QED
  BY <1>1, <1>2, <1>3, <1>4, <1>5, <1>6, <1>7 DEF Serve

LEMMA ServeDebt ==
    ASSUME TypeOK, DebtInv, NEW c \in Connections,
           Serve(c) \/ Cut(c) \/ Stall(c) \/ Unstall(c)
    PROVE  DebtInv'
<1>1. \A d \in Connections : Steady(d) \/ Gone(d)
  BY ServeEffect DEF Steady
<1>2. \A d \in connections : Steady(d) /\ conn'[d].link # "down" => d \in connections'
  BY ServeEffect DEF Steady
<1>. QED
  BY <1>1, <1>2, ServeEffect, DebtFrame

LEMMA RestartEffect ==
    ASSUME TypeOK, NEW p \in Processes, Restart(p)
    PROVE  /\ \A c \in Connections : IF conn[c].at = p
                                     THEN Gone(c) /\ conn'[c].handler = "ended"
                                     ELSE conn'[c] = conn[c]
           /\ connections' = {c \in connections : conn[c].at # p}
           /\ \A a \in Alerts : task'[a] = task[a] \/ (p = Home /\ task'[a].dead = {})
<1>0. conn \in [Connections -> ConnectionType] /\ task \in [Alerts -> TaskType]
  BY TypeParts
<1>1. ASSUME NEW c \in Connections, conn[c].at = p
      PROVE  Gone(c) /\ conn'[c].handler = "ended"
  <2>1. conn'[c] = [Down(conn[c]) EXCEPT !.handler = "ended"]
    BY <1>0, <1>1 DEF Restart
  <2>2. conn[c] \in ConnectionType /\ Down(conn[c]) \in ConnectionType
    BY <1>0, ConnectionTypes
  <2>. QED
    BY <2>1, <2>2, Ends DEF Gone
<1>2. \A c \in Connections : conn[c].at # p => conn'[c] = conn[c]
  BY <1>0 DEF Restart
<1>3. ASSUME NEW a \in Alerts
      PROVE  task'[a] = task[a] \/ (p = Home /\ task'[a].dead = {})
  <2>1. /\ p = Home /\ task[a].state # "none" => task'[a] = [NoTask EXCEPT !.state = "ended"]
        /\ ~(p = Home /\ task[a].state # "none") => task'[a] = task[a]
    BY DEF Restart
  <2>2. [NoTask EXCEPT !.state = "ended"].dead = {}
    BY DEF NoTask
  <2>3. CASE p = Home /\ task[a].state # "none"
    <3>1. task'[a] = [NoTask EXCEPT !.state = "ended"]
      BY <2>1, <2>3
    <3>. QED
      BY <2>2, <2>3, <3>1
  <2>4. CASE ~(p = Home /\ task[a].state # "none")
    BY <2>1, <2>4
  <2>. QED
    BY <2>3, <2>4
<1>. QED
  BY <1>1, <1>2, <1>3 DEF Restart

\* A process takes its tasks with it, and all that was owed by them.
LEMMA RestartDebt ==
    ASSUME TypeOK, DebtInv, NEW p \in Processes, Restart(p)
    PROVE  DebtInv'
<1>1. \A c \in Connections : conn'[c].link = "down" => conn'[c].owed = {}
  BY RestartEffect DEF DebtInv, Gone
<1>2. \A c \in Connections : conn'[c].owed # {} =>
         conn'[c] = conn[c] /\ conn[c].at = Home /\ p # Home
  BY RestartEffect DEF DebtInv, Gone
<1>3. \A a \in Alerts, c \in Connections : c \in task'[a].dead => conn'[c].link = "down"
  BY RestartEffect DEF DebtInv, Gone
<1>4. OwedIsOnItsWay'
  <2>1. SUFFICES ASSUME NEW c \in Connections, NEW a \in conn'[c].owed
                 PROVE  \/ task'[a].state = "queued" /\ c \in connections'
                        \/ ToCome(a, c)'
                        \/ In(a, conn'[c].wire)
    BY DEF OwedIsOnItsWay
  <2>2. conn'[c] = conn[c] /\ conn[c].at # p /\ a \in conn[c].owed /\ p # Home
    BY <1>2, <2>1
  <2>3. a \in Alerts
    BY <2>2, TypeParts DEF ConnectionType
  <2>4. \/ task[a].state = "queued" /\ c \in connections
        \/ ToCome(a, c)
        \/ In(a, conn[c].wire)
    BY <2>2 DEF DebtInv, OwedIsOnItsWay
  <2>5. task'[a] = task[a]
    BY <2>2, <2>3, RestartEffect
  <2>. QED
    BY <2>2, <2>4, <2>5, RestartEffect DEF ToCome
<1>. QED
  BY <1>1, <1>2, <1>3, <1>4 DEF DebtInv

\* What is shown is no longer owed, whatever else is on the wire stays there.
LEMMA ReceiveDebt ==
    ASSUME TypeOK, DebtInv, NEW t \in Tabs, Receive(t)
    PROVE  DebtInv'
<1>0. conn \in [Connections -> ConnectionType]
  BY TypeParts
<1>1. PICK c \in Connections :
        /\ conn[c].link = "up" /\ conn[c].wire # << >>
        /\ feed' = [feed EXCEPT ![t] = <<Head(conn[c].wire)>> \o @]
        /\ conn' = [conn EXCEPT ![c].wire = Tail(@), ![c].owed = @ \ {Head(conn[c].wire)}]
  BY DEF Receive
<1>2. UNCHANGED <<task, connections>>
  BY DEF Receive
<1> DEFINE w == conn[c].wire
<1>3. /\ conn'[c].at = conn[c].at /\ conn'[c].link = conn[c].link
      /\ conn'[c].wire = Tail(w) /\ conn'[c].owed = conn[c].owed \ {Head(w)}
      /\ \A d \in Connections \ {c} : conn'[d] = conn[d]
  <2>1. conn[c] \in ConnectionType
    BY <1>0
  <2>2. conn'[c] = [conn[c] EXCEPT !.wire = Tail(w), !.owed = conn[c].owed \ {Head(w)}]
    BY <1>0, <1>1, <2>1 DEF ConnectionType
  <2>3. \A d \in Connections \ {c} : conn'[d] = conn[d]
    BY <1>0, <1>1
  <2>. QED
    BY <2>1, <2>2, <2>3 DEF ConnectionType
<1>4. \A a : In(a, w) => a = Head(w) \/ In(a, Tail(w))
  <2>1. w \in Seq(Alerts) /\ w # << >>
    BY <1>0, <1>1 DEF ConnectionType
  <2>. HIDE DEF w
  <2>2. /\ Len(w) \in Nat /\ DOMAIN w = 1..Len(w) /\ Head(w) = w[1]
        /\ Tail(w) \in Seq(Alerts) /\ Len(Tail(w)) = Len(w) - 1
        /\ \A i \in 1..Len(Tail(w)) : Tail(w)[i] = w[i + 1]
        /\ DOMAIN Tail(w) = 1..Len(Tail(w))
    BY <2>1, HeadTailProperties, LenProperties
  <2>3. ASSUME NEW i \in 1..Len(w), i # 1
        PROVE  i - 1 \in 1..Len(Tail(w)) /\ (i - 1) + 1 = i
    BY <2>2, <2>3
  <2>4. \A i \in DOMAIN w : i = 1 \/ (i - 1 \in DOMAIN Tail(w) /\ Tail(w)[i - 1] = w[i])
    BY <2>2, <2>3
  <2>. QED
    BY <2>2, <2>4 DEF In
<1>. HIDE DEF w
<1>5. OwedIsOnItsWay'
  <2>1. SUFFICES ASSUME NEW d \in Connections, NEW a \in conn'[d].owed
                 PROVE  \/ task'[a].state = "queued" /\ d \in connections'
                        \/ ToCome(a, d)'
                        \/ In(a, conn'[d].wire)
    BY DEF OwedIsOnItsWay
  <2>2. a \in conn[d].owed
    BY <1>3, <2>1
  <2>3. \/ task[a].state = "queued" /\ d \in connections
        \/ ToCome(a, d)
        \/ In(a, conn[d].wire)
    BY <2>2 DEF DebtInv, OwedIsOnItsWay
  <2>4. In(a, conn[d].wire) => In(a, conn'[d].wire)
    BY <1>3, <1>4, <2>1 DEF w
  <2>. QED
    BY <1>2, <2>3, <2>4 DEF ToCome
<1>6. \A d \in Connections : conn'[d].link = conn[d].link /\ conn'[d].at = conn[d].at
  BY <1>3
<1>7. \A d \in Connections : conn[d].owed = {} => conn'[d].owed = {}
  BY <1>3
<1>8. /\ \A d \in Connections : conn'[d].link = "down" => conn'[d].owed = {}
      /\ \A d \in Connections : conn'[d].owed # {} => conn'[d].at = Home
      /\ \A a \in Alerts, d \in Connections : d \in task'[a].dead => conn'[d].link = "down"
  BY <1>2, <1>6, <1>7 DEF DebtInv
<1>. QED
  BY <1>5, <1>8 DEF DebtInv

\* Those that are owed an alert are in the set when its broadcast is queued.
LEMMA PublishDebt ==
    ASSUME TypeOK, DebtInv, NEW a \in Alerts, Publish(a)
    PROVE  DebtInv'
<1>0. conn \in [Connections -> ConnectionType] /\ task \in [Alerts -> TaskType]
  BY TypeParts
<1> DEFINE Owed(c) == c \in connections /\ conn[c].at = Home /\ conn[c].link # "down"
<1>1. ASSUME NEW c \in Connections
      PROVE  /\ conn'[c].at = conn[c].at /\ conn'[c].link = conn[c].link
             /\ conn'[c].wire = conn[c].wire
             /\ conn'[c].owed = IF Owed(c) THEN conn[c].owed \cup {a} ELSE conn[c].owed
  <2>1. conn[c] \in ConnectionType
    BY <1>0
  <2>2. conn'[c] = IF Owed(c) THEN [conn[c] EXCEPT !.owed = conn[c].owed \cup {a}] ELSE conn[c]
    BY <1>0, <2>1 DEF Publish, ConnectionType
  <2>. QED
    BY <2>1, <2>2 DEF ConnectionType
<1>2. /\ task'[a].state = "queued" /\ task[a].state = "none"
      /\ \A b \in Alerts : task'[b].left = task[b].left /\ task'[b].dead = task[b].dead
      /\ \A b \in Alerts \ {a} : task'[b] = task[b]
  <2>1. task' = [task EXCEPT ![a] = [task[a] EXCEPT !.state = "queued"]] /\ task[a].state = "none"
    BY <1>0 DEF Publish
  <2>2. task[a] \in TaskType
    BY <1>0
  <2>. QED
    BY <1>0, <2>1, <2>2 DEF TaskType
<1>3. UNCHANGED connections
  BY DEF Publish
<1>4. /\ \A c \in Connections : conn'[c].link = "down" => conn'[c].owed = {}
      /\ \A c \in Connections : conn'[c].owed # {} => conn'[c].at = Home
      /\ \A b \in Alerts, c \in Connections : c \in task'[b].dead => conn'[c].link = "down"
  <2>1. \A c \in Connections : conn'[c].link = "down" => conn'[c].owed = {}
    BY <1>1 DEF DebtInv
  <2>2. \A c \in Connections : conn'[c].owed # {} => conn'[c].at = Home
    BY <1>1 DEF DebtInv
  <2>3. \A b \in Alerts, c \in Connections : c \in task'[b].dead => conn'[c].link = "down"
    BY <1>1, <1>2 DEF DebtInv
  <2>. QED
    BY <2>1, <2>2, <2>3
<1>5. OwedIsOnItsWay'
  <2>1. SUFFICES ASSUME NEW c \in Connections, NEW b \in conn'[c].owed
                 PROVE  \/ task'[b].state = "queued" /\ c \in connections'
                        \/ ToCome(b, c)'
                        \/ In(b, conn'[c].wire)
    BY DEF OwedIsOnItsWay
  <2>2. b \in conn[c].owed \/ (b = a /\ c \in connections)
    <3>1. CASE Owed(c)
      <4>1. conn'[c].owed = conn[c].owed \cup {a}
        BY <1>1, <3>1
      <4>. QED
        BY <2>1, <3>1, <4>1
    <3>2. CASE ~Owed(c)
      <4>1. conn'[c].owed = conn[c].owed
        BY <1>1, <3>2
      <4>2. b \in conn'[c].owed
        OBVIOUS
      <4>3. b \in conn[c].owed
        BY <4>1, <4>2, Zenon
      <4>. QED
        BY <4>3
    <3>. QED
      BY <3>1, <3>2
  <2>3. CASE b = a /\ c \in connections
    BY <1>2, <1>3, <2>3
  <2>4. CASE b \in conn[c].owed
    <3>1. b \in Alerts
      BY <1>0, <2>4 DEF ConnectionType
    <3>2. \/ task[b].state = "queued" /\ c \in connections
          \/ ToCome(b, c)
          \/ In(b, conn[c].wire)
      BY <2>4 DEF DebtInv, OwedIsOnItsWay
    <3>3. task[b].state = "queued" => task'[b].state = "queued"
      BY <1>2, <3>1
    <3>4. ToCome(b, c) => ToCome(b, c)'
      BY <1>2, <3>1 DEF ToCome
    <3>. QED
      BY <1>1, <1>3, <3>2, <3>3, <3>4
  <2>. QED
    BY <2>2, <2>3, <2>4
<1>. QED
  BY <1>4, <1>5 DEF DebtInv

\* They still are when it starts, so that it copies them.
LEMMA StartDebt ==
    ASSUME TypeOK, DeliverInv, DebtInv, NEW a \in Alerts, Start(a)
    PROVE  DebtInv'
<1>0. conn \in [Connections -> ConnectionType] /\ task \in [Alerts -> TaskType]
  BY TypeParts
<1>1. UNCHANGED <<conn, connections>> /\ task[a].state = "queued"
  BY DEF Start
<1>2. /\ task'[a].left = {c \in connections : conn[c].at = Home}
      /\ task'[a].dead = task[a].dead
      /\ \A b \in Alerts \ {a} : task'[b] = task[b]
  <2>1. task' = [task EXCEPT ![a] = [task[a] EXCEPT !.state = "sending",
                                        !.left = {c \in connections : conn[c].at = Home}]]
    BY <1>0 DEF Start, TaskType
  <2>. QED
    BY <1>0, <2>1 DEF TaskType
<1>3. OwedIsOnItsWay'
  <2>1. SUFFICES ASSUME NEW c \in Connections, NEW b \in conn[c].owed
                 PROVE  \/ task'[b].state = "queued" /\ c \in connections
                        \/ ToCome(b, c)'
                        \/ In(b, conn[c].wire)
    BY <1>1 DEF OwedIsOnItsWay
  <2>2. \/ task[b].state = "queued" /\ c \in connections
        \/ ToCome(b, c)
        \/ In(b, conn[c].wire)
    BY DEF DebtInv, OwedIsOnItsWay
  <2>3. CASE b # a
    <3>1. b \in Alerts \ {a}
      BY <1>0, <2>3 DEF ConnectionType
    <3>2. task'[b] = task[b]
      BY <1>2, <3>1
    <3>. QED
      BY <2>2, <3>2 DEF ToCome
  <2>4. CASE b = a /\ c \in connections
    BY <1>2, <2>4 DEF DebtInv, ToCome
  <2>5. CASE b = a /\ ToCome(b, c) /\ c \notin connections
    <3>1. task[a].state = "sending"
      BY <2>5 DEF DeliverInv
    <3>. QED
      BY <1>1, <3>1
  <2>. QED
    BY <2>2, <2>3, <2>4, <2>5
<1>4. \A b \in Alerts : task'[b].dead = task[b].dead
  BY <1>2
<1>. QED
  BY <1>1, <1>3, <1>4 DEF DebtInv

\* A client that is sent to has it on its wire; one that fails is owed nothing.
LEMMA SendDebt ==
    ASSUME TypeOK, DebtInv, NEW a \in Alerts, Send(a)
    PROVE  DebtInv'
<1>0. conn \in [Connections -> ConnectionType] /\ task \in [Alerts -> TaskType]
  BY TypeParts
<1>1. PICK c \in task[a].left :
        \/ /\ conn[c].link # "stalled"
           /\ task' = [task EXCEPT ![a].left = @ \ {c}]
           /\ conn' = IF conn[c].link = "up"
                      THEN [conn EXCEPT ![c].wire = Append(@, a)] ELSE conn
        \/ /\ conn[c].link = "down"
           /\ task' = [task EXCEPT ![a].left = AfterFailure(@, c), ![a].dead = @ \cup {c}]
           /\ UNCHANGED conn
  BY DEF Send
<1>2. /\ UNCHANGED connections /\ task[a].state = "sending" /\ c \in Connections
      /\ conn[c].link \in {"up", "stalled", "down"}
  BY <1>0 DEF Send, TaskType, ConnectionType
<1>3. /\ task'[a].state = task[a].state /\ task'[a].left = task[a].left \ {c}
      /\ task'[a].dead \subseteq task[a].dead \cup {c}
      /\ conn[c].link # "down" => task'[a].dead = task[a].dead
      /\ \A b \in Alerts \ {a} : task'[b] = task[b]
  <2>0. task[a] \in TaskType
    BY <1>0
  <2>1. CASE task' = [task EXCEPT ![a].left = @ \ {c}]
    <3>1. task' = [task EXCEPT ![a] = [task[a] EXCEPT !.left = task[a].left \ {c}]]
      BY <1>0, <2>1 DEF TaskType
    <3>2. task'[a] = [task[a] EXCEPT !.left = task[a].left \ {c}]
      BY <1>0, <3>1
    <3>3. /\ task'[a].state = task[a].state /\ task'[a].left = task[a].left \ {c}
          /\ task'[a].dead = task[a].dead
      BY <2>0, <3>2 DEF TaskType
    <3>. QED
      BY <1>0, <3>1, <3>3
  <2>2. CASE /\ conn[c].link = "down"
             /\ task' = [task EXCEPT ![a].left = AfterFailure(@, c), ![a].dead = @ \cup {c}]
    <3>1. task' = [task EXCEPT ![a] = [task[a] EXCEPT !.left = task[a].left \ {c},
                                                      !.dead = task[a].dead \cup {c}]]
      BY <1>0, <2>2 DEF TaskType, AfterFailure
    <3>2. task'[a] = [task[a] EXCEPT !.left = task[a].left \ {c}, !.dead = task[a].dead \cup {c}]
      BY <1>0, <3>1
    <3>3. /\ task'[a].state = task[a].state /\ task'[a].left = task[a].left \ {c}
          /\ task'[a].dead = task[a].dead \cup {c}
      BY <2>0, <3>2 DEF TaskType
    <3>. QED
      BY <1>0, <2>2, <3>1, <3>3
  <2>. QED
    BY <1>1, <2>1, <2>2
<1>4. /\ conn'[c].at = conn[c].at /\ conn'[c].link = conn[c].link
      /\ conn'[c].owed = conn[c].owed
      /\ \/ conn[c].link = "down" /\ conn'[c].wire = conn[c].wire
         \/ conn'[c].wire = Append(conn[c].wire, a)
      /\ \A d \in Connections \ {c} : conn'[d] = conn[d]
  <2>1. CASE conn' = conn /\ conn[c].link = "down"
    BY <2>1
  <2>2. CASE conn' = [conn EXCEPT ![c].wire = Append(@, a)]
    <3>1. conn'[c] = [conn[c] EXCEPT !.wire = Append(conn[c].wire, a)] /\ conn[c] \in ConnectionType
      BY <1>0, <1>2, <2>2
    <3>2. \A d \in Connections \ {c} : conn'[d] = conn[d]
      BY <1>0, <2>2
    <3>. QED
      BY <3>1, <3>2 DEF ConnectionType
  <2>. QED
    BY <1>1, <1>2, <2>1, <2>2
<1>5. conn[c].wire \in Seq(Alerts)
  BY <1>0, <1>2 DEF ConnectionType
<1>6. \A b : In(b, conn[c].wire) => In(b, conn'[c].wire)
  BY <1>4, <1>5, AppendKeeps
<1>7. conn'[c].wire = Append(conn[c].wire, a) => In(a, conn'[c].wire)
  BY <1>5, AppendKeeps
<1>8. OwedIsOnItsWay'
  <2>1. SUFFICES ASSUME NEW d \in Connections, NEW b \in conn[d].owed
                 PROVE  \/ task'[b].state = "queued" /\ d \in connections
                        \/ ToCome(b, d)'
                        \/ In(b, conn'[d].wire)
    BY <1>2, <1>4 DEF OwedIsOnItsWay
  <2>2. b \in Alerts
    BY <1>0 DEF ConnectionType
  <2>3. \/ task[b].state = "queued" /\ d \in connections
        \/ ToCome(b, d)
        \/ In(b, conn[d].wire)
    BY DEF DebtInv, OwedIsOnItsWay
  <2>4. task'[b].state = task[b].state
    BY <1>3, <2>2
  <2>5. In(b, conn[d].wire) => In(b, conn'[d].wire)
    BY <1>4, <1>6
  <2>6. ToCome(b, d) => ToCome(b, d)' \/ (b = a /\ d = c)
    <3>1. CASE b # a
      <4>1. task'[b] = task[b]
        BY <1>3, <2>2, <3>1
      <4>. QED
        BY <4>1, Zenon DEF ToCome
    <3>2. CASE b = a
      <4>1. task'[b].left = task[b].left \ {c}
        BY <1>3, <3>2
      <4>. QED
        BY <3>2, <4>1 DEF ToCome
    <3>. QED
      BY <3>1, <3>2
  <2>7. conn[c].link = "down" => d # c
    BY <1>2 DEF DebtInv
  <2>. QED
    BY <1>4, <1>7, <2>3, <2>4, <2>5, <2>6, <2>7
<1>9. \A b \in Alerts, d \in Connections : d \in task'[b].dead => conn'[d].link = "down"
  <2>1. \A d \in Connections : conn'[d].link = conn[d].link
    BY <1>4
  <2>2. \A b \in Alerts, d \in Connections :
           d \in task'[b].dead => d \in task[b].dead \/ (d = c /\ conn[c].link = "down")
    <3>1. SUFFICES ASSUME NEW b \in Alerts, NEW d \in Connections, d \in task'[b].dead
                   PROVE  d \in task[b].dead \/ (d = c /\ conn[c].link = "down")
      OBVIOUS
    <3>2. CASE b = a
      <4>1. task'[a].dead \subseteq task[a].dead \cup {c}
        BY <1>3
      <4>2. conn[c].link # "down" => task'[a].dead = task[a].dead
        BY <1>3
      <4>. QED
        BY <3>1, <3>2, <4>1, <4>2
    <3>3. CASE b # a
      <4>1. task'[b] = task[b]
        BY <1>3, <3>3
      <4>2. d \in task[b].dead
        BY <3>1, <4>1, Zenon
      <4>. QED
        BY <4>2
    <3>. QED
      BY <3>2, <3>3
  <2>. QED
    BY <2>1, <2>2 DEF DebtInv
<1>10. \A d \in Connections : /\ conn'[d].link = conn[d].link /\ conn'[d].at = conn[d].at
                              /\ conn'[d].owed = conn[d].owed
  BY <1>4
<1>. QED
  BY <1>8, <1>9, <1>10 DEF DebtInv

\* Those that are dropped at the end are owed nothing.
LEMMA FinishDebt ==
    ASSUME TypeOK, DebtInv, NEW a \in Alerts, Finish(a)
    PROVE  DebtInv'
<1>0. task \in [Alerts -> TaskType] /\ conn \in [Connections -> ConnectionType]
  BY TypeParts
<1>1. /\ UNCHANGED conn /\ task[a].left = {} /\ task[a].state = "sending"
      /\ connections' = connections \ task[a].dead
  BY DEF Finish
<1>2. task'[a].dead = {} /\ \A b \in Alerts \ {a} : task'[b] = task[b]
  BY <1>0 DEF Finish, NoTask
<1>3. OwedIsOnItsWay'
  <2>1. SUFFICES ASSUME NEW c \in Connections, NEW b \in conn[c].owed
                 PROVE  \/ task'[b].state = "queued" /\ c \in connections'
                        \/ ToCome(b, c)'
                        \/ In(b, conn[c].wire)
    BY <1>1 DEF OwedIsOnItsWay
  <2>2. \/ task[b].state = "queued" /\ c \in connections
        \/ ToCome(b, c)
        \/ In(b, conn[c].wire)
    BY DEF DebtInv, OwedIsOnItsWay
  <2>3. b \in Alerts
    BY <1>0 DEF ConnectionType
  <2>4. c \notin task[a].dead
    BY DEF DebtInv
  <2>5. CASE b = a
    BY <1>1, <2>2, <2>5 DEF ToCome
  <2>6. CASE b # a
    BY <1>1, <1>2, <2>2, <2>3, <2>4, <2>6 DEF ToCome
  <2>. QED
    BY <2>5, <2>6
<1>4. \A b \in Alerts, c \in Connections : c \in task'[b].dead => c \in task[b].dead
  BY <1>2
<1>. QED
  BY <1>1, <1>3, <1>4 DEF DebtInv

LEMMA DebtInit == Init => DebtInv /\ RegisteredInv
<1> SUFFICES ASSUME Init
             PROVE  DebtInv /\ RegisteredInv
  OBVIOUS
<1>1. \A c \in Connections : conn[c].owed = {} /\ conn[c].link = "down" /\ conn[c].handler = "ended"
  BY DEF Init, Closed
<1>2. connections = {}
  BY DEF Init
<1>. QED
  BY <1>1, <1>2 DEF DebtInv, RegisteredInv, OwedIsOnItsWay

\* A connection comes into the set when its route begins to serve it and goes when
\* the route ends, or before if a broadcast found it dead.
LEMMA RegisteredStep ==
    ASSUME TypeOK, DebtInv, RegisteredInv, [Next]_vars
    PROVE  RegisteredInv'
<1>0. conn \in [Connections -> ConnectionType] /\ task \in [Alerts -> TaskType]
  BY TypeParts
<1>1. ASSUME NEW t \in Tabs, SignIn(t) \/ Logout(t) \/ Refresh(t) \/ Callback(t) \/ Answer(t)
      PROVE  RegisteredInv'
  <2>1. CASE Receive(t)
    <3>1. PICK c \in Connections :
             conn' = [conn EXCEPT ![c].wire = Tail(@), ![c].owed = @ \ {Head(conn[c].wire)}]
      BY <2>1 DEF Receive
    <3>2. /\ conn'[c].handler = conn[c].handler /\ conn'[c].link = conn[c].link
          /\ \A d \in Connections \ {c} : conn'[d] = conn[d]
      BY <1>0, <3>1 DEF ConnectionType
    <3>3. UNCHANGED connections
      BY <2>1 DEF Receive
    <3>. QED
      BY <3>2, <3>3 DEF RegisteredInv
  <2>2. CASE ~Receive(t)
    <3>1. SignIn(t) \/ Logout(t) \/ Refresh(t) \/ Dropped(t) \/ Retry(t) \/ Answer(t)
      BY <1>1, <2>2 DEF Callback
    <3>2. /\ UNCHANGED connections
          /\ \A c \in Connections :
                \/ Steady(c) /\ conn'[c].handler = conn[c].handler
                \/ Gone(c) /\ conn'[c].handler = conn[c].handler
                \/ conn'[c].handler = "checking" /\ c \notin connections
      BY <3>1, PageEffect
    <3>. QED
      BY <3>2 DEF RegisteredInv, Steady, Gone
  <2>. QED
    BY <2>1, <2>2
<1>2. ASSUME NEW c \in Connections, Serve(c) \/ Cut(c) \/ Stall(c) \/ Unstall(c)
      PROVE  RegisteredInv'
  <2>1. \A d \in Connections \ {c} : conn'[d] = conn[d] /\ (d \in connections' <=> d \in connections)
    BY <1>2, ServeEffect
  <2>2. /\ c \in connections' => conn'[c].handler = "serving"
        /\ conn'[c].handler = "serving" /\ conn'[c].link # "down" => c \in connections'
    BY <1>2, ServeEffect DEF RegisteredInv, Steady, Gone
  <2>. QED
    BY <2>1, <2>2 DEF RegisteredInv
<1>3. ASSUME NEW a \in Alerts, Publish(a) \/ Broadcast(a)
      PROVE  RegisteredInv'
  <2>1. \A c \in Connections : conn'[c].handler = conn[c].handler /\ conn'[c].link = conn[c].link
    <3>1. CASE Publish(a)
      BY <1>0, <3>1 DEF Publish, ConnectionType
    <3>2. CASE Send(a)
      <4>1. PICK c \in task[a].left :
               conn' = conn \/ conn' = [conn EXCEPT ![c].wire = Append(@, a)]
        BY <3>2 DEF Send
      <4>. QED
        BY <1>0, <4>1 DEF ConnectionType
    <3>3. CASE UNCHANGED conn
      BY <3>3
    <3>. QED
      BY <1>3, <3>1, <3>2, <3>3 DEF Broadcast, Start, Finish
  <2>2. \/ UNCHANGED connections
        \/ connections' = connections \ task[a].dead
    BY <1>3 DEF Publish, Broadcast, Start, Send, Finish
  <2>. QED
    BY <2>1, <2>2 DEF RegisteredInv, DebtInv
<1>4. ASSUME NEW p \in Processes, Restart(p)
      PROVE  RegisteredInv'
  BY <1>4, RestartEffect DEF RegisteredInv, Gone
<1>5. CASE Expire \/ UNCHANGED vars
  BY <1>5 DEF Expire, vars, RegisteredInv
<1>. QED
  BY <1>1, <1>2, <1>3, <1>4, <1>5 DEF Next

LEMMA DebtStep ==
    ASSUME TypeOK, DeliverInv, DebtInv, [Next]_vars
    PROVE  DebtInv'
<1>1. ASSUME NEW t \in Tabs, SignIn(t) \/ Logout(t) \/ Refresh(t) \/ Callback(t) \/ Answer(t)
      PROVE  DebtInv'
  <2>1. CASE ~Receive(t)
    <3>1. SignIn(t) \/ Logout(t) \/ Refresh(t) \/ Dropped(t) \/ Retry(t) \/ Answer(t)
      BY <1>1, <2>1 DEF Callback
    <3>2. /\ UNCHANGED <<task, connections>>
          /\ \A c \in Connections : Steady(c) \/ Gone(c) \/ Anew(c)
      BY <3>1, PageEffect
    <3>. QED
      BY <3>2, DebtFrame
  <2>. QED
    BY <2>1, ReceiveDebt
<1>2. ASSUME NEW a \in Alerts, Publish(a) \/ Broadcast(a)
      PROVE  DebtInv'
  BY <1>2, PublishDebt, StartDebt, SendDebt, FinishDebt DEF Broadcast
<1>3. CASE Expire \/ UNCHANGED vars
  <2>1. UNCHANGED <<conn, task, connections>>
    BY <1>3 DEF Expire, vars
  <2>. QED
    BY <2>1, DebtFrame DEF Steady
<1>. QED
  BY <1>1, <1>2, <1>3, ServeDebt, RestartDebt DEF Next

LEMMA Debts == Spec => [](ScreenInv /\ DebtInv /\ RegisteredInv)
<1>1. /\ ScreenInv /\ DebtInv /\ RegisteredInv /\ [Next]_vars
      => (ScreenInv /\ DebtInv /\ RegisteredInv)'
  BY ScreenStep, DebtStep, RegisteredStep DEF ScreenInv
<1>. QED
  BY <1>1, ScreenInit, DebtInit, PTL DEF Spec

\* Whatever breaks, restarts and reconnects around it, a connection that was there
\* when an alert was published, and holds, has the alert on its way until its page
\* shows it: no failing client before it, and no dropped one, takes it away
\* (broadcast in ws_manager.py).
THEOREM OwedIsOnItsWayHolds == Spec => []OwedIsOnItsWay
<1>1. DebtInv => OwedIsOnItsWay
  BY DEF DebtInv
<1>. QED
  BY <1>1, Debts, PTL

\* The set of a process holds nobody whose route has ended, and everybody whose
\* route serves a connection that holds (connect and disconnect in ws_manager.py,
\* the route in routes.py).
THEOREM ServedAreRegistered == Spec => []RegisteredInv
BY Debts, PTL
=============================================================================
