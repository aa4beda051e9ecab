------------------------- MODULE ApiRequestsProofs -------------------------
(***************************************************************************)
(* Theorems about ApiRequests, for any number of processes, requests and   *)
(* rows: a request that succeeds was entitled to it at some moment while   *)
(* it was served, and a timeline entry is lost only to an update that was  *)
(* served at the same time; an account is created once and never replaced, *)
(* and a session that ended stays so.                                      *)
(*                                                                         *)
(* The first rests on what each check of the program saw: the dependency   *)
(* saw the caller, the handler what is asked for, except where it relies   *)
(* on the caller's row the dependency loaded (EntitledInv).  The second    *)
(* follows an update from what it read to what it stores (TimelineInv).    *)
(* The others rest on row locks and unique indexes: what a handler checked *)
(* still holds when its transaction commits (AccountsInv, SessionInv).     *)
(***************************************************************************)
EXTENDS ApiRequests, SequenceTheorems, TLAPS

Phases == Ended \cup {"unused", "accepted", "authorized", "flushing", "returned", "closing"}

\* The request has passed its dependency; its handler has returned.
Passed(r)  == phase[r] \in {"authorized", "flushing", "returned", "closing", "done"}
Handled(r) == phase[r] \in {"flushing", "returned", "closing", "done"}

RequestType ==
    /\ phase \in [Requests -> Phases]
    /\ DOMAIN call = Requests
    /\ DOMAIN seen = Requests
    /\ \A r \in Requests : phase[r] # "unused" => call[r] \in Calls

\* What a handler takes from the row of the caller that was loaded before it.
ByOwnRow(r) ==
    \/ call[r].op = "profile" /\ call[r].value \in {"email", seen[r].password}
    \/ call[r].op = "set_role" /\ call[r].subject = call[r].actor

EntitledInv ==
    \A r \in Requests :
        /\ Passed(r) => <<r, "caller">> \in witnessed
        /\ Handled(r) => <<r, "call">> \in witnessed
        /\ phase[r] = "authorized" /\ Needs(call[r].op) # "nothing" =>
              /\ seen[r].active
              /\ ByOwnRow(r) => <<r, "call">> \in witnessed

-----------------------------------------------------------------------------
(* The history                                                             *)

LEMMA Monotone == Remember => witnessed \subseteq witnessed' /\ met \subseteq met'
BY DEF Remember

LEMMA CallerWitnessed ==
    ASSUME Remember, NEW r \in Requests, r \in InFlight', CallerEntitled(call[r])'
    PROVE  <<r, "caller">> \in witnessed'
BY DEF Remember, Entitled

LEMMA CallWitnessed ==
    ASSUME Remember, NEW r \in Requests, r \in InFlight', CallEntitled(call[r])'
    PROVE  <<r, "call">> \in witnessed'
BY DEF Remember, Entitled

LEMMA NeedsOf ==
    ASSUME NEW op
    PROVE  /\ op = "profile" => Needs(op) = "account"
           /\ op \in {"create_user", "set_role", "deactivate", "reactivate"}
                 => Needs(op) = "users:write"
           /\ op = "register" => Needs(op) = "nothing"
BY DEF Needs

-----------------------------------------------------------------------------
(* What the steps do to a request                                          *)

\* The handler of r ran: it raised, or what it was asked for was allowed.
Ran(r) ==
    /\ phase[r] = "authorized"
    /\ \E to \in {"failed", "flushing", "returned"} :
          /\ phase' = [phase EXCEPT ![r] = to]
          /\ to # "failed" => \/ CallEntitled(call[r])
                              \/ Needs(call[r].op) # "nothing" /\ ByOwnRow(r)

LEMMA HandlerRuns ==
    ASSUME RequestType, EntitledInv, NEW r \in Requests, Handle(r)
    PROVE  UNCHANGED <<data, servers, requests>> /\ Ran(r)
<1>1. UNCHANGED <<data, servers, requests>> /\ phase[r] = "authorized"
  BY DEF Handle, Login, Refresh, Logout, Register, CreateUser, UpdateProfile, ResetPassword,
         SetRole, SetActive, OpenIncident, UpdateIncident, Begins
<1> SUFFICES Ran(r)
  BY <1>1
<1>2. ASSUME Raise(r)
      PROVE  Ran(r)
  BY <1>1, <1>2 DEF Raise, Ran
<1>3. ASSUME NEW changed, Change(r, changed), CallEntitled(call[r])
      PROVE  Ran(r)
  BY <1>1, <1>3 DEF Change, Ran
<1>4. ASSUME Return(r), CallEntitled(call[r])
      PROVE  Ran(r)
  BY <1>1, <1>4 DEF Return, Ran
<1>5. ASSUME NEW changed, Change(r, changed), Needs(call[r].op) # "nothing", ByOwnRow(r)
      PROVE  Ran(r)
  BY <1>1, <1>5 DEF Change, Ran
<1>6. Needs(call[r].op) # "nothing" => seen[r] # NoAccount
  <2>1. ~NoAccount.active
    BY DEF NoAccount
  <2>2. Needs(call[r].op) # "nothing" => seen[r].active
    BY <1>1 DEF EntitledInv
  <2>. QED
    BY <2>1, <2>2
<1>7. CASE Login(r)
  <2>1. call[r].op = "login"
    BY <1>7 DEF Login, Begins
  <2>2. CASE accounts[call[r].subject].active /\ accounts[call[r].subject].password = call[r].value
    <3>1. CallEntitled(call[r])
      BY <2>1, <2>2 DEF CallEntitled, Creates
    <3>. QED
      BY <1>3, <1>7, <2>2, <3>1 DEF Login
  <2>. QED
    BY <1>2, <1>7, <2>2 DEF Login
<1>8. CASE Refresh(r)
  <2>1. call[r].op = "refresh"
    BY <1>8 DEF Refresh, Begins
  <2>2. CASE /\ Usable(sessions[call[r].session])
             /\ accounts[sessions[call[r].session].user].active
    <3>1. CallEntitled(call[r])
      BY <2>1, <2>2 DEF CallEntitled, Creates, Usable
    <3>. QED
      BY <1>3, <1>8, <2>2, <3>1 DEF Refresh
  <2>. QED
    BY <1>2, <1>8, <2>2 DEF Refresh
<1>9. CASE Logout(r)
  <2>1. call[r].op = "logout"
    BY <1>9 DEF Logout, Begins
  <2>2. CallEntitled(call[r])
    BY <2>1 DEF CallEntitled, Creates
  <2>. QED
    BY <1>3, <1>9, <2>2 DEF Logout
<1>10. CASE Register(r) \/ CreateUser(r)
  <2>1. call[r].op \in Creates
    BY <1>10 DEF Register, CreateUser, Begins, Creates
  <2>2. Insert(r) \/ Raise(r)
    BY <1>10 DEF Register, CreateUser
  <2>3. CASE AccountFor(r, call[r].subject) = NoAccount
    <3>1. accounts[call[r].subject] = NoAccount
      BY <1>6, <2>3 DEF AccountFor
    <3>2. CallEntitled(call[r])
      BY <2>1, <3>1 DEF CallEntitled, Creates
    <3>. QED
      BY <1>2, <1>3, <2>2, <2>3, <3>2 DEF Insert
  <2>. QED
    BY <1>2, <2>2, <2>3 DEF Insert
<1>11. CASE UpdateProfile(r)
  <2>1. call[r].op = "profile" /\ Needs(call[r].op) # "nothing"
    BY <1>11, NeedsOf DEF UpdateProfile, Begins
  <2>2. CASE call[r].value \in {"email", seen[r].password}
    BY <1>5, <1>11, <2>1, <2>2 DEF UpdateProfile, ByOwnRow
  <2>. QED
    BY <1>2, <1>11, <2>2 DEF UpdateProfile
<1>12. CASE ResetPassword(r)
  <2>1. call[r].op = "reset_password"
    BY <1>12 DEF ResetPassword, Begins
  <2>2. CASE accounts[call[r].subject] # NoAccount
    <3>1. CallEntitled(call[r])
      BY <2>1, <2>2 DEF CallEntitled, Creates
    <3>. QED
      BY <1>3, <1>12, <2>2, <3>1 DEF ResetPassword
  <2>. QED
    BY <1>2, <1>12, <2>2 DEF ResetPassword
<1>13. CASE SetRole(r)
  <2>1. call[r].op = "set_role" /\ Needs(call[r].op) # "nothing"
    BY <1>13, NeedsOf DEF SetRole, Begins
  <2>2. Raise(r) \/ \E changed : Change(r, changed) /\ AccountFor(r, call[r].subject) # NoAccount
    BY <1>13 DEF SetRole
  <2>3. CASE call[r].subject = call[r].actor
    BY <1>2, <1>5, <2>1, <2>2, <2>3 DEF ByOwnRow
  <2>4. CASE call[r].subject # call[r].actor
    <3>1. accounts[call[r].subject] # NoAccount => CallEntitled(call[r])
      BY <2>1 DEF CallEntitled, Creates
    <3>. QED
      BY <1>2, <1>3, <2>2, <2>4, <3>1 DEF AccountFor
  <2>. QED
    BY <2>3, <2>4
<1>14. CASE SetActive(r, "deactivate", FALSE) \/ SetActive(r, "reactivate", TRUE)
  <2>1. call[r].op \in {"deactivate", "reactivate"}
    BY <1>14 DEF SetActive, Begins
  <2>2. \/ Raise(r)
        \/ \E changed : /\ Change(r, changed)
                        /\ AccountFor(r, call[r].subject) # NoAccount
                        /\ call[r].subject # call[r].actor
    BY <1>14 DEF SetActive
  <2>3. accounts[call[r].subject] # NoAccount => CallEntitled(call[r])
    BY <2>1 DEF CallEntitled, Creates
  <2>. QED
    BY <1>2, <1>3, <2>2, <2>3 DEF AccountFor
<1>15. CASE OpenIncident(r)
  <2>1. call[r].op = "open_incident"
    BY <1>15 DEF OpenIncident, Begins
  <2>2. CallEntitled(call[r])
    BY <2>1 DEF CallEntitled, Creates
  <2>. QED
    BY <1>4, <1>15, <2>2 DEF OpenIncident
<1>16. CASE UpdateIncident(r)
  <2>1. call[r].op = "update_incident"
    BY <1>16 DEF UpdateIncident, Begins
  <2>2. CASE /\ incidents[call[r].incident].timeline # << >>
             /\ call[r].value \in Reachable(incidents[call[r].incident].status) \cup {"note"}
    <3>1. CallEntitled(call[r])
      BY <2>1, <2>2 DEF CallEntitled, Creates
    <3>. QED
      BY <1>4, <1>16, <2>2, <3>1 DEF UpdateIncident
  <2>. QED
    BY <1>2, <1>16, <2>2 DEF UpdateIncident
<1>. QED
  BY <1>7, <1>8, <1>9, <1>10, <1>11, <1>12, <1>13, <1>14, <1>15, <1>16 DEF Handle

\* The other steps of a request that is under way, and of what is around it.
Moved(r, from, to) == phase[r] \in from /\ \E x \in to : phase' = [phase EXCEPT ![r] = x]

LEMMA RequestSteps ==
    ASSUME NEW r \in Requests
    PROVE  /\ Flush(r) \/ EmailTaken(r) =>
                UNCHANGED requests /\ Moved(r, {"flushing"}, {"failed", "returned"})
           /\ Dispatch(r) => UNCHANGED requests /\ Moved(r, {"returned"}, {"closing"})
           /\ Commit(r) => UNCHANGED requests /\ Moved(r, {"closing"}, {"done"})
BY DEF Flush, EmailTaken, Dispatch, Commit, Moved

LEMMA SurroundingSteps ==
    /\ \A s \in SessionIds : Expire(s) => UNCHANGED <<requests, phase>>
    /\ \A p \in Processes : Seed(p) => UNCHANGED <<requests, phase>>
    /\ \A g : OperatorRevokes(g) => UNCHANGED <<requests, phase>>
    /\ \A p \in Processes : Crash(p) =>
          /\ UNCHANGED requests
          /\ phase' = [r \in Requests |->
                          IF r \in InFlight /\ proc[r] = p THEN "lost" ELSE phase[r]]
BY DEF Expire, Seed, SeedRead, SeedFlush, SeedCommit, OperatorRevokes, Crash, requests, work

-----------------------------------------------------------------------------
(* What the steps read and write of a request keeps its kind               *)

LEMMA TypeInit == Init => RequestType
BY DEF Init, RequestType, Phases, Ended

LEMMA TypeFrame ==
    ASSUME RequestType, UNCHANGED <<call, seen>>, phase' \in [Requests -> Phases],
           \A r \in Requests : phase'[r] # "unused" => phase[r] # "unused"
    PROVE  RequestType'
BY DEF RequestType

LEMMA MovedType ==
    ASSUME RequestType, UNCHANGED <<call, seen>>, NEW r \in Requests,
           NEW from, NEW to, to \subseteq Phases, "unused" \notin from, Moved(r, from, to)
    PROVE  RequestType'
<1>1. phase' \in [Requests -> Phases]
  BY DEF RequestType, Moved
<1>2. \A s \in Requests : phase'[s] # "unused" => phase[s] # "unused"
  BY DEF RequestType, Moved
<1>. QED
  BY <1>1, <1>2, TypeFrame

LEMMA TypeStep ==
    ASSUME RequestType, EntitledInv, Step
    PROVE  RequestType'
<1>1. ASSUME NEW r \in Requests, NEW p \in Processes, NEW c \in Calls, Accept(r, p, c)
      PROVE  RequestType'
  BY <1>1 DEF Accept, RequestType, Phases
<1>2. ASSUME NEW r \in Requests, Authorize(r)
      PROVE  RequestType'
  <2>1. UNCHANGED call /\ DOMAIN seen' = DOMAIN seen
    BY <1>2 DEF Authorize
  <2>2. phase' \in [Requests -> Phases]
        /\ \A s \in Requests : phase'[s] # "unused" => phase[s] # "unused"
    BY <1>2 DEF Authorize, RequestType, Phases, Ended
  <2>. QED
    BY <2>1, <2>2 DEF RequestType
<1>3. ASSUME NEW r \in Requests, Handle(r)
      PROVE  RequestType'
  <2>1. UNCHANGED <<call, seen>> /\ Moved(r, {"authorized"}, {"failed", "flushing", "returned"})
    BY <1>3, HandlerRuns DEF requests, Ran, Moved
  <2>. QED
    BY <2>1, MovedType DEF Phases, Ended
<1>4. ASSUME NEW r \in Requests, Flush(r) \/ EmailTaken(r) \/ Dispatch(r) \/ Commit(r)
      PROVE  RequestType'
  <2>1. UNCHANGED <<call, seen>>
    BY <1>4, RequestSteps DEF requests
  <2>2. \/ Moved(r, {"flushing"}, {"failed", "returned"})
        \/ Moved(r, {"returned"}, {"closing"})
        \/ Moved(r, {"closing"}, {"done"})
    BY <1>4, RequestSteps
  <2>. QED
    BY <2>1, <2>2, MovedType DEF Phases, Ended
<1>5. ASSUME UNCHANGED <<requests, phase>>
      PROVE  RequestType'
  BY <1>5 DEF requests, RequestType
<1>6. ASSUME NEW p \in Processes, Crash(p)
      PROVE  RequestType'
  <2>1. UNCHANGED <<call, seen>>
        /\ phase' = [r \in Requests |->
                       IF r \in InFlight /\ proc[r] = p THEN "lost" ELSE phase[r]]
    BY <1>6, SurroundingSteps DEF requests
  <2>2. phase' \in [Requests -> Phases]
    BY <2>1 DEF RequestType, Phases, Ended
  <2>3. \A r \in Requests : phase'[r] # "unused" => phase[r] # "unused"
    BY <2>1 DEF InFlight
  <2>. QED
    BY <2>1, <2>2, <2>3, TypeFrame
<1>. QED
  BY <1>1, <1>2, <1>3, <1>4, <1>5, <1>6, SurroundingSteps DEF Step, Progress

-----------------------------------------------------------------------------
(* Whoever succeeds was entitled to it                                     *)

LEMMA EntitledFrame ==
    ASSUME EntitledInv, Remember, UNCHANGED <<call, seen>>,
           \A r \in Requests : \/ phase'[r] = phase[r]
                               \/ ~Passed(r)'
                               \/ Handled(r) /\ phase'[r] # "authorized"
    PROVE  EntitledInv'
<1>1. witnessed \subseteq witnessed'
  BY Monotone
<1>2. \A r \in Requests : /\ Passed(r)' => Passed(r)
                          /\ Handled(r)' => Handled(r)
                          /\ phase'[r] = "authorized" => phase[r] = "authorized"
  BY DEF Passed, Handled
<1>. QED
  BY <1>1, <1>2 DEF EntitledInv, ByOwnRow

LEMMA AcceptEntitled ==
    ASSUME RequestType, EntitledInv, Remember,
           NEW r \in Requests, NEW p \in Processes, NEW c \in Calls, Accept(r, p, c)
    PROVE  EntitledInv'
<1>1. /\ \A s \in Requests \ {r} : phase'[s] = phase[s] /\ call'[s] = call[s]
      /\ phase'[r] = IF Needs(c.op) = "nothing" THEN "authorized" ELSE "accepted"
      /\ call'[r] = c /\ seen' = seen
  BY DEF Accept, RequestType
<1>2. witnessed \subseteq witnessed'
  BY Monotone
<1>3. r \in InFlight'
  BY <1>1 DEF InFlight, Ended
<1>4. Needs(c.op) = "nothing" => <<r, "caller">> \in witnessed'
  <2>1. Needs(c.op) = "nothing" => CallerEntitled(call[r])'
    BY <1>1 DEF CallerEntitled
  <2>. QED
    BY <1>3, <2>1, CallerWitnessed
<1>5. ASSUME NEW s \in Requests \ {r}
      PROVE  /\ Passed(s)' => <<s, "caller">> \in witnessed'
             /\ Handled(s)' => <<s, "call">> \in witnessed'
             /\ phase'[s] = "authorized" /\ Needs(call'[s].op) # "nothing" =>
                   /\ seen'[s].active
                   /\ ByOwnRow(s)' => <<s, "call">> \in witnessed'
  BY <1>1, <1>2 DEF EntitledInv, Passed, Handled, ByOwnRow
<1>6. /\ Passed(r)' => <<r, "caller">> \in witnessed'
      /\ ~Handled(r)'
      /\ phase'[r] = "authorized" => Needs(call'[r].op) = "nothing"
  BY <1>1, <1>4 DEF Passed, Handled
<1>. QED
  BY <1>5, <1>6 DEF EntitledInv

\* The dependency sees the caller's row; what the handler will take from it is
\* so when it is read.
LEMMA AuthorizeEntitled ==
    ASSUME RequestType, EntitledInv, Remember, NEW r \in Requests, Authorize(r)
    PROVE  EntitledInv'
<1> DEFINE account == accounts[call[r].actor]
<1>1. /\ UNCHANGED <<data, call>>
      /\ \A s \in Requests \ {r} : phase'[s] = phase[s] /\ seen'[s] = seen[s]
      /\ phase'[r] = IF May(account, Needs(call[r].op)) THEN "authorized" ELSE "failed"
      /\ seen'[r] = account
  BY DEF Authorize, RequestType
<1>2. witnessed \subseteq witnessed'
  BY Monotone
<1>3. ASSUME NEW s \in Requests \ {r}
      PROVE  /\ Passed(s)' => <<s, "caller">> \in witnessed'
             /\ Handled(s)' => <<s, "call">> \in witnessed'
             /\ phase'[s] = "authorized" /\ Needs(call'[s].op) # "nothing" =>
                   /\ seen'[s].active
                   /\ ByOwnRow(s)' => <<s, "call">> \in witnessed'
  BY <1>1, <1>2 DEF EntitledInv, Passed, Handled, ByOwnRow
<1>4. ASSUME May(account, Needs(call[r].op))
      PROVE  /\ <<r, "caller">> \in witnessed' /\ seen'[r].active
             /\ ByOwnRow(r)' => <<r, "call">> \in witnessed'
  <2>1. r \in InFlight'
    BY <1>1, <1>4 DEF InFlight, Ended
  <2>2. CallerEntitled(call[r])'
    BY <1>1, <1>4 DEF May, CallerEntitled, data
  <2>3. account.active
    BY <1>4 DEF May
  <2>4. account # NoAccount
    <3>1. ~NoAccount.active
      BY DEF NoAccount
    <3>. QED
      BY <2>3, <3>1
  <2>5. ASSUME ByOwnRow(r)'
        PROVE  CallEntitled(call[r])'
    <3>1. UNCHANGED accounts
      BY <1>1 DEF data
    <3>2. CASE call[r].op = "profile" /\ call[r].value \in {"email", account.password}
      BY <1>1, <3>1, <3>2 DEF CallEntitled, Creates
    <3>3. CASE call[r].op = "set_role" /\ call[r].subject = call[r].actor
      BY <1>1, <2>4, <3>1, <3>3 DEF CallEntitled, Creates
    <3>. QED
      BY <1>1, <2>5, <3>2, <3>3 DEF ByOwnRow
  <2>. QED
    BY <1>1, <2>1, <2>2, <2>3, <2>5, CallerWitnessed, CallWitnessed
<1>5. /\ Passed(r)' => <<r, "caller">> \in witnessed'
      /\ ~Handled(r)'
      /\ phase'[r] = "authorized" =>
            seen'[r].active /\ (ByOwnRow(r)' => <<r, "call">> \in witnessed')
  BY <1>1, <1>4 DEF Passed, Handled
<1>. QED
  BY <1>3, <1>5 DEF EntitledInv

LEMMA HandleEntitled ==
    ASSUME RequestType, EntitledInv, Remember, NEW r \in Requests, Handle(r)
    PROVE  EntitledInv'
<1>1. UNCHANGED <<data, call, seen>> /\ Ran(r)
  BY HandlerRuns DEF requests
<1>2. phase[r] = "authorized"
  BY <1>1 DEF Ran
<1>3. PICK to \in {"failed", "flushing", "returned"} :
        /\ phase' = [phase EXCEPT ![r] = to]
        /\ to # "failed" => \/ CallEntitled(call[r])
                            \/ Needs(call[r].op) # "nothing" /\ ByOwnRow(r)
  BY <1>1 DEF Ran
<1>4. phase'[r] = to /\ \A s \in Requests \ {r} : phase'[s] = phase[s]
  BY <1>3 DEF RequestType
<1>5. witnessed \subseteq witnessed'
  BY Monotone
<1>6. to # "failed" => <<r, "call">> \in witnessed'
  <2>1. to # "failed" => r \in InFlight'
    BY <1>4 DEF InFlight, Ended
  <2>2. CallEntitled(call[r]) => CallEntitled(call[r])'
    BY <1>1 DEF CallEntitled, data
  <2>3. Needs(call[r].op) # "nothing" /\ ByOwnRow(r) => <<r, "call">> \in witnessed
    BY <1>2 DEF EntitledInv
  <2>. QED
    BY <1>3, <1>5, <2>1, <2>2, <2>3, CallWitnessed
<1>7. <<r, "caller">> \in witnessed'
  BY <1>2, <1>5 DEF EntitledInv, Passed
<1>8. ASSUME NEW s \in Requests \ {r}
      PROVE  /\ Passed(s)' => <<s, "caller">> \in witnessed'
             /\ Handled(s)' => <<s, "call">> \in witnessed'
             /\ phase'[s] = "authorized" /\ Needs(call'[s].op) # "nothing" =>
                   /\ seen'[s].active
                   /\ ByOwnRow(s)' => <<s, "call">> \in witnessed'
  BY <1>1, <1>4, <1>5 DEF EntitledInv, Passed, Handled, ByOwnRow
<1>9. phase'[r] # "authorized" /\ (Handled(r)' => <<r, "call">> \in witnessed')
  BY <1>4, <1>6 DEF Handled
<1>. QED
  BY <1>7, <1>8, <1>9 DEF EntitledInv

LEMMA EntitledStep == RequestType /\ EntitledInv /\ [Next]_vars => RequestType' /\ EntitledInv'
<1> SUFFICES ASSUME RequestType, EntitledInv, [Next]_vars
             PROVE  RequestType' /\ EntitledInv'
  OBVIOUS
<1>1. CASE Next
  <2>1. Step /\ Remember
    BY <1>1 DEF Next
  <2>2. RequestType'
    BY <2>1, TypeStep
  <2>3. ASSUME NEW r \in Requests, Flush(r) \/ EmailTaken(r) \/ Dispatch(r) \/ Commit(r)
        PROVE  EntitledInv'
    <3>1. /\ UNCHANGED <<call, seen>> /\ Handled(r)
          /\ \E x \in {"failed", "returned", "closing", "done"} : phase' = [phase EXCEPT ![r] = x]
      BY <2>3, RequestSteps DEF requests, Moved, Handled
    <3>. QED
      BY <2>1, <3>1, EntitledFrame DEF RequestType
  <2>4. ASSUME UNCHANGED <<requests, phase>>
        PROVE  EntitledInv'
    BY <2>1, <2>4, EntitledFrame DEF requests
  <2>5. ASSUME NEW p \in Processes, Crash(p)
        PROVE  EntitledInv'
    <3>1. UNCHANGED <<call, seen>>
          /\ \A r \in Requests : phase'[r] = phase[r] \/ phase'[r] = "lost"
      BY <2>5, SurroundingSteps DEF requests
    <3>. QED
      BY <2>1, <3>1, EntitledFrame DEF Passed
  <2>. QED
    BY <2>1, <2>2, <2>3, <2>4, <2>5, SurroundingSteps, AcceptEntitled, AuthorizeEntitled,
       HandleEntitled DEF Step, Progress
<1>2. CASE UNCHANGED vars
  BY <1>2 DEF vars, requests, work, history, RequestType, EntitledInv, Passed, Handled, ByOwnRow
<1>. QED
  BY <1>1, <1>2

\* What a request was granted, the committed database allowed at some moment
\* between its arrival and its end (dependencies.py, authentication.py, routes.py).
THEOREM SuccessWasEntitledHolds == Spec => []SuccessWasEntitled
<1>1. Init => RequestType /\ EntitledInv
  <2>1. Init => EntitledInv
    BY DEF Init, EntitledInv, Passed, Handled
  <2>. QED
    BY <2>1, TypeInit
<1>2. EntitledInv => SuccessWasEntitled
  BY DEF EntitledInv, SuccessWasEntitled, Passed, Handled
<1>. QED
  BY <1>1, <1>2, EntitledStep, PTL DEF Spec

-----------------------------------------------------------------------------
(* Entries are lost only to overlap                                        *)

Entries == {Nobody} \cup Requests

In(q, s) == \E n \in 1..Len(s) : s[n] = q

\* The timeline has the entry of r, or one of a request that was served with it.
Traced(r, s) == In(r, s) \/ \E q \in Requests \ {r} : In(q, s) /\ {q, r} \in met

\* The request updates an incident, and has not given up.
Updates(r) == draft[r].timeline # << >>

DraftType ==
    [session : SessionIds \cup {Nobody}, incident : Incidents \cup {Nobody},
     status : Statuses \cup {"none"}, timeline : Seq(Entries)]

TimelineType ==
    /\ draft \in [Requests -> DraftType]
    /\ \A i \in Incidents : incidents[i].timeline \in Seq(Entries)
    /\ \A r \in Requests : Updates(r) => draft[r].incident \in Incidents

\* Whoever is served now was seen together with everybody else who is.
MetInv == \A r, s \in InFlight : {r, s} \in met

\* A handler has a timeline to store only once it has returned.
DraftInv ==
    \A r \in Requests :
        phase[r] \in {"unused", "accepted", "authorized", "flushing"} => ~Updates(r)

Closing(r) == phase[r] \in {"returned", "closing"} /\ Updates(r)
Stored(r)  == phase[r] = "done" /\ Updates(r)

\* What a request is about to store has its own entry and, of the requests that
\* stored before it, the entry or a trace, or they were served with it.
StoreInv ==
    \A q \in Requests : Closing(q) =>
        /\ In(q, draft[q].timeline)
        /\ \A r \in Requests \ {q} : Stored(r) /\ draft[r].incident = draft[q].incident =>
              Traced(r, draft[q].timeline) \/ {q, r} \in met

TracedInv == \A r \in Requests : Stored(r) => Traced(r, incidents[draft[r].incident].timeline)

TimelineInv == TimelineType /\ MetInv /\ DraftInv /\ StoreInv /\ TracedInv

LEMMA AppendEntry ==
    ASSUME NEW s \in Seq(Entries), NEW r \in Requests
    PROVE  /\ Append(s, r) \in Seq(Entries) /\ Append(s, r) # << >>
           /\ In(r, Append(s, r))
           /\ \A q : In(q, s) => In(q, Append(s, r))
<1>1. /\ Append(s, r) \in Seq(Entries) /\ Len(s) \in Nat
      /\ Len(Append(s, r)) = Len(s) + 1
      /\ \A n \in 1..Len(s) : Append(s, r)[n] = s[n]
      /\ Append(s, r)[Len(s) + 1] = r
  BY AppendProperties, LenProperties DEF Entries
<1>2. Append(s, r) # << >>
  BY <1>1
<1>3. Len(s) + 1 \in 1..Len(Append(s, r)) /\ \A n \in 1..Len(s) : n \in 1..Len(Append(s, r))
  BY <1>1
<1>. QED
  BY <1>1, <1>2, <1>3 DEF In

LEMMA MetStep ==
    ASSUME Remember
    PROVE  MetInv' /\ met \subseteq met'
BY DEF Remember, MetInv

\* No timeline is stored or computed, and nobody commits.
LEMMA TimelineFrame ==
    ASSUME TimelineInv, Remember, UNCHANGED incidents, draft' \in [Requests -> DraftType],
           \A r \in Requests : /\ draft'[r].timeline = draft[r].timeline
                               /\ draft'[r].incident = draft[r].incident,
           \A r \in Requests :
               \/ phase'[r] = phase[r]
               \/ phase'[r] \in {"failed", "lost"}
               \/ /\ phase[r] \in {"unused", "accepted", "authorized", "flushing"}
                  /\ phase'[r] # "done"
               \/ phase[r] = "returned" /\ phase'[r] = "closing"
    PROVE  TimelineInv'
<1>1. MetInv' /\ met \subseteq met'
  BY MetStep
<1>2. \A r \in Requests : Updates(r)' <=> Updates(r)
  BY DEF Updates
<1>3. TimelineType'
  BY <1>2 DEF TimelineInv, TimelineType
<1>4. DraftInv'
  BY <1>2 DEF TimelineInv, DraftInv
<1>5. \A r \in Requests : (Closing(r)' => Closing(r)) /\ (Stored(r)' => Stored(r))
  BY <1>2 DEF TimelineInv, DraftInv, Closing, Stored
<1>6. \A r \in Requests : \A s : Traced(r, s) => Traced(r, s)'
  BY <1>1 DEF Traced
<1>7. StoreInv'
  BY <1>1, <1>5, <1>6 DEF TimelineInv, StoreInv
<1>8. TracedInv'
  BY <1>5, <1>6 DEF TimelineInv, TracedInv
<1>. QED
  BY <1>1, <1>3, <1>4, <1>7, <1>8 DEF TimelineInv

\* A handler returns with a timeline to store, or without one.
LEMMA ReturnWith ==
    ASSUME TimelineInv, Remember, UNCHANGED incidents, RequestType,
           NEW r \in Requests, phase[r] = "authorized",
           phase' = [phase EXCEPT ![r] = "returned"],
           NEW d \in DraftType, draft' = [draft EXCEPT ![r] = d],
           d.timeline # << >> =>
               /\ d.incident \in Incidents
               /\ In(r, d.timeline)
               /\ \A s \in Requests \ {r} : Stored(s) /\ draft[s].incident = d.incident =>
                     Traced(s, d.timeline)
    PROVE  TimelineInv'
<1>1. MetInv' /\ met \subseteq met'
  BY MetStep
<1>2. /\ phase'[r] = "returned" /\ \A s \in Requests \ {r} : phase'[s] = phase[s]
      /\ draft'[r] = d /\ \A s \in Requests \ {r} : draft'[s] = draft[s]
      /\ draft' \in [Requests -> DraftType]
  BY DEF RequestType, TimelineInv, TimelineType
<1>3. \A s : \A t : Traced(s, t) => Traced(s, t)'
  BY <1>1 DEF Traced
<1>4. TimelineType'
  BY <1>2 DEF TimelineInv, TimelineType, Updates
<1>5. DraftInv'
  BY <1>2 DEF TimelineInv, DraftInv, Updates
<1>6. /\ ~Stored(r)' /\ ~Stored(r) /\ ~Closing(r)
      /\ Closing(r)' <=> d.timeline # << >>
      /\ \A s \in Requests \ {r} : (Stored(s)' <=> Stored(s)) /\ (Closing(s)' <=> Closing(s))
  BY <1>2 DEF Stored, Closing, Updates
<1>7. StoreInv'
  <2>1. ASSUME NEW q \in Requests \ {r}, Closing(q)'
        PROVE  /\ In(q, draft'[q].timeline)
               /\ \A s \in Requests \ {q} : Stored(s)' /\ draft'[s].incident = draft'[q].incident =>
                     Traced(s, draft[q].timeline)' \/ {q, s} \in met'
    BY <1>1, <1>2, <1>3, <1>6, <2>1 DEF TimelineInv, StoreInv
  <2>2. Closing(r)' =>
           /\ In(r, draft'[r].timeline)
           /\ \A s \in Requests \ {r} : Stored(s)' /\ draft'[s].incident = draft'[r].incident =>
                 Traced(s, draft[r].timeline)' \/ {r, s} \in met'
    BY <1>2, <1>3, <1>6
  <2>. QED
    BY <2>1, <2>2 DEF StoreInv
<1>8. TracedInv'
  BY <1>2, <1>3, <1>6 DEF TimelineInv, TracedInv
<1>. QED
  BY <1>1, <1>4, <1>5, <1>7, <1>8 DEF TimelineInv

LEMMA OpenIncidentStep ==
    ASSUME TimelineInv, RequestType, Remember, NEW r \in Requests, OpenIncident(r)
    PROVE  TimelineInv'
<1>1. /\ UNCHANGED incidents /\ phase[r] = "authorized"
      /\ phase' = [phase EXCEPT ![r] = "returned"]
  BY DEF OpenIncident, Begins, Return, data
<1>2. PICK i \in NextIncident :
        draft' = [draft EXCEPT ![r] = [draft[r] EXCEPT !.incident = i, !.status = "open",
                                                       !.timeline = <<r>>]]
  BY DEF OpenIncident, TimelineInv, TimelineType
<1>3. i \in Incidents /\ \A s \in Requests : draft[s].incident # i
  BY DEF NextIncident
<1> DEFINE d == [draft[r] EXCEPT !.incident = i, !.status = "open", !.timeline = <<r>>]
<1>4. /\ d \in DraftType /\ d.incident = i /\ d.timeline = <<r>>
  <2>1. draft[r] \in DraftType
    BY DEF TimelineInv, TimelineType
  <2>2. <<r>> \in Seq(Entries) /\ "open" \in Statuses
    BY DEF Entries, Statuses
  <2>. QED
    BY <1>3, <2>1, <2>2 DEF DraftType
<1>5. In(r, <<r>>)
  BY DEF In
<1>. HIDE DEF d
<1>6. draft' = [draft EXCEPT ![r] = d]
  BY <1>2 DEF d
<1>. QED
  BY <1>1, <1>3, <1>4, <1>5, <1>6, ReturnWith

LEMMA UpdateIncidentStep ==
    ASSUME TimelineInv, RequestType, Remember, NEW r \in Requests, UpdateIncident(r),
           phase' = [phase EXCEPT ![r] = "returned"] \/ Raise(r)
    PROVE  TimelineInv'
<1> DEFINE i      == call[r].incident
           old    == incidents[i]
           status == call[r].value
<1>1. UNCHANGED incidents /\ phase[r] = "authorized" /\ call[r].op = "update_incident"
  BY DEF UpdateIncident, Begins, data
<1>2. i \in Incidents /\ old.timeline \in Seq(Entries) /\ draft[r] \in DraftType
  <2>1. call[r] \in Calls
    BY <1>1 DEF RequestType
  <2>. QED
    BY <1>1, <2>1, ApiInputs DEF TimelineInv, TimelineType
<1>3. ~Updates(r) /\ draft[r].timeline = << >>
  BY <1>1 DEF TimelineInv, DraftInv, Updates
<1>4. CASE Raise(r)
  <2>1. draft' = draft /\ phase' = [phase EXCEPT ![r] = "failed"]
    BY <1>4 DEF Raise
  <2>2. \A s \in Requests : phase'[s] = phase[s] \/ phase'[s] = "failed"
    BY <2>1 DEF RequestType
  <2>3. draft' \in [Requests -> DraftType]
    BY <2>1 DEF TimelineInv, TimelineType
  <2>. QED
    BY <1>1, <2>1, <2>2, <2>3, TimelineFrame
<1>5. CASE ~Raise(r)
  <2> DEFINE entry == [status   |-> IF status = "note" THEN old.status ELSE status,
                       timeline |-> Timeline(old.timeline, r)]
             same  == [draft[r] EXCEPT !.incident = i]
             new   == [draft[r] EXCEPT !.incident = i, !.timeline = Timeline(old.timeline, r),
                                       !.status = IF status = "note" THEN "none" ELSE status]
  <2>1. /\ status \in Reachable(old.status) \cup {"note"}
        /\ phase' = [phase EXCEPT ![r] = "returned"]
        /\ draft' = [draft EXCEPT ![r] = IF status = old.status THEN same ELSE new]
    BY <1>5 DEF UpdateIncident, TimelineInv, TimelineType
  <2>2. Reachable(old.status) \subseteq Statuses
    BY DEF Reachable, Statuses
  <2>3. /\ Timeline(old.timeline, r) \in Seq(Entries)
        /\ In(r, Timeline(old.timeline, r))
        /\ \A q : In(q, old.timeline) => In(q, Timeline(old.timeline, r))
    BY <1>2, AppendEntry DEF Timeline
  <2>4. same \in DraftType /\ same.timeline = << >>
    BY <1>2, <1>3 DEF DraftType
  <2>5. (IF status = "note" THEN "none" ELSE status) \in Statuses \cup {"none"}
    BY <2>1, <2>2
  <2>6. new \in DraftType /\ new.incident = i /\ new.timeline = Timeline(old.timeline, r)
    BY <1>2, <2>3, <2>5 DEF DraftType
  <2>7. ASSUME NEW s \in Requests \ {r}, Stored(s), draft[s].incident = i
        PROVE  Traced(s, Timeline(old.timeline, r))
    <3>1. Traced(s, old.timeline)
      BY <2>7 DEF TimelineInv, TracedInv
    <3>. QED
      BY <2>3, <3>1 DEF Traced
  <2>. HIDE DEF same, new, entry
  <2>8. CASE status = old.status
    BY <1>1, <2>1, <2>4, <2>8, ReturnWith
  <2>9. CASE status # old.status
    BY <1>1, <1>2, <2>1, <2>3, <2>6, <2>7, <2>9, ReturnWith
  <2>. QED
    BY <2>8, <2>9
<1>. QED
  BY <1>4, <1>5

\* The handlers of auth/routes.py touch no incident.
LEMMA AccountHandlers ==
    ASSUME TimelineType, NEW r \in Requests, Handle(r), ~OpenIncident(r), ~UpdateIncident(r)
    PROVE  /\ draft' \in [Requests -> DraftType]
           /\ \A s \in Requests : /\ draft'[s].timeline = draft[s].timeline
                                  /\ draft'[s].incident = draft[s].incident
<1>1. draft \in [Requests -> DraftType]
  BY DEF TimelineType
<1>2. UNCHANGED draft \/ \E n \in SessionIds : draft' = [draft EXCEPT ![r].session = n]
  <2>1. Login(r) \/ Refresh(r) => \/ UNCHANGED draft
                                  \/ \E n \in NextSession : draft' = [draft EXCEPT ![r].session = n]
    BY DEF Login, Refresh, Raise
  <2>2. NextSession \subseteq SessionIds
    BY DEF NextSession
  <2>3. ~Login(r) /\ ~Refresh(r) => UNCHANGED draft
    BY DEF Handle, Logout, Register, CreateUser, Insert, UpdateProfile, ResetPassword, SetRole,
           SetActive, Raise
  <2>. QED
    BY <2>1, <2>2, <2>3
<1>3. CASE UNCHANGED draft
  BY <1>1, <1>3
<1>4. ASSUME NEW n \in SessionIds, draft' = [draft EXCEPT ![r].session = n]
      PROVE  /\ draft' \in [Requests -> DraftType]
             /\ \A s \in Requests : /\ draft'[s].timeline = draft[s].timeline
                                    /\ draft'[s].incident = draft[s].incident
  <2> DEFINE d == [draft[r] EXCEPT !.session = n]
  <2>1. d \in DraftType /\ d.timeline = draft[r].timeline /\ d.incident = draft[r].incident
    BY <1>1 DEF DraftType
  <2>2. draft' = [draft EXCEPT ![r] = d]
    BY <1>4
  <2>. HIDE DEF d
  <2>. QED
    BY <1>1, <2>1, <2>2
<1>. QED
  BY <1>2, <1>3, <1>4

LEMMA HandleTimeline ==
    ASSUME TimelineInv, RequestType, EntitledInv, Remember, NEW r \in Requests, Handle(r)
    PROVE  TimelineInv'
<1>1. UNCHANGED incidents /\ phase[r] = "authorized"
  BY HandlerRuns DEF data, Ran
<1>2. PICK to \in {"failed", "flushing", "returned"} : phase' = [phase EXCEPT ![r] = to]
  BY HandlerRuns DEF Ran
<1>3. phase'[r] = to /\ \A s \in Requests \ {r} : phase'[s] = phase[s]
  BY <1>2 DEF RequestType
<1>4. CASE ~OpenIncident(r) /\ ~UpdateIncident(r)
  <2>1. /\ draft' \in [Requests -> DraftType]
        /\ \A s \in Requests : /\ draft'[s].timeline = draft[s].timeline
                               /\ draft'[s].incident = draft[s].incident
    BY <1>4, AccountHandlers DEF TimelineInv
  <2>2. \A s \in Requests : phase'[s] = phase[s] \/ phase'[s] = "failed"
                             \/ (phase[s] = "authorized" /\ phase'[s] # "done")
    BY <1>1, <1>3
  <2>. QED
    BY <1>1, <2>1, <2>2, TimelineFrame
<1>5. CASE UpdateIncident(r)
  <2>1. phase' = [phase EXCEPT ![r] = "returned"] \/ Raise(r)
    BY <1>5 DEF UpdateIncident, Return
  <2>. QED
    BY <1>5, <2>1, UpdateIncidentStep
<1>. QED
  BY <1>4, <1>5, OpenIncidentStep

\* What a commit stores has the entry of its request and traces of all others.
LEMMA CommitTimeline ==
    ASSUME TimelineInv, RequestType, Remember, NEW r \in Requests, Commit(r)
    PROVE  TimelineInv'
<1> DEFINE j == draft[r].incident
           T == draft[r].timeline
<1>1. /\ UNCHANGED draft /\ phase[r] = "closing" /\ incidents' = StoredIncidents(r)
      /\ phase'[r] = "done" /\ \A s \in Requests \ {r} : phase'[s] = phase[s]
  BY DEF Commit, RequestType
<1>2. MetInv' /\ met \subseteq met'
  BY MetStep
<1>3. \A s : \A t : Traced(s, t) => Traced(s, t)'
  BY <1>2 DEF Traced
<1>4. ASSUME NEW i \in Incidents
      PROVE  incidents'[i].timeline = IF Updates(r) /\ i = j THEN T ELSE incidents[i].timeline
  <2>1. incidents'[i] = IF i # j \/ ~Updates(r) THEN incidents[i]
                        ELSE [status |-> IF draft[r].status = "none" THEN incidents[i].status
                                         ELSE draft[r].status,
                              timeline |-> T]
    BY <1>1 DEF StoredIncidents, Updates
  <2>. QED
    BY <2>1
<1>5. /\ \A s \in Requests : Updates(s)' <=> Updates(s)
      /\ \A s \in Requests \ {r} : (Stored(s)' <=> Stored(s)) /\ (Closing(s)' <=> Closing(s))
      /\ ~Closing(r)' /\ (Stored(r)' <=> Updates(r)) /\ (Closing(r) <=> Updates(r))
  BY <1>1 DEF Updates, Stored, Closing
<1>6. TimelineType'
  <2>1. \A i \in Incidents : incidents'[i].timeline \in Seq(Entries)
    <3>1. T \in Seq(Entries)
      BY DEF TimelineInv, TimelineType, DraftType
    <3>. QED
      BY <1>4, <3>1 DEF TimelineInv, TimelineType
  <2>. QED
    BY <1>1, <1>5, <2>1 DEF TimelineInv, TimelineType
<1>7. DraftInv'
  BY <1>1, <1>5 DEF TimelineInv, DraftInv
<1>8. StoreInv'
  <2>1. SUFFICES ASSUME NEW q \in Requests, Closing(q)'
                 PROVE  /\ In(q, draft[q].timeline)
                        /\ \A s \in Requests \ {q} :
                              Stored(s)' /\ draft[s].incident = draft[q].incident =>
                                 Traced(s, draft[q].timeline)' \/ {q, s} \in met'
    BY <1>1 DEF StoreInv
  <2>2. q # r /\ Closing(q)
    BY <1>5, <2>1
  <2>3. {q, r} \in met'
    <3>1. q \in InFlight /\ r \in InFlight
      BY <1>1, <2>2 DEF InFlight, Ended, Closing
    <3>. QED
      BY <1>2, <3>1 DEF TimelineInv, MetInv
  <2>4. ASSUME NEW s \in Requests \ {q, r}, Stored(s)', draft[s].incident = draft[q].incident
        PROVE  Traced(s, draft[q].timeline)' \/ {q, s} \in met'
    <3>1. Stored(s)
      BY <1>5, <2>4
    <3>2. Traced(s, draft[q].timeline) \/ {q, s} \in met
      BY <2>2, <2>4, <3>1 DEF TimelineInv, StoreInv
    <3>. QED
      BY <1>1, <1>2, <3>2 DEF Traced
  <2>. QED
    BY <2>2, <2>3, <2>4 DEF TimelineInv, StoreInv
<1>9. TracedInv'
  <2>1. SUFFICES ASSUME NEW s \in Requests, Stored(s)'
                 PROVE  Traced(s, incidents[draft[s].incident].timeline)'
    BY DEF TracedInv
  <2> DEFINE i == draft[s].incident
  <2>2. i \in Incidents
    BY <1>5, <2>1 DEF Stored, TimelineInv, TimelineType
  <2>3. CASE s = r
    <3>1. Updates(r) /\ incidents'[i].timeline = T /\ In(r, T)
      BY <1>4, <1>5, <2>1, <2>2, <2>3 DEF TimelineInv, StoreInv
    <3>. QED
      BY <1>1, <2>3, <3>1 DEF Traced
  <2>4. CASE s # r /\ Updates(r) /\ i = j
    <3>1. Stored(s) /\ Closing(r)
      BY <1>5, <2>1, <2>4
    <3>2. In(r, T) /\ (Traced(s, T) \/ {r, s} \in met)
      BY <2>4, <3>1 DEF TimelineInv, StoreInv
    <3>3. Traced(s, T)
      BY <2>4, <3>2 DEF Traced
    <3>4. incidents'[i].timeline = T
      BY <1>4, <2>2, <2>4
    <3>. QED
      BY <1>1, <1>2, <3>3, <3>4 DEF Traced
  <2>5. CASE s # r /\ ~(Updates(r) /\ i = j)
    <3>1. Traced(s, incidents[i].timeline)
      BY <1>5, <2>1, <2>5 DEF TimelineInv, TracedInv
    <3>2. incidents'[i].timeline = incidents[i].timeline
      BY <1>4, <2>2, <2>5
    <3>. QED
      BY <1>1, <1>2, <3>1, <3>2 DEF Traced
  <2>. QED
    BY <2>3, <2>4, <2>5
<1>. QED
  BY <1>2, <1>6, <1>7, <1>8, <1>9 DEF TimelineInv

LEMMA TimelineStep ==
    TimelineInv /\ RequestType /\ EntitledInv /\ [Next]_vars => TimelineInv'
<1> SUFFICES ASSUME TimelineInv, RequestType, EntitledInv, [Next]_vars
             PROVE  TimelineInv'
  OBVIOUS
<1>1. CASE Next
  <2>0. Step /\ Remember
    BY <1>1 DEF Next
  <2>1. ASSUME UNCHANGED <<incidents, draft>>,
               \A s \in Requests :
                   \/ phase'[s] = phase[s]
                   \/ phase'[s] \in {"failed", "lost"}
                   \/ /\ phase[s] \in {"unused", "accepted", "authorized", "flushing"}
                      /\ phase'[s] # "done"
                   \/ phase[s] = "returned" /\ phase'[s] = "closing"
        PROVE  TimelineInv'
    <3>1. draft' \in [Requests -> DraftType]
      BY <2>1 DEF TimelineInv, TimelineType
    <3>. QED
      BY <2>0, <2>1, <3>1, TimelineFrame
  <2>2. ASSUME NEW r \in Requests,
               \/ \E p \in Processes, c \in Calls : Accept(r, p, c)
               \/ Authorize(r) \/ Flush(r) \/ EmailTaken(r) \/ Dispatch(r)
        PROVE  TimelineInv'
    <3>1. UNCHANGED <<incidents, draft>>
      BY <2>2 DEF Accept, Authorize, Flush, EmailTaken, Dispatch, data
    <3>2. \/ /\ phase[r] \in {"unused", "accepted", "flushing"}
             /\ \E to \in {"accepted", "authorized", "failed", "returned"} :
                   phase' = [phase EXCEPT ![r] = to]
          \/ phase[r] = "returned" /\ phase' = [phase EXCEPT ![r] = "closing"]
      BY <2>2 DEF Accept, Authorize, Flush, EmailTaken, Dispatch
    <3>. QED
      BY <2>1, <3>1, <3>2 DEF RequestType
  <2>3. ASSUME (\E s \in SessionIds : Expire(s)) \/ (\E p \in Processes : Seed(p))
               \/ (\E g \in Defaults : OperatorRevokes(g))
        PROVE  TimelineInv'
    <3>1. UNCHANGED <<incidents, draft, phase>>
      BY <2>3 DEF Expire, Seed, SeedRead, SeedFlush, SeedCommit, OperatorRevokes, data, work
    <3>. QED
      BY <2>1, <3>1
  <2>4. ASSUME NEW p \in Processes, Crash(p)
        PROVE  TimelineInv'
    <3>1. /\ UNCHANGED <<incidents, draft>>
          /\ \A s \in Requests : phase'[s] = phase[s] \/ phase'[s] = "lost"
      BY <2>4 DEF Crash, data
    <3>. QED
      BY <2>1, <3>1
  <2>. QED
    BY <2>0, <2>2, <2>3, <2>4, HandleTimeline, CommitTimeline DEF Step, Progress
<1>2. CASE UNCHANGED vars
  BY <1>2 DEF vars, data, work, history, TimelineInv, TimelineType, MetInv, InFlight, DraftInv,
              StoreInv, TracedInv, Closing, Stored, Updates, Traced
<1>. QED
  BY <1>1, <1>2

LEMMA TimelineInit == Init => TimelineInv
<1> SUFFICES ASSUME Init
             PROVE  TimelineInv
  OBVIOUS
<1>1. draft = [r \in Requests |-> NoDraft] /\ phase = [r \in Requests |-> "unused"]
  BY DEF Init
<1>2. \A i \in Incidents : incidents[i].timeline \in Seq(Entries)
  BY ApiInputs DEF Init, Entries
<1>3. NoDraft \in DraftType
  <2>1. << >> \in Seq(Entries)
    OBVIOUS
  <2>. QED
    BY <2>1 DEF NoDraft, DraftType
<1>4. \A r \in Requests : ~Updates(r) /\ ~Stored(r) /\ ~Closing(r) /\ r \notin InFlight
  BY <1>1 DEF NoDraft, Updates, Stored, Closing, InFlight
<1>5. TimelineType /\ DraftInv
  BY <1>1, <1>2, <1>3, <1>4 DEF TimelineType, DraftInv
<1>6. MetInv
  BY <1>4 DEF MetInv, InFlight
<1>. QED
  BY <1>4, <1>5, <1>6 DEF TimelineInv, StoreInv, TracedInv

\* A timeline entry is lost only to an update that was served at the same time
\* (incident_service.py reads the timeline, extends it and writes it back).
THEOREM EntriesLostOnlyToOverlapHolds == Spec => []EntriesLostOnlyToOverlap
<1>1. Init => RequestType /\ EntitledInv
  BY TypeInit DEF Init, EntitledInv, Passed, Handled
<1>2. TimelineInv => EntriesLostOnlyToOverlap
  BY DEF TimelineInv, TracedInv, Traced, In, Stored, Updates, EntriesLostOnlyToOverlap
<1>. QED
  BY <1>1, <1>2, EntitledStep, TimelineInit, TimelineStep, PTL DEF Spec

-----------------------------------------------------------------------------
(* Accounts and sessions                                                   *)

Busy(r)     == phase[r] \in {"flushing", "returned", "closing"}
Creating(r) == call[r].op \in Creates
Target(r)   == IF call[r].op = "profile" THEN call[r].actor ELSE call[r].subject
Changes     == {"profile", "reset_password", "set_role", "deactivate", "reactivate"}

AccountType ==
    /\ accounts \in [Names -> Account \cup {NoAccount}]
    /\ DOMAIN rows = Requests
    /\ DOMAIN server = Processes
    /\ DOMAIN missing = Processes

\* A handler locks rows once, and no two open transactions have locked one.
LockInv ==
    /\ \A r \in Requests : phase[r] \in {"unused", "accepted", "authorized"} => rows[r] = {}
    /\ \A q, r \in Requests : q # r => Holds(q) \cap Holds(r) = {}

\* The dependency found the caller, and accounts are not deleted.
CallerInv ==
    \A r \in Requests : phase[r] = "authorized" /\ Needs(call[r].op) # "nothing" =>
        accounts[call[r].actor] # NoAccount

\* What a handler checked still holds when its transaction commits: the account
\* it changes is there, and the one it creates is not.  The lock on its row keeps
\* the others out.
ChangeInv ==
    \A r \in Requests : Busy(r) =>
        /\ call[r].op \in {"create_user", "set_role"} => call[r].value \in Roles
        /\ call[r].op \in Changes => accounts[Target(r)] # NoAccount
        /\ Creating(r) => /\ rows[r] = {<<"account", call[r].subject>>}
                          /\ phase[r] # "flushing" => accounts[call[r].subject] = NoAccount

CreatedInv ==
    \A r \in Requests : phase[r] = "done" /\ Creating(r) => accounts[call[r].subject] # NoAccount

\* Nobody is served before the first start has stored the administrator.
SeedInv ==
    \/ \E n \in Names : accounts[n] # NoAccount
    \/ /\ granted = {}
       /\ \A p \in Processes : server[p] # "up"
       /\ \A r \in Requests : phase[r] = "unused"

\* Of the requests that create accounts of one name, however they overlap in
\* whatever processes, at most one succeeds (register, create_user).
CreatedOnce ==
    \A q, r \in Requests :
        q # r /\ phase[q] = "done" /\ phase[r] = "done" /\ Creating(q) /\ Creating(r) =>
            call[q].subject # call[r].subject

AccountsInv ==
    AccountType /\ LockInv /\ CallerInv /\ ChangeInv /\ CreatedInv /\ SeedInv /\ CreatedOnce

\* The accounts differ in one column, if at all.
OneColumn(a, b) ==
    \/ b.role = a.role /\ b.password = a.password
    \/ b.active = a.active /\ b.password = a.password
    \/ b.active = a.active /\ b.role = a.role

AccountKept(n) ==
    accounts[n] # NoAccount =>
        accounts'[n] # NoAccount /\ OneColumn(accounts[n], accounts'[n])

\* No step deletes an account, puts another in its place or changes more than one
\* column of it: neither a creation whose name was free when its handler asked
\* (routes.py), nor another start's administrator (seed_default_data), nor an
\* update that loaded the row before others changed it.
AccountsAreKept == [][\A n \in Names : AccountKept(n)]_vars

SessionRow == [user : Names \cup {"none"}, revoked : BOOLEAN, expired : BOOLEAN]

\* The session a transaction is about to store is of a number nobody else has taken.
SessionInv ==
    /\ sessions \in [SessionIds -> SessionRow]
    /\ \A r \in Requests : phase[r] \in {"unused", "accepted", "authorized"} => draft[r].session = Nobody
    /\ \A q, r \in Requests : q # r /\ draft[q].session = draft[r].session => draft[r].session = Nobody
    /\ \A r \in Requests : Busy(r) /\ draft[r].session # Nobody => sessions[draft[r].session] = NoSession

SessionKept(s) ==
    sessions[s] # NoSession =>
        /\ sessions'[s].user = sessions[s].user
        /\ sessions[s].revoked => sessions'[s].revoked
        /\ sessions[s].expired => sessions'[s].expired

\* A refresh token that was revoked or has expired stays so, and no token ever
\* passes to another user, also when a login or a rotation commits meanwhile
\* (authentication.py).
SessionsEndForGood == [][\A s \in SessionIds : SessionKept(s)]_vars

-----------------------------------------------------------------------------
LEMMA NoAccountIsNone ==
    /\ NoAccount \notin Account
    /\ ~NoAccount.active
    /\ \A a \in Account : a.active \in BOOLEAN /\ a.role \in Roles /\ a.password \in Passwords
BY DEF NoAccount, Account, Passwords

LEMMA OpsApart ==
    /\ \A op \in Creates : op \notin Changes
    /\ Creates = {"register", "create_user"}
    /\ \A op \in {"profile", "set_role", "deactivate", "reactivate"} : Needs(op) # "nothing"
BY DEF Creates, Changes, Needs

\* What a handler leaves for its transaction to store.
HandlerLeaves(r) ==
    \/ phase' = [phase EXCEPT ![r] = "failed"] /\ UNCHANGED rows
    \/ /\ phase' = [phase EXCEPT ![r] = "returned"] /\ UNCHANGED rows
       /\ call[r].op \in {"open_incident", "update_incident"}
    \/ \E changed :
          /\ phase' = [phase EXCEPT ![r] = "flushing"]
          /\ rows' = [rows EXCEPT ![r] = changed]
          /\ call[r].op \in {"create_user", "set_role"} => call[r].value \in Roles
          /\ call[r].op \in Changes => accounts[Target(r)] # NoAccount
          /\ Creating(r) => changed = {<<"account", call[r].subject>>}

LEMMA HandlerRows ==
    ASSUME RequestType, EntitledInv, CallerInv, NEW r \in Requests, Handle(r)
    PROVE  HandlerLeaves(r)
<1>1. phase[r] = "authorized"
  BY HandlerRuns DEF Ran
<1>2. ASSUME Raise(r)
      PROVE  HandlerLeaves(r)
  BY <1>2 DEF Raise, HandlerLeaves
<1>3. ASSUME NEW changed, Change(r, changed),
             call[r].op \notin Changes, call[r].op \notin Creates
      PROVE  HandlerLeaves(r)
  <2>1. call[r].op \notin {"create_user", "set_role"}
    BY <1>3 DEF Changes, Creates
  <2>. QED
    BY <1>3, <2>1 DEF Change, HandlerLeaves, Creating
<1>4. CASE Login(r) \/ Refresh(r) \/ Logout(r)
  <2>1. call[r].op \in {"login", "refresh", "logout"}
    BY <1>4 DEF Login, Refresh, Logout, Begins
  <2>2. call[r].op \notin Changes /\ call[r].op \notin Creates
    BY <2>1 DEF Changes, Creates
  <2>3. Raise(r) \/ \E changed : Change(r, changed)
    BY <1>4 DEF Login, Refresh, Logout
  <2>. QED
    BY <1>2, <1>3, <2>2, <2>3
<1>5. CASE Register(r) \/ CreateUser(r)
  <2>1. /\ call[r].op \in Creates /\ call[r].op \notin Changes /\ call[r].op # "set_role"
        /\ call[r].op = "create_user" => call[r].value \in Roles \/ Raise(r)
    BY <1>5 DEF Register, CreateUser, Begins, Creates, Changes
  <2>2. Raise(r) \/ Change(r, {<<"account", call[r].subject>>})
    BY <1>5 DEF Register, CreateUser, Insert
  <2>3. CASE Raise(r)
    BY <1>2, <2>3
  <2>4. CASE ~Raise(r)
    BY <2>1, <2>2, <2>4 DEF Change, HandlerLeaves
  <2>. QED
    BY <2>3, <2>4
<1>6. ASSUME NEW changed, Change(r, changed), call[r].op \in Changes,
             accounts[Target(r)] # NoAccount,
             call[r].op = "set_role" => call[r].value \in Roles
      PROVE  HandlerLeaves(r)
  <2>1. ~Creating(r) /\ call[r].op # "create_user"
    BY <1>6, OpsApart DEF Creating, Changes
  <2>. QED
    BY <1>6, <2>1 DEF Change, HandlerLeaves
<1>7. AccountFor(r, call[r].subject) # NoAccount => accounts[call[r].subject] # NoAccount
  BY <1>1 DEF AccountFor, CallerInv
<1>8. CASE UpdateProfile(r)
  <2>1. call[r].op = "profile" /\ Needs(call[r].op) # "nothing"
    BY <1>8, OpsApart DEF UpdateProfile, Begins
  <2>2. accounts[Target(r)] # NoAccount
    BY <1>1, <2>1 DEF CallerInv, Target
  <2>3. Raise(r) \/ \E changed : Change(r, changed)
    BY <1>8 DEF UpdateProfile
  <2>. QED
    BY <1>2, <1>6, <2>1, <2>2, <2>3 DEF Changes
<1>9. CASE ResetPassword(r)
  <2>1. call[r].op = "reset_password"
    BY <1>9 DEF ResetPassword, Begins
  <2>2. Raise(r) \/ \E changed : Change(r, changed) /\ accounts[Target(r)] # NoAccount
    BY <1>9, <2>1 DEF ResetPassword, Target
  <2>. QED
    BY <1>2, <1>6, <2>1, <2>2 DEF Changes
<1>10. CASE SetRole(r)
  <2>1. call[r].op = "set_role"
    BY <1>10 DEF SetRole, Begins
  <2>2. Raise(r) \/ \E changed : /\ Change(r, changed)
                                 /\ accounts[Target(r)] # NoAccount /\ call[r].value \in Roles
    BY <1>7, <1>10, <2>1 DEF SetRole, Target
  <2>. QED
    BY <1>2, <1>6, <2>1, <2>2 DEF Changes
<1>11. CASE SetActive(r, "deactivate", FALSE) \/ SetActive(r, "reactivate", TRUE)
  <2>1. call[r].op \in {"deactivate", "reactivate"}
    BY <1>11 DEF SetActive, Begins
  <2>2. Raise(r) \/ \E changed : Change(r, changed) /\ accounts[Target(r)] # NoAccount
    BY <1>7, <1>11, <2>1 DEF SetActive, Target
  <2>. QED
    BY <1>2, <1>6, <2>1, <2>2 DEF Changes
<1>12. CASE OpenIncident(r) \/ UpdateIncident(r)
  <2>1. call[r].op \in {"open_incident", "update_incident"}
    BY <1>12 DEF OpenIncident, UpdateIncident, Begins
  <2>2. Raise(r) \/ Return(r)
    BY <1>12 DEF OpenIncident, UpdateIncident
  <2>. QED
    BY <1>2, <2>1, <2>2 DEF Return, HandlerLeaves
<1>. QED
  BY <1>4, <1>5, <1>8, <1>9, <1>10, <1>11, <1>12 DEF Handle

\* No account changes, no row is locked, and no request gets further than out.
LEMMA AccountsFrame ==
    ASSUME AccountsInv, UNCHANGED <<accounts, call, rows>>, SeedInv', DOMAIN server' = Processes /\ DOMAIN missing' = Processes,
           \A r \in Requests : \/ phase'[r] = phase[r]
                               \/ phase'[r] \in {"failed", "lost"}
                               \/ phase[r] = "returned" /\ phase'[r] = "closing"
    PROVE  AccountsInv'
<1>1. AccountType'
  BY DEF AccountsInv, AccountType
<1>2. LockInv'
  <2>1. \A r \in Requests : Holds(r)' \subseteq Holds(r)
    BY DEF Holds
  <2>2. \A q, r \in Requests : q # r => Holds(q)' \cap Holds(r)' = {}
    BY <2>1 DEF AccountsInv, LockInv
  <2>3. \A r \in Requests : phase'[r] \in {"unused", "accepted", "authorized"} => rows'[r] = {}
    BY DEF AccountsInv, LockInv
  <2>. QED
    BY <2>2, <2>3 DEF LockInv
<1>3. CallerInv'
  BY DEF AccountsInv, CallerInv
<1>4. ChangeInv'
  BY DEF AccountsInv, ChangeInv, Busy, Target, Creating
<1>5. CreatedInv' /\ CreatedOnce'
  BY DEF AccountsInv, CreatedInv, CreatedOnce, Creating
<1>. QED
  BY <1>1, <1>2, <1>3, <1>4, <1>5 DEF AccountsInv

LEMMA AcceptAccounts ==
    ASSUME RequestType, AccountsInv, NEW r \in Requests, NEW p \in Processes, NEW c \in Calls,
           Accept(r, p, c)
    PROVE  AccountsInv'
<1>1. /\ phase[r] = "unused" /\ server[p] = "up"
      /\ UNCHANGED <<accounts, granted, server, missing, rows>>
      /\ phase' = [phase EXCEPT ![r] = IF Needs(c.op) = "nothing" THEN "authorized" ELSE "accepted"]
      /\ call' = [call EXCEPT ![r] = c]
  BY DEF Accept, data, servers
<1>2. /\ \A s \in Requests \ {r} : phase'[s] = phase[s] /\ call'[s] = call[s]
      /\ phase'[r] \in {"accepted", "authorized"}
      /\ call'[r] = c
      /\ phase'[r] = "authorized" => Needs(c.op) = "nothing"
  BY <1>1 DEF RequestType
<1>3. AccountType'
  BY <1>1 DEF AccountsInv, AccountType
<1>4. LockInv'
  <2>1. \A s \in Requests : Holds(s)' \subseteq Holds(s)
    BY <1>1, <1>2 DEF Holds
  <2>2. \A q, s \in Requests : q # s => Holds(q)' \cap Holds(s)' = {}
    BY <2>1 DEF AccountsInv, LockInv
  <2>3. \A s \in Requests : phase'[s] \in {"unused", "accepted", "authorized"} => rows'[s] = {}
    BY <1>1, <1>2 DEF AccountsInv, LockInv
  <2>. QED
    BY <2>2, <2>3 DEF LockInv
<1>5. CallerInv'
  BY <1>1, <1>2 DEF AccountsInv, CallerInv
<1>6. ChangeInv'
  BY <1>1, <1>2 DEF AccountsInv, ChangeInv, Busy, Target, Creating
<1>7. CreatedInv' /\ CreatedOnce'
  BY <1>1, <1>2 DEF AccountsInv, CreatedInv, CreatedOnce, Creating
<1>8. SeedInv'
  BY <1>1 DEF AccountsInv, SeedInv
<1>. QED
  BY <1>3, <1>4, <1>5, <1>6, <1>7, <1>8 DEF AccountsInv

LEMMA AuthorizeAccounts ==
    ASSUME RequestType, AccountsInv, NEW r \in Requests, Authorize(r)
    PROVE  AccountsInv'
<1>1. /\ phase[r] = "accepted"
      /\ UNCHANGED <<accounts, granted, server, missing, rows, call>>
      /\ phase' = [phase EXCEPT ![r] =
                      IF May(accounts[call[r].actor], Needs(call[r].op)) THEN "authorized" ELSE "failed"]
  BY DEF Authorize, data, servers
<1>2. /\ \A s \in Requests \ {r} : phase'[s] = phase[s]
      /\ phase'[r] \in {"failed", "authorized"}
      /\ phase'[r] = "authorized" => May(accounts[call[r].actor], Needs(call[r].op))
  BY <1>1 DEF RequestType
<1>3. AccountType'
  BY <1>1 DEF AccountsInv, AccountType
<1>4. LockInv'
  <2>1. \A s \in Requests : Holds(s)' \subseteq Holds(s)
    BY <1>1, <1>2 DEF Holds
  <2>2. \A q, s \in Requests : q # s => Holds(q)' \cap Holds(s)' = {}
    BY <2>1 DEF AccountsInv, LockInv
  <2>3. \A s \in Requests : phase'[s] \in {"unused", "accepted", "authorized"} => rows'[s] = {}
    BY <1>1, <1>2 DEF AccountsInv, LockInv
  <2>. QED
    BY <2>2, <2>3 DEF LockInv
<1>5. CallerInv'
  <2>1. May(accounts[call[r].actor], Needs(call[r].op)) => accounts[call[r].actor] # NoAccount
    BY NoAccountIsNone DEF May
  <2>. QED
    BY <1>1, <1>2, <2>1 DEF AccountsInv, CallerInv
<1>6. ChangeInv'
  BY <1>1, <1>2 DEF AccountsInv, ChangeInv, Busy, Target, Creating
<1>7. CreatedInv' /\ CreatedOnce'
  BY <1>1, <1>2 DEF AccountsInv, CreatedInv, CreatedOnce, Creating
<1>8. SeedInv'
  BY <1>1, <1>2 DEF AccountsInv, SeedInv
<1>. QED
  BY <1>3, <1>4, <1>5, <1>6, <1>7, <1>8 DEF AccountsInv

LEMMA HandleAccounts ==
    ASSUME RequestType, EntitledInv, AccountsInv, NEW r \in Requests, Handle(r)
    PROVE  AccountsInv'
<1>1. UNCHANGED <<accounts, granted, server, missing, call>> /\ phase[r] = "authorized" /\ HandlerLeaves(r)
  BY HandlerRuns, HandlerRows DEF AccountsInv, Ran, data, servers, requests
<1>2. SeedInv'
  <2>1. \E n \in Names : accounts[n] # NoAccount
    BY <1>1 DEF AccountsInv, SeedInv
  <2>. QED
    BY <1>1, <2>1 DEF SeedInv
<1>3. CASE phase' = [phase EXCEPT ![r] = "failed"] /\ UNCHANGED rows
  <2>1. \A s \in Requests : phase'[s] = phase[s] \/ phase'[s] = "failed"
    BY <1>3 DEF RequestType
  <2>2. DOMAIN server' = Processes /\ DOMAIN missing' = Processes
    BY <1>1 DEF AccountsInv, AccountType
  <2>. QED
    BY <1>1, <1>2, <1>3, <2>1, <2>2, AccountsFrame
<1>4. ASSUME NEW changed, NEW to \in {"flushing", "returned"},
             phase' = [phase EXCEPT ![r] = to],
             rows'[r] = changed, \A s \in Requests \ {r} : rows'[s] = rows[s],
             DOMAIN rows' = Requests,
             to = "returned" => changed = {} /\ call[r].op \notin Creates,
             call[r].op \in {"create_user", "set_role"} => call[r].value \in Roles,
             call[r].op \in Changes => accounts[Target(r)] # NoAccount,
             Creating(r) => changed = {<<"account", call[r].subject>>}
      PROVE  AccountsInv'
  <2>1. /\ \A s \in Requests \ {r} : phase'[s] = phase[s] /\ rows'[s] = rows[s]
        /\ phase'[r] = to /\ rows'[r] = changed
        /\ DOMAIN rows' = Requests
    BY <1>4 DEF RequestType, AccountsInv, AccountType
  <2>2. AccountType'
    BY <1>1, <2>1 DEF AccountsInv, AccountType
  <2>3. LockInv'
    <3>1. /\ \A s \in Requests \ {r} : Holds(s)' = Holds(s)
          /\ Holds(r)' = {}
      <4>1. \A s \in Requests \ {r} : Holds(s)' = Holds(s)
        BY <2>1 DEF Holds
      <4>2. CASE to = "flushing"
        BY <2>1, <4>1, <4>2 DEF Holds
      <4>3. CASE to = "returned"
        BY <1>4, <2>1, <4>1, <4>3 DEF Holds
      <4>. QED
        BY <4>2, <4>3
    <3>2. \A q, s \in Requests : q # s => Holds(q)' \cap Holds(s)' = {}
      BY <3>1 DEF AccountsInv, LockInv
    <3>3. \A s \in Requests : phase'[s] \in {"unused", "accepted", "authorized"} => rows'[s] = {}
      BY <2>1 DEF AccountsInv, LockInv
    <3>. QED
      BY <3>2, <3>3 DEF LockInv
  <2>4. CallerInv'
    BY <1>1, <2>1 DEF AccountsInv, CallerInv
  <2>5. ChangeInv'
    <3>1. ASSUME NEW s \in Requests \ {r}, Busy(s)'
          PROVE  /\ call'[s].op \in {"create_user", "set_role"} => call'[s].value \in Roles
                 /\ call'[s].op \in Changes => accounts'[Target(s)'] # NoAccount
                 /\ Creating(s)' => /\ rows'[s] = {<<"account", call'[s].subject>>}
                                    /\ phase'[s] # "flushing" => accounts'[call'[s].subject] = NoAccount
      BY <1>1, <2>1, <3>1 DEF AccountsInv, ChangeInv, Busy, Target, Creating
    <3>2. /\ call'[r].op \in {"create_user", "set_role"} => call'[r].value \in Roles
          /\ call'[r].op \in Changes => accounts'[Target(r)'] # NoAccount
          /\ Creating(r)' => /\ rows'[r] = {<<"account", call'[r].subject>>}
                             /\ phase'[r] # "flushing" => accounts'[call'[r].subject] = NoAccount
      BY <1>1, <1>4, <2>1 DEF Target, Creating
    <3>. QED
      BY <3>1, <3>2 DEF ChangeInv
  <2>6. CreatedInv' /\ CreatedOnce'
    BY <1>1, <2>1 DEF AccountsInv, CreatedInv, CreatedOnce, Creating
  <2>. QED
    BY <1>2, <2>2, <2>3, <2>4, <2>5, <2>6 DEF AccountsInv
<1>5. CASE /\ phase' = [phase EXCEPT ![r] = "returned"] /\ UNCHANGED rows
           /\ call[r].op \in {"open_incident", "update_incident"}
  <2>1. rows[r] = {}
    BY <1>1 DEF AccountsInv, LockInv
  <2>2. rows'[r] = {} /\ \A s \in Requests \ {r} : rows'[s] = rows[s]
    BY <1>5, <2>1
  <2>3. DOMAIN rows' = Requests
    BY <1>5 DEF AccountsInv, AccountType
  <2>4. ~Creating(r) /\ call[r].op \notin Changes /\ call[r].op \notin {"create_user", "set_role"}
    BY <1>5 DEF Creating, Creates, Changes
  <2>5. call[r].op \notin Creates
    BY <2>4 DEF Creating
  <2>. QED
    BY <1>4, <1>5, <2>2, <2>3, <2>4, <2>5
<1>6. ASSUME NEW changed,
             phase' = [phase EXCEPT ![r] = "flushing"], rows' = [rows EXCEPT ![r] = changed],
             call[r].op \in {"create_user", "set_role"} => call[r].value \in Roles,
             call[r].op \in Changes => accounts[Target(r)] # NoAccount,
             Creating(r) => changed = {<<"account", call[r].subject>>}
      PROVE  AccountsInv'
  <2>1. /\ rows'[r] = changed /\ \A s \in Requests \ {r} : rows'[s] = rows[s]
        /\ DOMAIN rows' = Requests
    BY <1>6 DEF AccountsInv, AccountType
  <2>. QED
    BY <1>4, <1>6, <2>1
<1>. QED
  BY <1>1, <1>3, <1>5, <1>6 DEF HandlerLeaves

LEMMA FlushAccounts ==
    ASSUME RequestType, AccountsInv, NEW r \in Requests, Flush(r)
    PROVE  AccountsInv'
<1>1. /\ phase[r] = "flushing"
      /\ UNCHANGED <<accounts, granted, server, missing, call, rows>>
      /\ \A q \in Requests : ~Blocks(q, r)
      /\ phase' = [phase EXCEPT ![r] = IF Taken(r) THEN "failed" ELSE "returned"]
  BY DEF Flush, data, servers, requests
<1>2. SeedInv'
  BY <1>1 DEF AccountsInv, SeedInv
<1>3. CASE Taken(r)
  <2>1. \A s \in Requests : phase'[s] = phase[s] \/ phase'[s] = "failed"
    BY <1>1, <1>3 DEF RequestType
  <2>2. DOMAIN server' = Processes /\ DOMAIN missing' = Processes
    BY <1>1 DEF AccountsInv, AccountType
  <2>. QED
    BY <1>1, <1>2, <2>1, <2>2, AccountsFrame
<1>4. CASE ~Taken(r)
  <2>1. phase'[r] = "returned" /\ \A s \in Requests \ {r} : phase'[s] = phase[s]
    BY <1>1, <1>4 DEF RequestType
  <2>2. AccountType'
    BY <1>1 DEF AccountsInv, AccountType
  <2>3. LockInv'
    <3>1. \A s \in Requests \ {r} : Holds(s)' = Holds(s)
      BY <1>1, <2>1 DEF Holds
    <3>2. Holds(r)' = rows[r]
      BY <1>1, <2>1 DEF Holds
    <3>3. \A q \in Requests \ {r} : Holds(q) \cap rows[r] = {}
      BY <1>1 DEF Blocks
    <3>4. \A q, s \in Requests : q # s => Holds(q)' \cap Holds(s)' = {}
      BY <3>1, <3>2, <3>3 DEF AccountsInv, LockInv
    <3>5. \A s \in Requests : phase'[s] \in {"unused", "accepted", "authorized"} => rows'[s] = {}
      BY <1>1, <2>1 DEF AccountsInv, LockInv
    <3>. QED
      BY <3>4, <3>5 DEF LockInv
  <2>4. CallerInv'
    BY <1>1, <2>1 DEF AccountsInv, CallerInv
  <2>5. ChangeInv'
    <3>1. Creating(r) => accounts[call[r].subject] = NoAccount
      BY <1>4 DEF Taken, Creating
    <3>2. \A s \in Requests : Busy(s)' => Busy(s)
      BY <1>1, <2>1 DEF Busy
    <3>3. \A s \in Requests : phase'[s] # "flushing" => phase[s] # "flushing" \/ s = r
      BY <2>1
    <3>. QED
      BY <1>1, <3>1, <3>2, <3>3 DEF AccountsInv, ChangeInv, Target, Creating
  <2>6. CreatedInv' /\ CreatedOnce'
    BY <1>1, <2>1 DEF AccountsInv, CreatedInv, CreatedOnce, Creating
  <2>. QED
    BY <1>2, <2>2, <2>3, <2>4, <2>5, <2>6 DEF AccountsInv
<1>. QED
  BY <1>3, <1>4

\* What a transaction stores in the users table: an account that was not there, or
\* one column of one that was.
LEMMA CommitWrites ==
    ASSUME RequestType, AccountsInv, NEW r \in Requests, Commit(r)
    PROVE  /\ accounts' \in [Names -> Account \cup {NoAccount}]
           /\ \A n \in Names : AccountKept(n)
           /\ \A n \in Names : accounts'[n] # accounts[n] => <<"account", n>> \in Holds(r)
           /\ Creating(r) => accounts'[call[r].subject] # NoAccount
<1> DEFINE name == Target(r)
<1>1. phase[r] = "closing" /\ accounts' = StoredAccounts(r) /\ call[r] \in Calls
  BY DEF Commit, RequestType
<1>2. /\ name \in Names /\ call[r].subject \in Names
      /\ accounts \in [Names -> Account \cup {NoAccount}]
  BY <1>1, ApiInputs DEF Target, AccountsInv, AccountType
<1>3. /\ call[r].op \in {"create_user", "set_role"} => call[r].value \in Roles
      /\ call[r].op \in Changes => accounts[name] # NoAccount
      /\ Creating(r) => /\ rows[r] = {<<"account", call[r].subject>>}
                        /\ accounts[call[r].subject] = NoAccount
  BY <1>1 DEF AccountsInv, ChangeInv, Busy
<1>4. CASE accounts' = accounts /\ ~Creating(r)
  BY <1>2, <1>4 DEF AccountKept, OneColumn
<1>5. ASSUME NEW a \in Account, accounts' = [accounts EXCEPT ![name] = a],
             <<"account", name>> \in rows[r],
             accounts[name] # NoAccount => OneColumn(accounts[name], a),
             Creating(r) => name = call[r].subject
      PROVE  /\ accounts' \in [Names -> Account \cup {NoAccount}]
             /\ \A n \in Names : AccountKept(n)
             /\ \A n \in Names : accounts'[n] # accounts[n] => <<"account", n>> \in Holds(r)
             /\ Creating(r) => accounts'[call[r].subject] # NoAccount
  <2>1. accounts'[name] = a /\ a # NoAccount /\ \A n \in Names \ {name} : accounts'[n] = accounts[n]
    BY <1>2, <1>5, NoAccountIsNone
  <2>2. accounts' \in [Names -> Account \cup {NoAccount}]
    BY <1>2, <1>5
  <2>3. \A n \in Names : AccountKept(n)
    BY <1>5, <2>1 DEF AccountKept, OneColumn
  <2>4. Holds(r) = rows[r]
    BY <1>1 DEF Holds
  <2>. QED
    BY <1>5, <2>1, <2>2, <2>3, <2>4
<1>6. CASE Creating(r)
  <2>1. name = call[r].subject /\ <<"account", name>> \in rows[r]
    BY <1>3, <1>6, OpsApart DEF Creating, Target
  <2>2. PICK role \in Roles :
          accounts' = [accounts EXCEPT ![name] = [active |-> TRUE, role |-> role, password |-> "old"]]
    <3>1. CASE call[r].op = "register"
      BY <1>1, <2>1, <3>1, ApiConstants DEF StoredAccounts
    <3>2. CASE call[r].op = "create_user"
      BY <1>1, <1>3, <2>1, <3>2 DEF StoredAccounts
    <3>. QED
      BY <1>6, <3>1, <3>2, OpsApart DEF Creating
  <2>3. [active |-> TRUE, role |-> role, password |-> "old"] \in Account
    BY DEF Account, Passwords
  <2>4. accounts[name] = NoAccount
    BY <1>3, <1>6, <2>1
  <2>. QED
    BY <1>5, <2>1, <2>2, <2>3, <2>4
<1>7. ASSUME call[r].op \in Changes, <<"account", name>> \in rows[r], NEW a,
             accounts' = [accounts EXCEPT ![name] = a],
             \/ \E v \in BOOLEAN : a = [accounts[name] EXCEPT !.active = v]
             \/ \E v \in Roles : a = [accounts[name] EXCEPT !.role = v]
             \/ \E v \in Passwords : a = [accounts[name] EXCEPT !.password = v]
      PROVE  /\ accounts' \in [Names -> Account \cup {NoAccount}]
             /\ \A n \in Names : AccountKept(n)
             /\ \A n \in Names : accounts'[n] # accounts[n] => <<"account", n>> \in Holds(r)
             /\ Creating(r) => accounts'[call[r].subject] # NoAccount
  <2>1. accounts[name] \in Account
    BY <1>2, <1>3, <1>7
  <2>2. a \in Account /\ OneColumn(accounts[name], a)
    BY <1>7, <2>1 DEF Account, OneColumn
  <2>3. ~Creating(r)
    BY <1>7, OpsApart DEF Creating
  <2>. QED
    BY <1>5, <1>7, <2>2, <2>3
<1>8. CASE ~Creating(r) /\ <<"account", name>> \in rows[r]
  <2>1. call[r].op \notin {"register", "create_user"}
    BY <1>8, OpsApart DEF Creating
  <2>2. CASE call[r].op = "set_role"
    <3>1. accounts' = [accounts EXCEPT ![name].role = call[r].value]
      BY <1>1, <1>8, <2>2 DEF StoredAccounts, Target
    <3>2. accounts' = [accounts EXCEPT ![name] = [accounts[name] EXCEPT !.role = call[r].value]]
      BY <1>2, <3>1
    <3>. QED
      BY <1>3, <1>7, <1>8, <2>2, <3>2 DEF Changes
  <2>3. CASE call[r].op \in {"deactivate", "reactivate"}
    <3>1. PICK v \in BOOLEAN : accounts' = [accounts EXCEPT ![name].active = v]
      BY <1>1, <1>8, <2>3 DEF StoredAccounts, Target
    <3>2. accounts' = [accounts EXCEPT ![name] = [accounts[name] EXCEPT !.active = v]]
      BY <1>2, <3>1
    <3>. QED
      BY <1>7, <1>8, <2>3, <3>2 DEF Changes
  <2>4. CASE call[r].op = "reset_password" \/ (call[r].op = "profile" /\ call[r].value # "email")
    <3>1. accounts' = [accounts EXCEPT ![name].password = "new"]
      BY <1>1, <1>8, <2>4 DEF StoredAccounts, Target
    <3>2. accounts' = [accounts EXCEPT ![name] = [accounts[name] EXCEPT !.password = "new"]]
      BY <1>2, <3>1
    <3>. QED
      BY <1>7, <1>8, <2>4, <3>2 DEF Changes, Passwords
  <2>5. CASE /\ call[r].op \notin {"set_role", "deactivate", "reactivate", "reset_password"}
             /\ ~(call[r].op = "profile" /\ call[r].value # "email")
    <3>1. accounts' = accounts
      BY <1>1, <1>8, <2>1, <2>5 DEF StoredAccounts
    <3>. QED
      BY <1>4, <1>8, <3>1
  <2>. QED
    BY <2>2, <2>3, <2>4, <2>5
<1>9. CASE <<"account", name>> \notin rows[r]
  <2>1. accounts' = accounts
    BY <1>1, <1>9 DEF StoredAccounts, Target
  <2>2. ~Creating(r)
    BY <1>3, <1>9, OpsApart DEF Creating, Target
  <2>. QED
    BY <1>4, <2>1, <2>2
<1>. QED
  BY <1>6, <1>8, <1>9

LEMMA CommitAccounts ==
    ASSUME RequestType, AccountsInv, NEW r \in Requests, Commit(r)
    PROVE  AccountsInv'
<1>1. /\ phase[r] = "closing"
      /\ UNCHANGED <<granted, server, missing, call, rows>>
      /\ phase' = [phase EXCEPT ![r] = "done"]
  BY DEF Commit, servers, requests
<1>2. /\ phase'[r] = "done" /\ \A s \in Requests \ {r} : phase'[s] = phase[s]
  BY <1>1 DEF RequestType
<1>3. /\ accounts' \in [Names -> Account \cup {NoAccount}]
      /\ \A n \in Names : accounts[n] # NoAccount => accounts'[n] # NoAccount
      /\ \A n \in Names : accounts'[n] # accounts[n] => <<"account", n>> \in Holds(r)
      /\ Creating(r) => accounts'[call[r].subject] # NoAccount
  BY CommitWrites DEF AccountKept
<1>4. \A s \in Requests : phase[s] # "unused" =>
         call[s].subject \in Names /\ call[s].actor \in Names /\ Target(s) \in Names
  BY ApiInputs DEF RequestType, Target
<1>5. AccountType'
  BY <1>1, <1>3 DEF AccountsInv, AccountType
<1>6. LockInv'
  <2>1. \A s \in Requests : Holds(s)' \subseteq Holds(s)
    BY <1>1, <1>2 DEF Holds
  <2>2. \A q, s \in Requests : q # s => Holds(q)' \cap Holds(s)' = {}
    BY <2>1 DEF AccountsInv, LockInv
  <2>3. \A s \in Requests : phase'[s] \in {"unused", "accepted", "authorized"} => rows'[s] = {}
    BY <1>1, <1>2 DEF AccountsInv, LockInv
  <2>. QED
    BY <2>2, <2>3 DEF LockInv
<1>7. CallerInv'
  BY <1>1, <1>2, <1>3, <1>4 DEF AccountsInv, CallerInv
<1>8. ChangeInv'
  <2> SUFFICES ASSUME NEW s \in Requests, Busy(s)'
               PROVE  /\ call[s].op \in {"create_user", "set_role"} => call[s].value \in Roles
                      /\ call[s].op \in Changes => accounts'[Target(s)] # NoAccount
                      /\ Creating(s) =>
                            /\ rows[s] = {<<"account", call[s].subject>>}
                            /\ phase'[s] # "flushing" => accounts'[call[s].subject] = NoAccount
    BY <1>1 DEF ChangeInv, Target, Creating
  <2>1. s # r /\ Busy(s) /\ phase'[s] = phase[s] /\ phase[s] # "unused"
    BY <1>2 DEF Busy
  <2>2. /\ call[s].op \in {"create_user", "set_role"} => call[s].value \in Roles
        /\ call[s].op \in Changes => accounts'[Target(s)] # NoAccount
    BY <1>3, <1>4, <2>1 DEF AccountsInv, ChangeInv
  <2>3. Creating(s) => rows[s] = {<<"account", call[s].subject>>}
    BY <2>1 DEF AccountsInv, ChangeInv
  <2>4. ASSUME Creating(s), phase[s] # "flushing"
        PROVE  accounts'[call[s].subject] = NoAccount
    <3>1. <<"account", call[s].subject>> \in Holds(s)
      BY <2>1, <2>3, <2>4 DEF Busy, Holds
    <3>2. <<"account", call[s].subject>> \notin Holds(r)
      BY <2>1, <3>1 DEF AccountsInv, LockInv
    <3>3. accounts'[call[s].subject] = accounts[call[s].subject]
      BY <1>3, <1>4, <2>1, <3>2
    <3>. QED
      BY <2>1, <2>4, <3>3 DEF AccountsInv, ChangeInv
  <2>. QED
    BY <2>1, <2>2, <2>3, <2>4
<1>9. CreatedInv'
  <2>1. \A s \in Requests \ {r} : phase[s] = "done" /\ Creating(s) => accounts'[call[s].subject] # NoAccount
    BY <1>3, <1>4 DEF AccountsInv, CreatedInv
  <2>. QED
    BY <1>1, <1>2, <1>3, <2>1 DEF CreatedInv, Creating
<1>10. CreatedOnce'
  <2>1. Creating(r) => accounts[call[r].subject] = NoAccount
    BY <1>1 DEF AccountsInv, ChangeInv, Busy
  <2>2. \A s \in Requests \ {r} : phase[s] = "done" /\ Creating(s) /\ Creating(r) =>
           call[s].subject # call[r].subject
    BY <2>1 DEF AccountsInv, CreatedInv
  <2>. QED
    BY <1>1, <1>2, <2>2 DEF AccountsInv, CreatedOnce, Creating
<1>11. SeedInv'
  <2>1. \E n \in Names : accounts[n] # NoAccount
    BY <1>1 DEF AccountsInv, SeedInv
  <2>. QED
    BY <1>3, <2>1 DEF SeedInv
<1>. QED
  BY <1>5, <1>6, <1>7, <1>8, <1>9, <1>10, <1>11 DEF AccountsInv

LEMMA SeedAccounts ==
    ASSUME RequestType, AccountsInv, NEW p \in Processes, Seed(p)
    PROVE  AccountsInv' /\ \A n \in Names : AccountKept(n)
<1>1. UNCHANGED <<call, phase, rows>>
  BY DEF Seed, SeedRead, SeedFlush, SeedCommit, requests, work
<1>2. \A r \in Requests : phase'[r] = phase[r]
  BY <1>1
<1>3. CASE SeedRead(p) \/ SeedFlush(p)
  <2>1. UNCHANGED <<accounts, granted>>
    BY <1>3 DEF SeedRead, SeedFlush, data
  <2>2. DOMAIN server' = Processes /\ DOMAIN missing' = Processes
    BY <1>3 DEF SeedRead, SeedFlush, AccountsInv, AccountType
  <2>3. SeedInv'
    <3>1. CASE \E n \in Names : accounts[n] # NoAccount
      BY <2>1, <3>1 DEF SeedInv
    <3>2. CASE ~\E n \in Names : accounts[n] # NoAccount
      <4>1. /\ granted = {} /\ \A q \in Processes : server[q] # "up"
            /\ \A r \in Requests : phase[r] = "unused"
        BY <3>2 DEF AccountsInv, SeedInv
      <4>2. \A q \in Processes : server'[q] # "up"
        <5>1. CASE SeedRead(p)
          <6>1. server' = [server EXCEPT ![p] = IF missing'[p] = {} THEN "up" ELSE "seeding"]
            BY <5>1 DEF SeedRead
          <6>2. missing' = [missing EXCEPT ![p] = Defaults \ granted]
            BY <5>1 DEF SeedRead
          <6>3. missing'[p] # {}
            BY <4>1, <6>2, ApiConstants DEF AccountsInv, AccountType
          <6>. QED
            BY <4>1, <6>1, <6>3 DEF AccountsInv, AccountType
        <5>2. CASE SeedFlush(p)
          BY <4>1, <5>2 DEF SeedFlush, SeedOutcome, AccountsInv, AccountType
        <5>. QED
          BY <1>3, <5>1, <5>2
      <4>. QED
        BY <1>1, <2>1, <4>1, <4>2 DEF SeedInv
    <3>. QED
      BY <3>1, <3>2
  <2>4. \A n \in Names : AccountKept(n)
    BY <2>1 DEF AccountKept, OneColumn
  <2>. QED
    BY <1>1, <1>2, <2>1, <2>2, <2>3, <2>4, AccountsFrame
<1>4. CASE SeedCommit(p)
  <2>1. DOMAIN server' = Processes /\ DOMAIN missing' = Processes
    BY <1>4 DEF SeedCommit, AccountsInv, AccountType
  <2>2. CASE \E n \in Names : accounts[n] # NoAccount
    <3>1. UNCHANGED accounts
      BY <1>4, <2>2 DEF SeedCommit
    <3>2. SeedInv' /\ \A n \in Names : AccountKept(n)
      BY <2>2, <3>1 DEF SeedInv, AccountKept, OneColumn
    <3>. QED
      BY <1>1, <1>2, <2>1, <3>1, <3>2, AccountsFrame
  <2>3. CASE \A n \in Names : accounts[n] = NoAccount
    <3> DEFINE first == [active |-> TRUE, role |-> "Admin", password |-> "old"]
    <3>1. accounts' = [accounts EXCEPT ![Admin] = first]
      BY <1>4, <2>3 DEF SeedCommit
    <3>2. first \in Account
      BY ApiConstants DEF Account, Passwords
    <3>3. accounts' \in [Names -> Account \cup {NoAccount}] /\ accounts'[Admin] = first
      BY <3>1, <3>2, ApiConstants DEF AccountsInv, AccountType
    <3>4. SeedInv'
      BY <3>2, <3>3, ApiConstants, NoAccountIsNone DEF SeedInv
    <3>5. \A r \in Requests : phase[r] = "unused"
      BY <2>3 DEF AccountsInv, SeedInv
    <3>6. AccountType'
      BY <1>1, <2>1, <3>3 DEF AccountsInv, AccountType
    <3>7. LockInv'
      BY <1>1 DEF AccountsInv, LockInv, Holds
    <3>8. CallerInv' /\ ChangeInv' /\ CreatedInv' /\ CreatedOnce'
      BY <1>1, <3>5 DEF CallerInv, ChangeInv, CreatedInv, CreatedOnce, Busy
    <3>9. \A n \in Names : AccountKept(n)
      BY <2>3 DEF AccountKept
    <3>. QED
      BY <3>4, <3>6, <3>7, <3>8, <3>9 DEF AccountsInv
  <2>. QED
    BY <2>2, <2>3
<1>. QED
  BY <1>3, <1>4 DEF Seed

LEMMA AccountsStep ==
    RequestType /\ EntitledInv /\ AccountsInv /\ [Next]_vars =>
        AccountsInv' /\ \A n \in Names : AccountKept(n)
<1> SUFFICES ASSUME RequestType, EntitledInv, AccountsInv, [Next]_vars
             PROVE  AccountsInv' /\ \A n \in Names : AccountKept(n)
  OBVIOUS
<1>1. UNCHANGED accounts => \A n \in Names : AccountKept(n)
  BY DEF AccountKept, OneColumn
<1>2. ASSUME NEW r \in Requests, NEW p \in Processes, NEW c \in Calls, Accept(r, p, c)
      PROVE  AccountsInv' /\ UNCHANGED accounts
  BY <1>2, AcceptAccounts DEF Accept, data
<1>3. ASSUME NEW r \in Requests, Authorize(r)
      PROVE  AccountsInv' /\ UNCHANGED accounts
  BY <1>3, AuthorizeAccounts DEF Authorize, data
<1>4. ASSUME NEW r \in Requests, Handle(r)
      PROVE  AccountsInv' /\ UNCHANGED accounts
  BY <1>4, HandleAccounts, HandlerRuns DEF data
<1>5. ASSUME NEW r \in Requests, Flush(r)
      PROVE  AccountsInv' /\ UNCHANGED accounts
  BY <1>5, FlushAccounts DEF Flush, data
<1>6. ASSUME NEW r \in Requests, EmailTaken(r) \/ Dispatch(r)
      PROVE  AccountsInv' /\ UNCHANGED accounts
  <2>1. UNCHANGED <<accounts, granted, server, missing, call, rows>>
    BY <1>6 DEF EmailTaken, Dispatch, data, servers, requests
  <2>2. \/ phase[r] = "flushing" /\ phase' = [phase EXCEPT ![r] = "failed"]
        \/ phase[r] = "returned" /\ phase' = [phase EXCEPT ![r] = "closing"]
    BY <1>6 DEF EmailTaken, Dispatch
  <2>3. SeedInv'
    BY <2>1, <2>2 DEF AccountsInv, SeedInv
  <2>4. DOMAIN server' = Processes /\ DOMAIN missing' = Processes
    BY <2>1 DEF AccountsInv, AccountType
  <2>5. \A s \in Requests : \/ phase'[s] = phase[s]
                            \/ phase'[s] = "failed"
                            \/ phase[s] = "returned" /\ phase'[s] = "closing"
    BY <2>2 DEF RequestType
  <2>. QED
    BY <2>1, <2>3, <2>4, <2>5, AccountsFrame
<1>7. ASSUME (\E s \in SessionIds : Expire(s)) \/ (\E g \in Defaults : OperatorRevokes(g))
      PROVE  AccountsInv' /\ UNCHANGED accounts
  <2>1. /\ UNCHANGED <<accounts, server, missing, call, rows, phase>>
        /\ granted' \subseteq granted
    BY <1>7 DEF Expire, OperatorRevokes, requests, work
  <2>2. SeedInv'
    BY <2>1 DEF AccountsInv, SeedInv
  <2>3. DOMAIN server' = Processes /\ DOMAIN missing' = Processes
    BY <2>1 DEF AccountsInv, AccountType
  <2>. QED
    BY <2>1, <2>2, <2>3, AccountsFrame
<1>8. ASSUME NEW p \in Processes, Crash(p)
      PROVE  AccountsInv' /\ UNCHANGED accounts
  <2>1. /\ UNCHANGED <<accounts, granted, missing, call, rows>>
        /\ server[p] = "up" /\ server' = [server EXCEPT ![p] = "down"]
        /\ \A r \in Requests : phase'[r] = phase[r] \/ phase'[r] = "lost"
    BY <1>8 DEF Crash, data, requests
  <2>2. SeedInv'
    BY <2>1 DEF AccountsInv, SeedInv
  <2>3. DOMAIN server' = Processes /\ DOMAIN missing' = Processes
    BY <2>1 DEF AccountsInv, AccountType
  <2>. QED
    BY <2>1, <2>2, <2>3, AccountsFrame
<1>9. CASE UNCHANGED vars
  <2>1. UNCHANGED <<accounts, granted, server, missing, call, rows, phase>>
    BY <1>9 DEF vars, data, servers, requests, work
  <2>2. SeedInv'
    BY <2>1 DEF AccountsInv, SeedInv
  <2>3. DOMAIN server' = Processes /\ DOMAIN missing' = Processes
    BY <2>1 DEF AccountsInv, AccountType
  <2>. QED
    BY <1>1, <2>1, <2>2, <2>3, AccountsFrame
<1>10. ASSUME NEW r \in Requests, Commit(r)
       PROVE  AccountsInv' /\ \A n \in Names : AccountKept(n)
  BY <1>10, CommitAccounts, CommitWrites
<1>11. ASSUME NEW p \in Processes, Seed(p)
       PROVE  AccountsInv' /\ \A n \in Names : AccountKept(n)
  BY <1>11, SeedAccounts
<1>. QED
  BY <1>1, <1>2, <1>3, <1>4, <1>5, <1>6, <1>7, <1>8, <1>9, <1>10, <1>11
  DEF Next, Step, Progress

LEMMA AccountsInit == Init => AccountsInv
<1> SUFFICES ASSUME Init PROVE AccountsInv
  OBVIOUS
<1>1. PICK db \in Databases : /\ accounts = db.accounts /\ granted = db.granted
                              /\ server = [p \in Processes |-> db.server]
  BY DEF Init
<1>2. /\ phase = [r \in Requests |-> "unused"] /\ rows = [r \in Requests |-> {}]
      /\ missing = [p \in Processes |-> {}]
  BY DEF Init
<1>3. AccountType
  BY <1>1, <1>2, ApiInputs DEF AccountType
<1>4. SeedInv
  BY <1>1, <1>2, ApiInputs DEF SeedInv
<1>5. LockInv /\ CallerInv /\ ChangeInv /\ CreatedInv /\ CreatedOnce
  BY <1>2 DEF LockInv, CallerInv, ChangeInv, CreatedInv, CreatedOnce, Busy, Holds
<1>. QED
  BY <1>3, <1>4, <1>5 DEF AccountsInv

LEMMA RequestsInit == Init => RequestType /\ EntitledInv
BY TypeInit DEF Init, EntitledInv, Passed, Handled

\* Of the requests that create accounts of one name at most one succeeds: both may
\* find the name free, but the flush of the second waits for the first and is
\* refused by the unique index.
THEOREM CreatedOnceHolds == Spec => []CreatedOnce
<1>1. AccountsInv => CreatedOnce
  BY DEF AccountsInv
<1>. QED
  BY <1>1, RequestsInit, EntitledStep, AccountsInit, AccountsStep, PTL DEF Spec

\* Accounts are not deleted or replaced, and concurrent updates of one account do
\* not undo each other (routes.py, authentication.py: seed_default_data).
THEOREM AccountsAreKeptHolds == Spec => AccountsAreKept
<1>1. RequestType /\ EntitledInv /\ AccountsInv /\ [Next]_vars => [\A n \in Names : AccountKept(n)]_vars
  BY AccountsStep
<1>. QED
  BY <1>1, RequestsInit, EntitledStep, AccountsInit, AccountsStep, PTL DEF Spec, AccountsAreKept

-----------------------------------------------------------------------------
\* The rows of a session number that nobody has.
LEMMA FreshSession ==
    ASSUME NEW s \in NextSession
    PROVE  /\ s \in SessionIds /\ sessions[s] = NoSession
           /\ \A q \in Requests : draft[q].session # s
BY DEF NextSession

\* A handler takes a session number nobody has, if it takes one.
SessionTaken(r) ==
    \/ draft'[r].session = draft[r].session
    \/ draft'[r].session \in NextSession

LEMMA HandlerSession ==
    ASSUME RequestType, EntitledInv, TimelineType, NEW r \in Requests, Handle(r)
    PROVE  /\ UNCHANGED sessions /\ phase[r] = "authorized"
           /\ \A q \in Requests \ {r} : phase'[q] = phase[q] /\ draft'[q] = draft[q]
           /\ phase'[r] \in {"failed", "flushing", "returned"}
           /\ SessionTaken(r)
<1>1. UNCHANGED sessions /\ phase[r] = "authorized"
      /\ \E to \in {"failed", "flushing", "returned"} : phase' = [phase EXCEPT ![r] = to]
  BY HandlerRuns DEF data, Ran
<1>2. /\ phase'[r] \in {"failed", "flushing", "returned"}
      /\ \A q \in Requests \ {r} : phase'[q] = phase[q]
  BY <1>1 DEF RequestType
<1>3. draft \in [Requests -> DraftType] /\ draft[r] \in DraftType
  BY DEF TimelineType
<1>4. CASE UNCHANGED draft
  BY <1>1, <1>2, <1>4 DEF SessionTaken
<1>5. ASSUME NEW d, draft' = [draft EXCEPT ![r] = d],
             d.session = draft[r].session \/ d.session \in NextSession
      PROVE  SessionTaken(r) /\ \A q \in Requests \ {r} : draft'[q] = draft[q]
  <2>1. draft'[r] = d /\ \A q \in Requests \ {r} : draft'[q] = draft[q]
    BY <1>3, <1>5
  <2>. QED
    BY <1>5, <2>1 DEF SessionTaken
<1>6. CASE Login(r) \/ Refresh(r)
  <2>1. UNCHANGED draft \/ \E s \in NextSession : draft' = [draft EXCEPT ![r].session = s]
    BY <1>6 DEF Login, Refresh, Raise
  <2>2. ASSUME NEW s \in NextSession, draft' = [draft EXCEPT ![r].session = s]
        PROVE  SessionTaken(r) /\ \A q \in Requests \ {r} : draft'[q] = draft[q]
    <3> DEFINE d == [draft[r] EXCEPT !.session = s]
    <3>1. draft' = [draft EXCEPT ![r] = d]
      BY <1>3, <2>2
    <3>2. d.session = s
      BY <1>3 DEF DraftType
    <3> HIDE DEF d
    <3>. QED
      BY <1>5, <3>1, <3>2
  <2>. QED
    BY <1>1, <1>2, <1>4, <2>1, <2>2
<1>7. CASE OpenIncident(r)
  <2>1. PICK i \in NextIncident :
          draft' = [draft EXCEPT ![r] = [@ EXCEPT !.incident = i, !.status = "open", !.timeline = <<r>>]]
    BY <1>7 DEF OpenIncident
  <2> DEFINE d == [draft[r] EXCEPT !.incident = i, !.status = "open", !.timeline = <<r>>]
  <2>2. draft' = [draft EXCEPT ![r] = d]
    BY <1>3, <2>1
  <2>3. d.session = draft[r].session
    BY <1>3 DEF DraftType
  <2> HIDE DEF d
  <2>. QED
    BY <1>1, <1>2, <1>5, <2>2, <2>3
<1>8. CASE UpdateIncident(r)
  <2> DEFINE i == call[r].incident
             t == Timeline(incidents[i].timeline, r)
             x == IF call[r].value = "note" THEN "none" ELSE call[r].value
             d == [draft[r] EXCEPT !.incident = i]
             e == [draft[r] EXCEPT !.incident = i, !.timeline = t, !.status = x]
  <2>1. UNCHANGED draft \/ draft' = [draft EXCEPT ![r] = d] \/ draft' = [draft EXCEPT ![r] = e]
    BY <1>3, <1>8 DEF UpdateIncident, Raise
  <2>2. d.session = draft[r].session /\ e.session = draft[r].session
    BY <1>3 DEF DraftType
  <2> HIDE DEF d, e
  <2>. QED
    BY <1>1, <1>2, <1>4, <1>5, <2>1, <2>2
<1>9. CASE Logout(r) \/ Register(r) \/ CreateUser(r) \/ UpdateProfile(r) \/ ResetPassword(r)
           \/ SetRole(r) \/ SetActive(r, "deactivate", FALSE) \/ SetActive(r, "reactivate", TRUE)
  <2>1. UNCHANGED draft
    BY <1>9 DEF Logout, Register, CreateUser, UpdateProfile, ResetPassword, SetRole, SetActive,
                Insert, Raise
  <2>. QED
    BY <1>4, <2>1
<1>. QED
  BY <1>6, <1>7, <1>8, <1>9 DEF Handle

\* No session is stored and no number taken.
LEMMA SessionFrame ==
    ASSUME SessionInv, UNCHANGED <<sessions, draft>>,
           \A r \in Requests :
               /\ phase'[r] \in {"unused", "accepted", "authorized"} =>
                     phase[r] \in {"unused", "accepted", "authorized"}
               /\ Busy(r)' => Busy(r)
    PROVE  SessionInv' /\ \A s \in SessionIds : SessionKept(s)
BY DEF SessionInv, SessionKept

LEMMA SessionStep ==
    RequestType /\ EntitledInv /\ TimelineInv /\ SessionInv /\ [Next]_vars =>
        SessionInv' /\ \A s \in SessionIds : SessionKept(s)
<1> SUFFICES ASSUME RequestType, EntitledInv, TimelineInv, SessionInv, [Next]_vars
             PROVE  SessionInv' /\ \A s \in SessionIds : SessionKept(s)
  OBVIOUS
<1> DEFINE Goal == SessionInv' /\ \A s \in SessionIds : SessionKept(s)
<1>0. TimelineType
  BY DEF TimelineInv
<1>1. ASSUME UNCHANGED <<sessions, draft>>, NEW r \in Requests,
             \E x \in Phases : phase' = [phase EXCEPT ![r] = x],
             phase'[r] \in {"accepted", "authorized"} => phase[r] \in {"unused", "accepted"},
             phase'[r] # "unused",
             Busy(r)' => Busy(r)
      PROVE  Goal
  <2>1. \A q \in Requests \ {r} : phase'[q] = phase[q]
    BY <1>1 DEF RequestType
  <2>. QED
    BY <1>1, <2>1, SessionFrame DEF Busy
<1>2. ASSUME NEW r \in Requests, NEW p \in Processes, NEW c \in Calls, Accept(r, p, c)
      PROVE  Goal
  <2>1. /\ UNCHANGED <<sessions, draft>> /\ phase[r] = "unused"
        /\ \E x \in {"accepted", "authorized"} : phase' = [phase EXCEPT ![r] = x]
    BY <1>2 DEF Accept, data
  <2>. QED
    BY <1>1, <2>1 DEF RequestType, Phases, Busy
<1>3. ASSUME NEW r \in Requests, Authorize(r)
      PROVE  Goal
  <2>1. /\ UNCHANGED <<sessions, draft>> /\ phase[r] = "accepted"
        /\ \E x \in {"authorized", "failed"} : phase' = [phase EXCEPT ![r] = x]
    BY <1>3 DEF Authorize, data
  <2>. QED
    BY <1>1, <2>1 DEF RequestType, Phases, Ended, Busy
<1>4. ASSUME NEW r \in Requests, Flush(r) \/ EmailTaken(r) \/ Dispatch(r)
      PROVE  Goal
  <2>1. /\ UNCHANGED <<sessions, draft>> /\ Busy(r)
        /\ \E x \in {"failed", "returned", "closing"} : phase' = [phase EXCEPT ![r] = x]
    BY <1>4 DEF Flush, EmailTaken, Dispatch, data, Busy
  <2>. QED
    BY <1>1, <2>1 DEF RequestType, Phases, Ended
<1>5. ASSUME UNCHANGED <<sessions, draft, phase>>
      PROVE  Goal
  BY <1>5, SessionFrame DEF Busy
<1>6. ASSUME NEW p \in Processes, Crash(p)
      PROVE  Goal
  <2>1. /\ UNCHANGED <<sessions, draft>>
        /\ \A r \in Requests : phase'[r] = phase[r] \/ phase'[r] = "lost"
    BY <1>6 DEF Crash, data
  <2>. QED
    BY <2>1, SessionFrame DEF Busy
<1>7. ASSUME NEW t \in SessionIds, Expire(t)
      PROVE  Goal
  <2>1. /\ UNCHANGED <<draft, phase>> /\ sessions[t] # NoSession
        /\ sessions' = [sessions EXCEPT ![t].expired = TRUE]
    BY <1>7 DEF Expire, work
  <2>2. sessions \in [SessionIds -> SessionRow]
    BY DEF SessionInv
  <2>3. /\ sessions' = [sessions EXCEPT ![t] = [sessions[t] EXCEPT !.expired = TRUE]]
        /\ sessions[t] \in SessionRow
    BY <2>1, <2>2
  <2>4. /\ sessions'[t] = [sessions[t] EXCEPT !.expired = TRUE]
        /\ \A s \in SessionIds \ {t} : sessions'[s] = sessions[s]
    BY <2>2, <2>3
  <2>5. /\ sessions'[t] \in SessionRow
        /\ sessions'[t].user = sessions[t].user /\ sessions'[t].revoked = sessions[t].revoked
        /\ sessions'[t].expired
    <3>1. \A row \in SessionRow :
             LET new == [row EXCEPT !.expired = TRUE]
             IN  new \in SessionRow /\ new.user = row.user /\ new.revoked = row.revoked /\ new.expired
      BY DEF SessionRow
    <3>. QED
      BY <2>3, <2>4, <3>1
  <2>6. sessions' \in [SessionIds -> SessionRow]
    BY <2>2, <2>3, <2>4, <2>5
  <2>7. \A r \in Requests : Busy(r)' /\ draft'[r].session # Nobody => sessions'[draft'[r].session] = NoSession
    <3>1. \A r \in Requests : Busy(r) /\ draft[r].session # Nobody =>
             draft[r].session \in SessionIds \ {t} /\ sessions[draft[r].session] = NoSession
      BY <1>0, <2>1 DEF SessionInv, TimelineType, DraftType
    <3>. QED
      BY <2>1, <2>4, <3>1 DEF Busy
  <2>8. SessionInv'
    BY <2>1, <2>6, <2>7 DEF SessionInv
  <2>9. \A s \in SessionIds : SessionKept(s)
    BY <2>4, <2>5 DEF SessionKept
  <2>. QED
    BY <2>8, <2>9
<1>8. ASSUME NEW r \in Requests, Handle(r)
      PROVE  Goal
  <2>1. /\ UNCHANGED sessions /\ phase[r] = "authorized"
        /\ \A q \in Requests \ {r} : phase'[q] = phase[q] /\ draft'[q] = draft[q]
        /\ phase'[r] \in {"failed", "flushing", "returned"}
        /\ SessionTaken(r)
    BY <1>0, <1>8, HandlerSession
  <2>2. draft[r].session = Nobody
    BY <2>1 DEF SessionInv
  <2>3. \/ draft'[r].session = Nobody
        \/ /\ draft'[r].session \in SessionIds
           /\ sessions[draft'[r].session] = NoSession
           /\ \A q \in Requests : draft[q].session # draft'[r].session
    BY <2>1, <2>2, FreshSession DEF SessionTaken
  <2>4. SessionInv'
    <3>1. \A q \in Requests : phase'[q] \in {"unused", "accepted", "authorized"} => draft'[q].session = Nobody
      BY <2>1 DEF SessionInv
    <3>2. \A q \in Requests \ {r} : draft'[q].session = draft'[r].session => draft'[r].session = Nobody
      BY <2>1, <2>3
    <3>3. \A q, s \in Requests : q # s /\ draft'[q].session = draft'[s].session => draft'[s].session = Nobody
      BY <2>1, <3>2 DEF SessionInv
    <3>4. \A q \in Requests : Busy(q)' /\ draft'[q].session # Nobody => sessions'[draft'[q].session] = NoSession
      BY <2>1, <2>3 DEF SessionInv, Busy
    <3>. QED
      BY <2>1, <3>1, <3>3, <3>4 DEF SessionInv
  <2>. QED
    BY <2>1, <2>4 DEF SessionKept
<1>9. ASSUME NEW r \in Requests, Commit(r)
      PROVE  Goal
  <2>1. /\ UNCHANGED <<draft, call>> /\ phase[r] = "closing" /\ sessions' = StoredSessions(r)
        /\ phase' = [phase EXCEPT ![r] = "done"]
    BY <1>9 DEF Commit, requests
  <2>2. sessions \in [SessionIds -> SessionRow]
    BY DEF SessionInv
  <2>3. \A s \in SessionIds :
           sessions'[s] = IF s = draft[r].session THEN NewSession(r)
                          ELSE IF <<"session", s>> \in rows[r]
                               THEN [sessions[s] EXCEPT !.revoked = TRUE] ELSE sessions[s]
    BY <2>1 DEF StoredSessions
  <2>4. NewSession(r) \in SessionRow
    <3>1. call[r].subject \in Names /\ call[r].session \in SessionIds
      BY <2>1, ApiInputs DEF RequestType
    <3>. QED
      BY <2>2, <3>1 DEF NewSession, SessionRow
  <2>5. \A s \in SessionIds : s # draft[r].session =>
           /\ sessions'[s] \in SessionRow
           /\ sessions'[s].user = sessions[s].user /\ sessions'[s].expired = sessions[s].expired
           /\ sessions[s].revoked => sessions'[s] = sessions[s]
           /\ sessions'[s].revoked \/ sessions'[s] = sessions[s]
    <3> TAKE s \in SessionIds
    <3> HAVE s # draft[r].session
    <3>1. sessions[s] \in SessionRow
      BY <2>2
    <3>2. CASE sessions'[s] = sessions[s]
      BY <3>1, <3>2
    <3>3. CASE sessions'[s] = [sessions[s] EXCEPT !.revoked = TRUE]
      BY <3>1, <3>3 DEF SessionRow
    <3>. QED
      BY <2>3, <3>2, <3>3
  <2>6. sessions' \in [SessionIds -> SessionRow]
    BY <2>1, <2>3, <2>4, <2>5 DEF StoredSessions
  <2>7. draft[r].session # Nobody => sessions[draft[r].session] = NoSession
    BY <2>1 DEF SessionInv, Busy
  <2>8. \A s \in SessionIds : SessionKept(s)
    <3> SUFFICES ASSUME NEW s \in SessionIds, sessions[s] # NoSession
                 PROVE  /\ sessions'[s].user = sessions[s].user
                        /\ sessions[s].revoked => sessions'[s].revoked
                        /\ sessions[s].expired => sessions'[s].expired
      BY DEF SessionKept
    <3>1. s # draft[r].session
      BY <2>7 DEF SessionIds, Nobody
    <3>. QED
      BY <2>5, <3>1
  <2>9. \A q \in Requests : Busy(q)' /\ draft[q].session # Nobody => sessions'[draft[q].session] = NoSession
    <3> SUFFICES ASSUME NEW q \in Requests, Busy(q)', draft[q].session # Nobody
                 PROVE  sessions'[draft[q].session] = NoSession
      OBVIOUS
    <3>1. q # r /\ Busy(q)
      BY <2>1 DEF RequestType, Busy
    <3>2. sessions[draft[q].session] = NoSession /\ draft[q].session # draft[r].session
      BY <3>1 DEF SessionInv
    <3>3. draft[q].session \in SessionIds
      BY <1>0 DEF TimelineType, DraftType
    <3>4. NoSession.revoked
      BY DEF NoSession
    <3>. QED
      BY <2>5, <3>2, <3>3, <3>4
  <2>10. \A q \in Requests : phase'[q] \in {"unused", "accepted", "authorized"} => draft[q].session = Nobody
    <3> SUFFICES ASSUME NEW q \in Requests, phase'[q] \in {"unused", "accepted", "authorized"}
                 PROVE  draft[q].session = Nobody
      OBVIOUS
    <3>1. phase'[q] = phase[q]
      BY <2>1 DEF RequestType
    <3>. QED
      BY <3>1 DEF SessionInv
  <2>11. SessionInv'
    BY <2>1, <2>6, <2>9, <2>10 DEF SessionInv
  <2>. QED
    BY <2>8, <2>11
<1>10. ASSUME (\E p \in Processes : Seed(p)) \/ (\E g \in Defaults : OperatorRevokes(g))
       PROVE  Goal
  <2>1. UNCHANGED <<sessions, draft, phase>>
    BY <1>10 DEF Seed, SeedRead, SeedFlush, SeedCommit, OperatorRevokes, data, work
  <2>. QED
    BY <1>5, <2>1
<1>11. CASE UNCHANGED vars
  BY <1>5, <1>11 DEF vars, data, work
<1>. QED
  BY <1>2, <1>3, <1>4, <1>6, <1>7, <1>8, <1>9, <1>10, <1>11 DEF Next, Step, Progress

LEMMA SessionInit == Init => SessionInv
<1> SUFFICES ASSUME Init PROVE SessionInv
  OBVIOUS
<1>1. PICK db \in Databases : sessions = db.sessions
  BY DEF Init
<1>2. sessions \in [SessionIds -> SessionRow]
  <2>1. Session \subseteq SessionRow
    BY DEF Session, SessionRow
  <2>2. NoSession \in SessionRow
    BY DEF NoSession, SessionRow
  <2>. QED
    BY <1>1, <2>1, <2>2, ApiInputs
<1>3. \A r \in Requests : phase[r] = "unused" /\ draft[r].session = Nobody
  BY DEF Init, NoDraft
<1>. QED
  BY <1>2, <1>3 DEF SessionInv, Busy

\* A revoked or expired refresh token is never good again and never passes to
\* another user (authentication.py: refresh_access_token, logout).
THEOREM SessionsEndForGoodHolds == Spec => SessionsEndForGood
<1>1. RequestType /\ EntitledInv /\ TimelineInv /\ SessionInv /\ [Next]_vars =>
         [\A s \in SessionIds : SessionKept(s)]_vars
  BY SessionStep
<1>. QED
  BY <1>1, RequestsInit, EntitledStep, TimelineInit, TimelineStep, SessionInit, SessionStep, PTL
     DEF Spec, SessionsEndForGood
=============================================================================
