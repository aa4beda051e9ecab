--------------------------- MODULE MCApiRequests ---------------------------
(* Small instances of ApiRequests: an administrator with a live session and *)
(* an analyst, one incident; or an empty database.                          *)
EXTENDS ApiRequests

C(op, actor, subject, session, incident, value) ==
    [op |-> op, actor |-> actor, subject |-> subject, session |-> session,
     incident |-> incident, value |-> value]

Grants == {<<"Admin", "users:write">>, <<"Admin", "incidents:write">>}

Established ==
    [accounts  |-> [n \in Names |->
                      CASE n = "admin" -> [active |-> TRUE, role |-> "Admin", password |-> "old"]
                        [] n = "ann"   -> [active |-> TRUE, role |-> "Viewer", password |-> "old"]
                        [] OTHER       -> NoAccount],
     sessions  |-> [s \in SessionIds |->
                      IF s = 1 THEN [user |-> "ann", revoked |-> FALSE, expired |-> FALSE]
                      ELSE NoSession],
     granted   |-> Grants,
     incidents |-> [i \in Incidents |->
                      IF i = 1 THEN [status |-> "open", timeline |-> <<Nobody>>]
                      ELSE [status |-> "none", timeline |-> << >>]],
     server    |-> "up",
     events    |-> 0]

Empty ==
    [accounts  |-> [n \in Names |-> NoAccount],
     sessions  |-> [s \in SessionIds |-> NoSession],
     granted   |-> {},
     incidents |-> [i \in Incidents |-> [status |-> "none", timeline |-> << >>]],
     server    |-> "down",
     events    |-> MaxEvents]

Starts == {Established, Empty}

AllCalls ==
    {C("login", "ann", "ann", 1, 1, "old")}
        \cup {C("refresh", "ann", "ann", s, 1, "") : s \in {1, 2}}
        \cup {C("logout", "ann", "ann", 1, 1, "")}
        \cup {C("register", "zoe", "zoe", 1, 1, "Viewer")}
        \cup {C("create_user", "admin", "zoe", 1, 1, "Admin")}
        \cup {C("profile", "ann", "ann", 1, 1, v) : v \in {"email", "old"}}
        \cup {C("reset_password", "ann", "ann", 1, 1, "")}
        \cup {C("set_role", "admin", "ann", 1, 1, "Admin")}
        \cup {C(op, "admin", "ann", 1, 1, "") : op \in {"deactivate", "reactivate"}}
        \cup {C("open_incident", "admin", "ann", 1, 1, "")}
        \cup {C("update_incident", "admin", "ann", 1, 1, v) : v \in {"note", "closed", "in_progress"}}
=============================================================================
