---------------------------- MODULE SharedCopies ----------------------------
(***************************************************************************)
(* What a worker process keeps in memory of what all processes share: the  *)
(* reputation of an address (threat_intelligence/), filled from a table    *)
(* each process brings up to date when it starts, and the credentials of   *)
(* the notification channels (notifications/channel_settings.py), filled   *)
(* from a file any process may rewrite.  Detections look the address up    *)
(* when they are persisted and again when they are enriched, and read the  *)
(* credentials when their response notifies someone.                       *)
(*                                                                         *)
(* One address stands for all: they do not share a row or a cache entry.   *)
(***************************************************************************)
EXTENDS Integers, Sequences, FiniteSets, SequencesExt

CONSTANTS
    Processes,   \* uvicorn worker processes
    Threads,     \* threads of the detection pools
    Of,          \* thread -> its process
    Tags,        \* tags the feed may give the address
    Shipped,     \* the tag it is shipped with
    Trained,     \* is there a model when processes start
    Channels,    \* "email", "telegram", "webhook"
    MaxSaves,    \* bound: times the operator saves a channel
    MaxEvents    \* bound: edits of the feed, crashes and failed queries

ASSUME CopiesConstants ==
    /\ IsFiniteSet(Processes)
    /\ Of \in [Threads -> Processes]
    /\ Shipped \in Tags
    /\ "Unknown" \notin Tags
    /\ Trained \in BOOLEAN
    /\ MaxSaves \in Nat
    /\ MaxEvents \in Nat

Saves == 1..MaxSaves
Unset == 0                               \* the channel has its default

VARIABLES
    recorded,  \* model_metadata has the row of the model's version
    rows,      \* threat_indicators: the tags of the address's rows
    feed,      \* the tag the feed file gives it
    start,     \* process -> how far its start is, the row found and the tag read
    cache,     \* process -> _TTLCache: the entry of the address
    lookup,    \* thread -> how far its check_ip is, and the tag it will keep
    file,      \* channel_settings.json: channel -> the save whose values it has
    copy,      \* process -> _cache: the channels as it last loaded or saved them
    saving,    \* process -> the save in progress
    saves,     \* how many saves there were
    events,    \* how many of the bounded events there were
    promised,  \* history: channel -> the last save that was answered
    excused    \* history: channels whose save met another, or a torn file

reputation == <<recorded, rows, feed, start, cache, lookup>>
settings   == <<file, copy, saving, saves, promised, excused>>
vars       == <<reputation, settings, events>>

NoEntry   == [tag |-> "none", expired |-> FALSE]
Idle      == [at |-> "none", tag |-> "none"]
NotLoaded == [ch \in Channels |-> -1]
NoSave    == [stage |-> "none", channel |-> "none", save |-> 0]
Down      == [state |-> "down", row |-> 0, tag |-> "none"]
Torn      == NotLoaded                   \* truncated, and not yet written again

Spend == events < MaxEvents /\ events' = events + 1

-----------------------------------------------------------------------------
(* The start of a process                                                  *)

\* LocalJSONFeedProvider.sync: the first row of the address, if there is one.
SyncBegins(p) ==
    \E r \in IF rows = << >> THEN {0} ELSE DOMAIN rows :
        start' = [start EXCEPT ![p] = [state |-> "syncing", row |-> r, tag |-> feed]]

\* _sync_model_metadata_to_db comes before: there is nothing to do without a
\* model, or if its row is found ...
Boot(p) ==
    /\ start[p].state = "down"
    /\ IF Trained /\ ~recorded THEN start' = [start EXCEPT ![p].state = "recording"]
       ELSE SyncBegins(p)
    /\ UNCHANGED <<recorded, rows, feed, cache, lookup, settings, events>>

\* ... and the version is unique: of two processes that found no row the second
\* raises, and its start with it.
Record(p) ==
    /\ start[p].state = "recording"
    /\ recorded' = TRUE
    /\ IF recorded THEN start' = [start EXCEPT ![p] = Down] ELSE SyncBegins(p)
    /\ UNCHANGED <<rows, feed, cache, lookup, settings, events>>

\* The transaction commits: nothing but the query keeps an address from having
\* two rows.
Synced(p) ==
    /\ start[p].state = "syncing"
    /\ rows' = IF start[p].row = 0 THEN Append(rows, start[p].tag)
               ELSE [rows EXCEPT ![start[p].row] = start[p].tag]
    /\ start' = [start EXCEPT ![p] = [Down EXCEPT !.state = "up"]]
    /\ UNCHANGED <<recorded, feed, cache, lookup, settings, events>>

EditFeed ==
    /\ Spend
    /\ feed' \in Tags \ {feed}
    /\ UNCHANGED <<recorded, rows, start, cache, lookup, settings>>

-----------------------------------------------------------------------------
(* check_ip of a detection's thread                                        *)

\* _TTLCache.get: a fresh entry is the answer, an expired one is to be deleted.
FaultyGet(t) ==
    LET e == cache[Of[t]]
    IN  /\ start[Of[t]].state = "up"
        /\ lookup[t] = Idle
        /\ IF e = NoEntry
           THEN lookup' = [lookup EXCEPT ![t].at = "query"] /\ UNCHANGED cache
           ELSE cache' = [cache EXCEPT ![Of[t]].expired = FALSE] /\ UNCHANGED lookup
        /\ UNCHANGED <<recorded, rows, feed, start, settings, events>>
Get(t) ==
    LET e == cache[Of[t]]
    IN  /\ start[Of[t]].state = "up"
        /\ lookup[t] = Idle
        /\ e = NoEntry \/ e.expired
        /\ lookup' = [lookup EXCEPT ![t].at = IF e = NoEntry THEN "query" ELSE "delete"]
        /\ UNCHANGED <<recorded, rows, feed, start, cache, settings, events>>

\* Another thread may have replaced the entry, or deleted it: the KeyError then
\* ends the detection or its response.
Delete(t) ==
    /\ lookup[t].at = "delete"
    /\ lookup' = [lookup EXCEPT ![t] = IF cache[Of[t]] = NoEntry THEN Idle ELSE [@ EXCEPT !.at = "query"]]
    /\ cache' = [cache EXCEPT ![Of[t]] = NoEntry]
    /\ UNCHANGED <<recorded, rows, feed, start, settings, events>>

\* StaticIndicatorProvider.check: some row of the address; no order is asked for.
Query(t) ==
    /\ lookup[t].at = "query"
    /\ \E tag \in IF rows = << >> THEN {"Unknown"} ELSE ToSet(rows) :
         lookup' = [lookup EXCEPT ![t] = [at |-> "set", tag |-> tag]]
    /\ UNCHANGED <<recorded, rows, feed, start, cache, settings, events>>

\* It raises: there is no other provider, and that nobody has an opinion is kept
\* like an answer.
QueryFails(t) ==
    /\ lookup[t].at = "query"
    /\ Spend
    /\ lookup' = [lookup EXCEPT ![t] = [at |-> "set", tag |-> "Unknown"]]
    /\ UNCHANGED <<recorded, rows, feed, start, cache, settings>>

Set(t) ==
    /\ lookup[t].at = "set"
    /\ cache' = [cache EXCEPT ![Of[t]] = [tag |-> lookup[t].tag, expired |-> FALSE]]
    /\ lookup' = [lookup EXCEPT ![t] = Idle]
    /\ UNCHANGED <<recorded, rows, feed, start, settings, events>>

\* Five minutes pass.
Age(p) ==
    /\ cache[p] # NoEntry
    /\ ~cache[p].expired
    /\ cache' = [cache EXCEPT ![p].expired = TRUE]
    /\ UNCHANGED <<recorded, rows, feed, start, lookup, settings, events>>

-----------------------------------------------------------------------------
(* The channel settings                                                    *)

\* _load_file: what cannot be parsed counts as nothing.
Loaded == IF file = Torn THEN [ch \in Channels |-> Unset] ELSE file

InMemory(p) == copy[p] # NotLoaded

\* get_channel, when something is sent: the first call loads the file, and waits
\* for a save of its own process.
GetChannel(p) ==
    /\ start[p].state = "up"
    /\ ~InMemory(p)
    /\ saving[p] = NoSave
    /\ copy' = [copy EXCEPT ![p] = Loaded]
    /\ UNCHANGED <<reputation, file, saving, saves, promised, excused, events>>

\* What a save starts from: the file as it is now, not the copy in memory.
FaultyBasis(p) == IF InMemory(p) THEN copy[p] ELSE Loaded
Basis(p) == Loaded

SaveLoads(p, ch) ==
    /\ start[p].state = "up"
    /\ saving[p] = NoSave
    /\ saves < MaxSaves
    /\ saves' = saves + 1
    /\ copy' = [copy EXCEPT ![p] = [Basis(p) EXCEPT ![ch] = saves']]
    /\ saving' = [saving EXCEPT ![p] = [stage |-> "loaded", channel |-> ch, save |-> saves']]
    /\ LET others == {q \in Processes \ {p} : saving[q] # NoSave}
       IN  excused' = excused \cup
              (IF file = Torn THEN Channels
               ELSE IF others = {} THEN {} ELSE {ch} \cup {saving[q].channel : q \in others})
    /\ UNCHANGED <<reputation, file, promised, events>>

\* PUT /notifications/settings: the channels it names, one save after the other.
PutSettings(p) == \E ch \in Channels : SaveLoads(p, ch)

\* open(path, "w") empties the file, closing it writes it.
SaveTruncates(p) ==
    /\ saving[p].stage = "loaded"
    /\ file' = Torn
    /\ saving' = [saving EXCEPT ![p].stage = "truncated"]
    /\ UNCHANGED <<reputation, copy, saves, promised, excused, events>>

SaveWrites(p) ==
    /\ saving[p].stage = "truncated"
    /\ file' = copy[p]
    /\ saving' = [saving EXCEPT ![p] = NoSave]
    /\ promised' = [promised EXCEPT ![saving[p].channel] = saving[p].save]
    /\ UNCHANGED <<reputation, copy, saves, excused, events>>

Save(p) == SaveTruncates(p) \/ SaveWrites(p)

-----------------------------------------------------------------------------

\* A process dies; its threads, its copies and a save half done go with it.
Crash(p) ==
    /\ start[p].state # "down"
    /\ Spend
    /\ start' = [start EXCEPT ![p] = Down]
    /\ cache' = [cache EXCEPT ![p] = NoEntry]
    /\ copy' = [copy EXCEPT ![p] = NotLoaded]
    /\ saving' = [saving EXCEPT ![p] = NoSave]
    /\ lookup' = [t \in Threads |-> IF Of[t] = p THEN Idle ELSE lookup[t]]
    /\ UNCHANGED <<recorded, rows, feed, file, saves, promised, excused>>

Init ==
    /\ recorded = FALSE
    /\ rows = << >>
    /\ feed = Shipped
    /\ start = [p \in Processes |-> Down]
    /\ cache = [p \in Processes |-> NoEntry]
    /\ lookup = [t \in Threads |-> Idle]
    /\ file = [ch \in Channels |-> Unset]
    /\ copy = [p \in Processes |-> NotLoaded]
    /\ saving = [p \in Processes |-> NoSave]
    /\ saves = 0
    /\ events = 0
    /\ promised = [ch \in Channels |-> Unset]
    /\ excused = {}

CheckIp(t) == Delete(t) \/ Query(t) \/ Set(t)
Starts(p)  == Boot(p) \/ Record(p) \/ Synced(p)

Next ==
    \/ \E p \in Processes :
         Starts(p) \/ Age(p) \/ GetChannel(p) \/ PutSettings(p) \/ Save(p) \/ Crash(p)
    \/ \E t \in Threads : Get(t) \/ CheckIp(t) \/ QueryFails(t)
    \/ EditFeed

\* Time passes, processes are started again and lookups run on.  No detection has
\* to come and nobody has to save.
Spec ==
    /\ Init /\ [][Next]_vars
    /\ \A t \in Threads : WF_vars(CheckIp(t))
    /\ \A p \in Processes : WF_vars(Starts(p)) /\ WF_vars(Age(p))

-----------------------------------------------------------------------------
(* Properties                                                              *)

\* However lookups, expiries and starts interleave, no process goes on answering
\* a tag that the table does not have, and a failed query is not kept for good.
\* An address with rows of different tags has no right answer.
Right(tag) == IF rows = << >> THEN tag = "Unknown" ELSE tag \in ToSet(rows)
ReputationsCatchUp ==
    <>[](\A p \in Processes : cache[p] = NoEntry \/ cache[p].expired \/ Right(cache[p].tag))

\* What the operator was told is saved is in the file, unless that save met one
\* in another process; other channels suffer only if a file was read torn.
SavedSettingsStay ==
    file # Torn => \A ch \in Channels \ excused : file[ch] = promised[ch]
=============================================================================
