------------------------- MODULE SharedCopiesProofs -------------------------
(***************************************************************************)
(* Proof about SharedCopies, for any number of processes, channels and     *)
(* saves: what an operator was told is saved stays in the file.            *)
(*                                                                         *)
(* The argument: between its reading of the file and its writing of it, a  *)
(* save carries in its process's copy the promised values of every channel *)
(* but its own (CarryInv); a save that ends meanwhile changes the promise  *)
(* of its channel, but two saves at one time have both of their channels   *)
(* excused (OverlapInv).                                                   *)
(***************************************************************************)
EXTENDS SharedCopies, SequenceTheorems, FiniteSetTheorems, TLAPS

InProgress(p) == saving[p] # NoSave

\* What the steps of a save need to know of the variables they use.
SettingsType ==
    /\ copy \in [Processes -> [Channels -> Int]]
    /\ file \in [Channels -> Int]
    /\ promised \in [Channels -> Int]
    /\ saves \in Nat
    /\ saving \in [Processes -> [stage : {"none", "loaded", "truncated"},
                                 channel : Channels \cup {"none"}, save : Nat]]
    /\ \A p \in Processes : InProgress(p) =>
          saving[p].stage # "none" /\ saving[p].channel \in Channels

OverlapInv ==
    \A p, q \in Processes :
        p # q /\ InProgress(p) /\ InProgress(q) => saving[p].channel \in excused

CarryInv ==
    \A p \in Processes : InProgress(p) =>
        \A ch \in Channels \ excused :
            copy[p][ch] = IF ch = saving[p].channel THEN saving[p].save ELSE promised[ch]

SavesInv == SettingsType /\ OverlapInv /\ CarryInv /\ SavedSettingsStay

LEMMA SavesInit == Init => SavesInv
BY DEF Init, SavesInv, SettingsType, OverlapInv, CarryInv, SavedSettingsStay, InProgress,
       NotLoaded, NoSave, Unset

\* A step that touches no save, no promise and no file, and no copy of a process
\* that saves.
LEMMA SavesFrame ==
    ASSUME SavesInv, UNCHANGED <<file, promised, excused, saves>>,
           copy' \in [Processes -> [Channels -> Int]],
           saving' \in [Processes -> [stage : {"none", "loaded", "truncated"},
                                      channel : Channels \cup {"none"}, save : Nat]],
           \A p \in Processes : InProgress(p)' => saving'[p] = saving[p] /\ copy'[p] = copy[p]
    PROVE  SavesInv'
<1>1. \A p \in Processes : InProgress(p)' => InProgress(p)
  BY DEF InProgress
<1>2. SettingsType'
  BY <1>1 DEF SavesInv, SettingsType, InProgress
<1>3. OverlapInv'
  BY <1>1 DEF SavesInv, OverlapInv
<1>4. CarryInv'
  BY <1>1 DEF SavesInv, CarryInv
<1>5. SavedSettingsStay'
  BY DEF SavesInv, SavedSettingsStay, Torn, NotLoaded
<1>. QED
  BY <1>2, <1>3, <1>4, <1>5 DEF SavesInv

LEMMA LoadStep ==
    ASSUME SavesInv, NEW p \in Processes, NEW ch \in Channels, SaveLoads(p, ch)
    PROVE  SavesInv'
<1>1. /\ UNCHANGED <<file, promised>>
      /\ saves' = saves + 1
      /\ copy' = [copy EXCEPT ![p] = [Loaded EXCEPT ![ch] = saves']]
      /\ saving' = [saving EXCEPT ![p] = [stage |-> "loaded", channel |-> ch, save |-> saves']]
      /\ ~InProgress(p)
  BY DEF SaveLoads, Basis, InProgress
<1>2. SettingsType
  BY DEF SavesInv
<1>3. Loaded \in [Channels -> Int] /\ saves' \in Nat
  BY <1>1, <1>2 DEF Loaded, SettingsType, Unset
<1>4. /\ saving'[p] = [stage |-> "loaded", channel |-> ch, save |-> saves']
      /\ \A q \in Processes \ {p} : saving'[q] = saving[q] /\ copy'[q] = copy[q]
      /\ copy'[p] = [Loaded EXCEPT ![ch] = saves']
  BY <1>1, <1>2 DEF SettingsType
<1>5. /\ InProgress(p)'
      /\ \A q \in Processes \ {p} : InProgress(q)' <=> InProgress(q)
  BY <1>4 DEF InProgress, NoSave
<1>6. SettingsType'
  <2>1. copy' \in [Processes -> [Channels -> Int]]
    BY <1>1, <1>2, <1>3 DEF SettingsType
  <2>2. saving' \in [Processes -> [stage : {"none", "loaded", "truncated"},
                                   channel : Channels \cup {"none"}, save : Nat]]
    BY <1>1, <1>2, <1>3 DEF SettingsType
  <2>. QED
    BY <1>1, <1>2, <1>3, <1>4, <1>5, <2>1, <2>2 DEF SettingsType
<1>7. excused \subseteq excused'
  BY DEF SaveLoads, SavesInv
<1>8. CASE file = Torn
  <2>1. Channels \subseteq excused'
    BY <1>8 DEF SaveLoads
  <2>2. \A q \in Processes : InProgress(q)' => saving'[q].channel \in Channels
    BY <1>6 DEF SettingsType
  <2>. QED
    BY <1>6, <2>1, <2>2 DEF SavesInv, OverlapInv, CarryInv, SavedSettingsStay
<1>9. CASE file # Torn
  <2>1. \A q \in Processes \ {p} : InProgress(q) =>
           ch \in excused' /\ saving[q].channel \in excused'
    BY <1>9 DEF SaveLoads, InProgress
  <2>2. OverlapInv'
    BY <1>4, <1>5, <1>7, <2>1 DEF SavesInv, OverlapInv
  <2>3. \A c \in Channels \ excused' : file[c] = promised[c]
    BY <1>7, <1>9 DEF SavesInv, SavedSettingsStay
  <2>4. CarryInv'
    <3>1. ASSUME NEW c \in Channels \ excused'
          PROVE  copy'[p][c] = IF c = saving'[p].channel THEN saving'[p].save ELSE promised'[c]
      BY <1>1, <1>2, <1>4, <1>9, <2>3 DEF Loaded, SettingsType
    <3>2. ASSUME NEW q \in Processes \ {p}, InProgress(q), NEW c \in Channels \ excused'
          PROVE  copy'[q][c] = IF c = saving'[q].channel THEN saving'[q].save ELSE promised'[c]
      BY <1>1, <1>4, <1>7, <3>2 DEF SavesInv, CarryInv
    <3>. QED
      BY <1>5, <3>1, <3>2 DEF CarryInv
  <2>5. SavedSettingsStay'
    BY <1>1, <2>3 DEF SavedSettingsStay
  <2>. QED
    BY <1>6, <2>2, <2>4, <2>5 DEF SavesInv
<1>. QED
  BY <1>8, <1>9

LEMMA TruncateStep ==
    ASSUME SavesInv, NEW p \in Processes, SaveTruncates(p)
    PROVE  SavesInv'
<1>1. /\ UNCHANGED <<copy, saves, promised, excused>>
      /\ file' = Torn
      /\ saving' = [saving EXCEPT ![p].stage = "truncated"]
      /\ saving[p].stage = "loaded"
  BY DEF SaveTruncates
<1>2. SettingsType
  BY DEF SavesInv
<1>3. \A q \in Processes : /\ saving'[q].channel = saving[q].channel
                           /\ saving'[q].save = saving[q].save
                           /\ InProgress(q)' <=> InProgress(q)
  BY <1>1, <1>2 DEF SettingsType, InProgress, NoSave
<1>4. SettingsType'
  <2>1. file' \in [Channels -> Int]
    BY <1>1 DEF Torn, NotLoaded
  <2>2. saving' \in [Processes -> [stage : {"none", "loaded", "truncated"},
                                   channel : Channels \cup {"none"}, save : Nat]]
    BY <1>1, <1>2 DEF SettingsType
  <2>3. \A q \in Processes : InProgress(q)' => saving'[q].stage # "none"
    BY <1>1, <1>2, <1>3 DEF SettingsType
  <2>. QED
    BY <1>1, <1>2, <1>3, <2>1, <2>2, <2>3 DEF SettingsType
<1>5. OverlapInv' /\ CarryInv'
  BY <1>1, <1>3 DEF SavesInv, OverlapInv, CarryInv
<1>6. SavedSettingsStay'
  BY <1>1 DEF SavedSettingsStay, Torn, NotLoaded
<1>. QED
  BY <1>4, <1>5, <1>6 DEF SavesInv

LEMMA WriteStep ==
    ASSUME SavesInv, NEW p \in Processes, SaveWrites(p)
    PROVE  SavesInv'
<1>1. /\ UNCHANGED <<copy, saves, excused>>
      /\ file' = copy[p]
      /\ saving' = [saving EXCEPT ![p] = NoSave]
      /\ promised' = [promised EXCEPT ![saving[p].channel] = saving[p].save]
      /\ InProgress(p)
  BY DEF SaveWrites, InProgress, NoSave
<1>2. SettingsType /\ saving[p].channel \in Channels /\ saving[p].save \in Nat
  BY <1>1 DEF SavesInv, SettingsType
<1>3. /\ ~InProgress(p)'
      /\ \A q \in Processes \ {p} : saving'[q] = saving[q] /\ (InProgress(q)' <=> InProgress(q))
  BY <1>1, <1>2 DEF SettingsType, InProgress
<1>4. \A ch \in Channels :
         promised'[ch] = IF ch = saving[p].channel THEN saving[p].save ELSE promised[ch]
  BY <1>1, <1>2 DEF SettingsType
<1>5. SettingsType'
  <2>1. saving' \in [Processes -> [stage : {"none", "loaded", "truncated"},
                                   channel : Channels \cup {"none"}, save : Nat]]
    BY <1>1, <1>2 DEF SettingsType, NoSave
  <2>2. promised' \in [Channels -> Int] /\ file' \in [Channels -> Int]
    BY <1>1, <1>2 DEF SettingsType
  <2>. QED
    BY <1>1, <1>2, <1>3, <2>1, <2>2 DEF SettingsType
<1>6. OverlapInv'
  BY <1>1, <1>3 DEF SavesInv, OverlapInv
<1>7. CarryInv'
  <2>1. \A q \in Processes \ {p} : InProgress(q) => saving[p].channel \in excused
    BY <1>1 DEF SavesInv, OverlapInv
  <2>2. ASSUME NEW q \in Processes \ {p}, InProgress(q), NEW ch \in Channels \ excused
        PROVE  copy[q][ch] = IF ch = saving[q].channel THEN saving[q].save ELSE promised'[ch]
    BY <1>4, <2>1, <2>2 DEF SavesInv, CarryInv
  <2>. QED
    BY <1>1, <1>3, <2>2 DEF CarryInv
<1>8. SavedSettingsStay'
  BY <1>1, <1>4 DEF SavesInv, CarryInv, SavedSettingsStay
<1>. QED
  BY <1>5, <1>6, <1>7, <1>8 DEF SavesInv

LEMMA SavesStep == SavesInv /\ [Next]_vars => SavesInv'
<1> SUFFICES ASSUME SavesInv, [Next]_vars
             PROVE  SavesInv'
  OBVIOUS
<1>0. SettingsType
  BY DEF SavesInv
<1>1. CASE UNCHANGED settings
  BY <1>0, <1>1, SavesFrame DEF settings, SettingsType
<1>2. ASSUME NEW p \in Processes, GetChannel(p)
      PROVE  SavesInv'
  <2>1. Loaded \in [Channels -> Int]
    BY <1>0 DEF Loaded, SettingsType, Unset
  <2>2. copy' \in [Processes -> [Channels -> Int]]
    BY <1>0, <1>2, <2>1 DEF GetChannel, SettingsType
  <2>3. \A q \in Processes : InProgress(q)' => saving'[q] = saving[q] /\ copy'[q] = copy[q]
    BY <1>0, <1>2 DEF GetChannel, SettingsType, InProgress
  <2>. QED
    BY <1>0, <1>2, <2>2, <2>3, SavesFrame DEF GetChannel, SettingsType
<1>3. ASSUME NEW p \in Processes, PutSettings(p)
      PROVE  SavesInv'
  BY <1>3, LoadStep DEF PutSettings
<1>4. ASSUME NEW p \in Processes, Save(p)
      PROVE  SavesInv'
  BY <1>4, TruncateStep, WriteStep DEF Save
<1>5. ASSUME NEW p \in Processes, Crash(p)
      PROVE  SavesInv'
  <2>1. copy' \in [Processes -> [Channels -> Int]]
    BY <1>0, <1>5 DEF Crash, SettingsType, NotLoaded
  <2>2. saving' \in [Processes -> [stage : {"none", "loaded", "truncated"},
                                   channel : Channels \cup {"none"}, save : Nat]]
    BY <1>0, <1>5 DEF Crash, SettingsType, NoSave
  <2>3. \A q \in Processes : InProgress(q)' => saving'[q] = saving[q] /\ copy'[q] = copy[q]
    BY <1>0, <1>5 DEF Crash, SettingsType, InProgress
  <2>. QED
    BY <1>5, <2>1, <2>2, <2>3, SavesFrame DEF Crash
<1>6. ASSUME NEW p \in Processes, Boot(p) \/ Record(p) \/ Synced(p) \/ Age(p)
      PROVE  UNCHANGED settings
  BY <1>6 DEF Boot, Record, Synced, Age
<1>7. ASSUME NEW t \in Threads, Get(t) \/ Delete(t) \/ Query(t) \/ Set(t) \/ QueryFails(t)
      PROVE  UNCHANGED settings
  BY <1>7 DEF Get, Delete, Query, Set, QueryFails
<1>8. EditFeed => UNCHANGED settings
  BY DEF EditFeed
<1>. QED
  BY <1>1, <1>2, <1>3, <1>4, <1>5, <1>6, <1>7, <1>8
  DEF Next, Starts, CheckIp, vars

\* However many processes save channels, in whatever order their files are read,
\* emptied and written and whenever they die: what was answered as saved stays in
\* the file, unless the save overlapped another or began from a torn file
\* (channel_settings.py, _load_file and save_channel_settings).
THEOREM SavedSettingsStayHolds == Spec => []SavedSettingsStay
<1>1. SavesInv => SavedSettingsStay
  BY DEF SavesInv
<1>. QED
  BY <1>1, SavesInit, SavesStep, PTL DEF Spec

-----------------------------------------------------------------------------
(* The rows of the address.  Only the query of a starting process keeps the *)
(* table from holding the address twice, and processes that start together  *)
(* may all find it empty.                                                   *)

Inserting == {p \in Processes : start[p].state = "syncing" /\ start[p].row = 0}

StartType ==
    /\ rows \in Seq(Tags)
    /\ feed \in Tags
    /\ start \in [Processes -> [state : {"down", "recording", "syncing", "up"},
                                row : Nat, tag : Tags \cup {"none"}]]
    /\ \A p \in Processes : start[p].state = "syncing" =>
          start[p].tag \in Tags /\ start[p].row \in 0..Len(rows)
    /\ lookup \in [Threads -> [at : {"none", "query", "delete", "set"},
                               tag : Tags \cup {"none", "Unknown"}]]

\* Who found the table empty has a row to add; there is one process for each row
\* that was, or will be, added.
BoundInv == Len(rows) + Cardinality(Inserting) <= Cardinality(Processes)

\* A process that serves has stored the address or found it, and rows are not
\* deleted; its threads look the address up only while it serves.
KnownInv ==
    /\ \A p \in Processes : start[p].state = "up" => rows # << >>
    /\ \A t \in Threads : lookup[t] # Idle => start[Of[t]].state = "up"

RowsInv == StartType /\ BoundInv /\ KnownInv

LEMMA RowsInit == Init => RowsInv
<1> SUFFICES ASSUME Init PROVE RowsInv
  OBVIOUS
<1>1. StartType
  BY CopiesConstants DEF Init, StartType, Down, Idle
<1>2. Inserting = {} /\ rows = << >>
  BY DEF Init, Inserting, Down
<1>3. BoundInv
  BY <1>2, FS_EmptySet, FS_CardinalityType, CopiesConstants DEF BoundInv
<1>4. KnownInv
  BY CopiesConstants DEF Init, KnownInv, Down
<1>. QED
  BY <1>1, <1>3, <1>4 DEF RowsInv

\* While no row is added, the bound stays if nobody new is about to add one.
LEMMA BoundFrame ==
    ASSUME RowsInv, Len(rows') = Len(rows), Inserting' \subseteq Inserting
    PROVE  BoundInv'
<1>1. IsFiniteSet(Inserting)
  BY FS_Subset, CopiesConstants DEF Inserting
<1>2. /\ Cardinality(Inserting') <= Cardinality(Inserting)
      /\ Cardinality(Inserting') \in Nat /\ Cardinality(Inserting) \in Nat
      /\ Cardinality(Processes) \in Nat
  BY <1>1, FS_Subset, FS_CardinalityType, CopiesConstants
<1>3. Len(rows) \in Nat
  BY DEF RowsInv, StartType
<1>. QED
  BY <1>2, <1>3 DEF RowsInv, BoundInv

\* A process looks the address up in the table it is to bring up to date.
LEMMA SyncBeginsKeeps ==
    ASSUME RowsInv, NEW p \in Processes, start[p].state \in {"down", "recording"},
           SyncBegins(p), UNCHANGED <<rows, feed, lookup>>
    PROVE  RowsInv'
<1>0. StartType /\ KnownInv /\ BoundInv
  BY DEF RowsInv
<1>1. PICK r \in IF rows = << >> THEN {0} ELSE DOMAIN rows :
          start' = [start EXCEPT ![p] = [state |-> "syncing", row |-> r, tag |-> feed]]
  BY DEF SyncBegins
<1>2. r \in Nat
  BY <1>0, <1>1 DEF StartType
<1>3. /\ start'[p] = [state |-> "syncing", row |-> r, tag |-> feed]
      /\ \A q \in Processes \ {p} : start'[q] = start[q]
  BY <1>0, <1>1 DEF StartType
<1>4. StartType'
  BY <1>0, <1>1, <1>2, <1>3 DEF StartType
<1>5. KnownInv'
  BY <1>0, <1>3, CopiesConstants DEF KnownInv
<1>6. CASE rows = << >>
  <2>1. Inserting' \subseteq Processes
    BY DEF Inserting
  <2>2. /\ Cardinality(Inserting') <= Cardinality(Processes)
        /\ Cardinality(Inserting') \in Nat /\ Cardinality(Processes) \in Nat
    BY <2>1, FS_Subset, FS_CardinalityType, CopiesConstants
  <2>3. Len(rows') = 0
    BY <1>6
  <2>4. BoundInv'
    BY <2>2, <2>3 DEF BoundInv
  <2>. QED
    BY <1>4, <1>5, <2>4 DEF RowsInv
<1>7. CASE rows # << >>
  <2>1. r # 0
    BY <1>0, <1>1, <1>7 DEF StartType
  <2>2. Inserting' \subseteq Inserting
    BY <1>3, <2>1 DEF Inserting
  <2>3. BoundInv'
    BY <2>2, BoundFrame
  <2>. QED
    BY <1>4, <1>5, <2>3 DEF RowsInv
<1>. QED
  BY <1>6, <1>7

LEMMA SyncedKeeps ==
    ASSUME RowsInv, NEW p \in Processes, Synced(p)
    PROVE  RowsInv'
<1>0. StartType /\ KnownInv /\ BoundInv
  BY DEF RowsInv
<1>1. /\ start[p].state = "syncing"
      /\ start' = [start EXCEPT ![p] = [Down EXCEPT !.state = "up"]]
      /\ UNCHANGED <<feed, lookup>>
  BY DEF Synced
<1>2. /\ start'[p] = [state |-> "up", row |-> 0, tag |-> "none"]
      /\ \A q \in Processes \ {p} : start'[q] = start[q]
  BY <1>0, <1>1 DEF StartType, Down
<1>3. start[p].tag \in Tags
  BY <1>0, <1>1 DEF StartType
<1>4. CASE start[p].row = 0
  <2>1. rows' = Append(rows, start[p].tag)
    BY <1>4 DEF Synced
  <2>2. rows' \in Seq(Tags) /\ Len(rows') = Len(rows) + 1 /\ rows' # << >> /\ Len(rows) \in Nat
    BY <1>0, <1>3, <2>1 DEF StartType
  <2>3. Inserting' = Inserting \ {p} /\ p \in Inserting
    BY <1>1, <1>2, <1>4 DEF Inserting
  <2>4. IsFiniteSet(Inserting)
    BY FS_Subset, CopiesConstants DEF Inserting
  <2>5. Cardinality(Inserting') = Cardinality(Inserting) - 1
    BY <2>3, <2>4, FS_RemoveElement
  <2>6. Cardinality(Inserting) \in Nat /\ Cardinality(Processes) \in Nat
    BY <2>4, FS_CardinalityType, CopiesConstants
  <2>7. BoundInv'
    BY <1>0, <2>2, <2>5, <2>6 DEF BoundInv
  <2>8. StartType'
    BY <1>0, <1>1, <1>2, <2>2 DEF StartType
  <2>9. KnownInv'
    BY <1>0, <1>1, <1>2, <2>2, CopiesConstants DEF KnownInv
  <2>. QED
    BY <2>7, <2>8, <2>9 DEF RowsInv
<1>5. CASE start[p].row # 0
  <2>1. rows' = [rows EXCEPT ![start[p].row] = start[p].tag]
    BY <1>5 DEF Synced
  <2>2. rows' \in Seq(Tags) /\ Len(rows') = Len(rows)
    <3>1. start[p].row \in 1..Len(rows) /\ rows \in Seq(Tags)
      BY <1>0, <1>1, <1>5 DEF StartType
    <3>. QED
      BY <1>3, <2>1, <3>1, ExceptSeq
  <2>3. Inserting' \subseteq Inserting
    BY <1>2 DEF Inserting
  <2>4. BoundInv'
    BY <2>2, <2>3, BoundFrame
  <2>5. StartType'
    BY <1>0, <1>1, <1>2, <2>2 DEF StartType
  <2>6. rows # << >> /\ rows' # << >>
    <3>1. rows \in Seq(Tags) /\ start[p].row \in 1..Len(rows)
      BY <1>0, <1>1, <1>5 DEF StartType
    <3>2. rows # << >>
      BY <3>1
    <3>. QED
      BY <2>2, <3>2
  <2>7. KnownInv'
    BY <1>0, <1>1, <1>2, <2>6, CopiesConstants DEF KnownInv
  <2>. QED
    BY <2>4, <2>5, <2>7 DEF RowsInv
<1>. QED
  BY <1>4, <1>5

LEMMA RowsStep == RowsInv /\ [Next]_vars => RowsInv'
<1> SUFFICES ASSUME RowsInv, [Next]_vars
             PROVE  RowsInv'
  OBVIOUS
<1>0. StartType /\ KnownInv /\ BoundInv
  BY DEF RowsInv
<1>1. CASE UNCHANGED <<rows, feed, start, lookup>>
  BY <1>0, <1>1 DEF RowsInv, StartType, KnownInv, BoundInv, Inserting
<1>2. ASSUME NEW p \in Processes, Boot(p)
      PROVE  RowsInv'
  <2>1. CASE SyncBegins(p)
    BY <1>2, <2>1, SyncBeginsKeeps DEF Boot
  <2>2. CASE start' = [start EXCEPT ![p].state = "recording"]
    <3>1. /\ start[p].state = "down"
          /\ UNCHANGED <<rows, feed, lookup>>
      BY <1>2 DEF Boot
    <3>2. StartType'
      BY <1>0, <2>2, <3>1 DEF StartType
    <3>3. KnownInv'
      BY <1>0, <2>2, <3>1, CopiesConstants DEF KnownInv, StartType
    <3>4. Inserting' \subseteq Inserting
      BY <1>0, <2>2 DEF Inserting, StartType
    <3>5. BoundInv'
      BY <3>1, <3>4, BoundFrame
    <3>. QED
      BY <3>2, <3>3, <3>5 DEF RowsInv
  <2>. QED
    BY <1>2, <2>1, <2>2 DEF Boot
<1>3. ASSUME NEW p \in Processes, start' = [start EXCEPT ![p] = Down],
             UNCHANGED <<rows, feed>>,
             lookup' \in [Threads -> [at : {"none", "query", "delete", "set"},
                                      tag : Tags \cup {"none", "Unknown"}]],
             \A t \in Threads : lookup'[t] # Idle => lookup'[t] = lookup[t] /\
                (Of[t] # p \/ start[p].state # "up")
      PROVE  RowsInv'
  <2>1. StartType'
    BY <1>0, <1>3 DEF StartType, Down
  <2>2. KnownInv'
    BY <1>0, <1>3, CopiesConstants DEF KnownInv, StartType, Down
  <2>3. Inserting' \subseteq Inserting
    BY <1>0, <1>3 DEF Inserting, StartType, Down
  <2>4. BoundInv'
    BY <1>3, <2>3, BoundFrame
  <2>. QED
    BY <2>1, <2>2, <2>4 DEF RowsInv
<1>4. ASSUME NEW p \in Processes, Record(p)
      PROVE  RowsInv'
  <2>1. CASE SyncBegins(p)
    BY <1>4, <2>1, SyncBeginsKeeps DEF Record
  <2>2. CASE start' = [start EXCEPT ![p] = Down]
    BY <1>0, <1>3, <1>4, <2>2 DEF Record, StartType
  <2>. QED
    BY <1>4, <2>1, <2>2 DEF Record
<1>5. ASSUME NEW p \in Processes, Synced(p)
      PROVE  RowsInv'
  BY <1>5, SyncedKeeps
<1>6. ASSUME NEW p \in Processes, Crash(p)
      PROVE  RowsInv'
  BY <1>0, <1>3, <1>6 DEF Crash, StartType, Idle
<1>7. CASE EditFeed
  BY <1>0, <1>7 DEF EditFeed, RowsInv, StartType, KnownInv, BoundInv, Inserting
<1>8. ASSUME NEW t \in Threads, UNCHANGED <<rows, feed, start>>,
             NEW l, lookup' = [lookup EXCEPT ![t] = l],
             l \in [at : {"none", "query", "delete", "set"}, tag : Tags \cup {"none", "Unknown"}],
             l # Idle => start[Of[t]].state = "up"
      PROVE  RowsInv'
  BY <1>0, <1>8 DEF RowsInv, StartType, KnownInv, BoundInv, Inserting
<1>9. ASSUME NEW t \in Threads, Get(t)
      PROVE  RowsInv'
  <2>1. PICK at \in {"query", "delete"} : lookup' = [lookup EXCEPT ![t].at = at]
    BY <1>9 DEF Get
  <2>2. lookup[t] = Idle /\ t \in DOMAIN lookup
    BY <1>0, <1>9 DEF Get, StartType
  <2>3. lookup' = [lookup EXCEPT ![t] = [Idle EXCEPT !.at = at]]
    BY <2>1, <2>2
  <2>4. [Idle EXCEPT !.at = at] = [at |-> at, tag |-> "none"]
    BY DEF Idle
  <2>. QED
    BY <1>8, <1>9, <2>3, <2>4 DEF Get
<1>10. ASSUME NEW t \in Threads, Delete(t) \/ Query(t) \/ QueryFails(t) \/ Set(t)
       PROVE  RowsInv'
  <2>1. start[Of[t]].state = "up" /\ UNCHANGED <<rows, feed, start>>
    BY <1>0, <1>10 DEF Delete, Query, QueryFails, Set, KnownInv, Idle
  <2>2. CASE Delete(t)
    <3>1. PICK l : /\ lookup' = [lookup EXCEPT ![t] = l]
                   /\ l \in {Idle, [lookup[t] EXCEPT !.at = "query"]}
      BY <2>2 DEF Delete
    <3>2. l \in [at : {"none", "query", "delete", "set"}, tag : Tags \cup {"none", "Unknown"}]
      BY <1>0, <3>1 DEF StartType, Idle
    <3>. QED
      BY <1>8, <2>1, <3>1, <3>2
  <2>3. CASE Query(t)
    <3>1. PICK tag \in IF rows = << >> THEN {"Unknown"} ELSE ToSet(rows) :
             lookup' = [lookup EXCEPT ![t] = [at |-> "set", tag |-> tag]]
      BY <2>3 DEF Query
    <3>2. tag \in Tags \cup {"Unknown"}
      BY <1>0, <3>1 DEF StartType, ToSet
    <3>. QED
      BY <1>8, <2>1, <3>1, <3>2
  <2>4. CASE QueryFails(t)
    BY <1>8, <2>1, <2>4 DEF QueryFails
  <2>5. CASE Set(t)
    BY <1>8, <2>1, <2>5 DEF Set, Idle
  <2>. QED
    BY <1>10, <2>2, <2>3, <2>4, <2>5
<1>11. ASSUME NEW p \in Processes, Age(p) \/ GetChannel(p) \/ PutSettings(p) \/ Save(p)
       PROVE  RowsInv'
  BY <1>1, <1>11 DEF Age, GetChannel, PutSettings, SaveLoads, Save, SaveTruncates, SaveWrites,
                     reputation
<1>12. CASE UNCHANGED vars
  BY <1>1, <1>12 DEF vars, reputation
<1>. QED
  BY <1>2, <1>4, <1>5, <1>6, <1>7, <1>9, <1>10, <1>11, <1>12
  DEF Next, Starts, CheckIp

\* No constraint keeps an address from having two rows in threat_indicators, and
\* however often processes die and start again, it never has more than there are
\* processes: only those that found the table empty together add one
\* (LocalJSONFeedProvider.sync).
RowsAreBounded == Len(rows) <= Cardinality(Processes)

THEOREM RowsAreBoundedHolds == Spec => []RowsAreBounded
<1>1. RowsInv => RowsAreBounded
  <2> SUFFICES ASSUME RowsInv PROVE RowsAreBounded
    OBVIOUS
  <2>1. IsFiniteSet(Inserting)
    BY FS_Subset, CopiesConstants DEF Inserting
  <2>2. Cardinality(Inserting) \in Nat /\ Cardinality(Processes) \in Nat /\ Len(rows) \in Nat
    BY <2>1, FS_CardinalityType, CopiesConstants DEF RowsInv, StartType
  <2>. QED
    BY <2>2 DEF RowsInv, BoundInv, RowsAreBounded
<1>. QED
  BY <1>1, RowsInit, RowsStep, PTL DEF Spec

\* A query of a detection's thread always finds the address: that nobody has an
\* opinion on an address of the feed is only ever kept after a query that failed
\* (StaticIndicatorProvider.check, ThreatIntelService.check_ip).
QueriesFindTheAddress ==
    [][\A t \in Threads : Query(t) => lookup'[t].tag \in Tags]_vars

THEOREM QueriesFindTheAddressHolds == Spec => QueriesFindTheAddress
<1>1. RowsInv /\ [Next]_vars => [\A t \in Threads : Query(t) => lookup'[t].tag \in Tags]_vars
  <2> SUFFICES ASSUME RowsInv, NEW t \in Threads, Query(t)
               PROVE  lookup'[t].tag \in Tags
    OBVIOUS
  <2>1. StartType /\ rows # << >>
    BY CopiesConstants DEF RowsInv, KnownInv, Query, Idle
  <2>2. PICK tag \in ToSet(rows) : lookup' = [lookup EXCEPT ![t] = [at |-> "set", tag |-> tag]]
    BY <2>1 DEF Query
  <2>. QED
    BY <2>1, <2>2 DEF StartType, ToSet
<1>. QED
  BY <1>1, RowsInit, RowsStep, PTL DEF Spec, QueriesFindTheAddress
=============================================================================
