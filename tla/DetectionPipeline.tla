-------------------------- MODULE DetectionPipeline --------------------------
(***************************************************************************)
(* From a flow handed over by the flow table to a recorded, published and  *)
(* answered alert: detection/detection_service.py (a queue and a pool of   *)
(* worker threads), services/alert_service.py (one database transaction    *)
(* per detection), the subscribers main.py composes, the simulated attacks *)
(* of services/testing_service.py and POST /admin/data/clear.              *)
(*                                                                         *)
(* A job is one call of handle_flow_closed that was queued; its alert has  *)
(* the job's number.  A step of a job is one SQL statement, one commit or  *)
(* one call to another component.  The database is PostgreSQL under READ   *)
(* COMMITTED, as DATABASE_URL and connection.py leave it: a statement sees *)
(* the rows committed before it, an INSERT waits for another transaction   *)
(* that has inserted or deleted the same key, an UPDATE or DELETE for one  *)
(* that has changed the same row.                                          *)
(***************************************************************************)
EXTENDS Integers, Sequences, FiniteSets, Functions

CONSTANTS
    MaxJobs,        \* bound: jobs and simulated attacks together
    Workers,        \* max_workers: how many jobs run at a time
    MaxFlows,       \* bound: flows the table hands over
    Types,          \* attack types the model can answer
    Tags,           \* reputation tags (a tag also decides the severity written)
    MaxStored,      \* max_stored_alerts
    Simulations,    \* are attacks simulated while the capture runs
    ClearRequests,  \* the sets of scopes an administrator may clear
    DbMayFail       \* may a statement, a commit or a reputation check raise

ASSUME PipelineConstants ==
    /\ MaxJobs \in Nat
    /\ Workers \in Nat \ {0}
    /\ MaxFlows \in Nat
    /\ MaxStored \in Nat \ {0}
    /\ Simulations \in BOOLEAN
    /\ ClearRequests \subseteq SUBSET {"responses", "alerts", "flows", "statistics"}
    /\ DbMayFail \in BOOLEAN
    /\ "Unknown" \in Tags

Jobs    == 1..MaxJobs
NoFlow  == 0
NoType  == "none"
Subjects == 1..(MaxFlows + MaxJobs)      \* flows of the table, simulated flows

Scopes == {"responses", "alerts", "flows", "statistics"}
Rank   == [responses |-> 1, alerts |-> 2, flows |-> 3, statistics |-> 4]

VARIABLES
    pc,        \* how far each job is
    flowOf,    \* the flow it is about
    final,     \* was it submitted because the flow was closed (not periodic)
    typeOf,    \* the attack type the model answered
    tag,       \* the reputation tag it writes to its alert row
    read,      \* the total_count its SELECT on attack_statistics returned
    recent,    \* DetectionService._alerts: the newest alerts, oldest first
    rows,      \* committed rows of each table (alerts and responses: by job)
    gone,      \* rows the clearing transaction has deleted and not committed
    total,     \* attack_statistics.total_count of each type, 0 without a row
    clear,     \* what became of the last POST /admin/data/clear
    todo       \* scopes it has still to delete

jobVars   == <<flowOf, final, typeOf, tag, read>>
adminVars == <<gone, clear, todo>>
vars == <<pc, jobVars, recent, rows, total, adminVars>>

Stages == {"unborn", "queued", "classifying", "inserting", "inserted",
           "counting", "counted", "committed", "published",
           "tagging", "tagged", "unclassified", "dropped", "unanswered",
           "answered"}

\* Stages in which the job's transaction holds the flow_history row it inserted,
\* and the one in which it also holds the attack_statistics row.
Transaction == {"inserted", "counting", "counted"}
Recorded == {"committed", "published", "tagging", "tagged", "unanswered",
             "answered"}
Classified == Transaction \cup Recorded \cup {"inserting", "dropped"}

InTransaction(j) == pc[j] \in Transaction
Running(j) ==
    pc[j] \in (Classified \cup {"classifying"}) \ {"dropped", "unanswered", "answered"}
RunningWorkers == {i \in Jobs : Running(i) /\ flowOf[i] <= MaxFlows}

Fresh(j) == pc[j] = "unborn" /\ \A i \in Jobs : i < j => pc[i] # "unborn"

Go(j, stage) == pc' = [pc EXCEPT ![j] = stage]

-----------------------------------------------------------------------------
Init ==
    /\ pc = [j \in Jobs |-> "unborn"]
    /\ flowOf = [j \in Jobs |-> NoFlow]
    /\ final = [j \in Jobs |-> FALSE]
    /\ typeOf = [j \in Jobs |-> NoType]
    /\ tag = [j \in Jobs |-> "Unknown"]
    /\ read = [j \in Jobs |-> 0]
    /\ recent = <<>>
    /\ rows = [s \in Scopes |-> {}]
    /\ gone = [s \in Scopes |-> {}]
    /\ total = [t \in Types |-> 0]
    /\ clear = "idle"
    /\ todo = {}

-----------------------------------------------------------------------------
(* The queue and the workers                                               *)

\* handle_flow_closed, as on_flow_closed (at most once per flow) or as
\* on_periodic_classify.  A flow of fewer than MIN_FLOW_PACKETS, and any flow
\* after the executor's shutdown, changes nothing.
Submit(j, f, closed) ==
    /\ Fresh(j)
    /\ closed => \A i \in Jobs : ~(flowOf[i] = f /\ final[i])
    /\ Go(j, "queued")
    /\ flowOf' = [flowOf EXCEPT ![j] = f]
    /\ final' = [final EXCEPT ![j] = closed]
    /\ UNCHANGED <<typeOf, tag, read, recent, rows, total, adminVars>>

\* A free worker takes the oldest queued job.
Take(j) ==
    /\ pc[j] = "queued"
    /\ \A i \in Jobs : i < j => pc[i] # "queued"
    /\ Cardinality(RunningWorkers) < Workers
    /\ Go(j, "classifying")
    /\ UNCHANGED <<jobVars, recent, rows, total, adminVars>>

\* deque(maxlen=...).append
UnboundedRemember(j) == Append(recent, j)
FaultyRemember(j) == IF Len(recent) + 1 >= MaxStored THEN recent
                     ELSE Append(recent, j)
Remember(j) == IF Len(recent) >= MaxStored THEN Append(Tail(recent), j)
               ELSE Append(recent, j)

\* Detector.classify_flow and _store_alert.  Without a model, or if the model
\* raises, the job ends without an alert.
Classify(j) ==
    /\ pc[j] = "classifying"
    /\ \/ Go(j, "unclassified") /\ UNCHANGED <<typeOf, recent>>
       \/ \E t \in Types :
            /\ Go(j, "inserting")
            /\ typeOf' = [typeOf EXCEPT ![j] = t]
            /\ recent' = Remember(j)
    /\ UNCHANGED <<flowOf, final, tag, read, rows, total, adminVars>>

-----------------------------------------------------------------------------
(* handle_detection: one session, one commit                               *)

\* The session context manager rolls everything back and the job ends; what it
\* had read goes out of scope.
FaultyAfterRollback == "committed"
AfterRollback == "dropped"
Rollback(j) == Go(j, AfterRollback)

\* INSERT INTO flow_history raises for a flow that has a row: its key is the
\* flow's identity.
FaultyFlowTaken(j) == FALSE
FlowTaken(j) == flowOf[j] \in rows["flows"]

\* _persist_flow, then _persist_alert: the reputation check and the INSERT INTO
\* alerts, whose row refers to the flow row of the same transaction only.
InsertRows(j) ==
    /\ pc[j] = "inserting"
    /\ \A i \in Jobs : InTransaction(i) => flowOf[i] # flowOf[j]
    /\ flowOf[j] \notin gone["flows"]
    /\ \/ /\ FlowTaken(j)
          /\ Rollback(j)
          /\ UNCHANGED tag
       \/ /\ ~FlowTaken(j)
          /\ Go(j, "inserted")
          /\ \E t \in Tags :
               tag' = [tag EXCEPT ![j] = t]
    /\ UNCHANGED <<flowOf, final, typeOf, read, recent, rows, total, adminVars>>

\* AttackStatisticsRepository.upsert, its SELECT ...
ReadStatistics(j) ==
    /\ pc[j] = "inserted"
    /\ read' = [read EXCEPT ![j] = total[typeOf[j]]]
    /\ Go(j, "counting")
    /\ UNCHANGED <<flowOf, final, typeOf, tag, recent, rows, total,
                   adminVars>>

\* ... and its flush: an INSERT if it saw no row, else an UPDATE of the row it
\* saw, which raises if the row is gone by then.
WriteStatistics(j) ==
    /\ pc[j] = "counting"
    /\ \A i \in Jobs : pc[i] = "counted" => typeOf[i] # typeOf[j]
    /\ typeOf[j] \notin gone["statistics"]
    /\ IF read[j] = 0 <=> total[typeOf[j]] = 0
       THEN Go(j, "counted") /\ UNCHANGED read
       ELSE Rollback(j) /\ read' = [read EXCEPT ![j] = 0]
    /\ UNCHANGED <<flowOf, final, typeOf, tag, recent, rows, total,
                   adminVars>>

\* The total_count the flush writes.
FaultyCounted(n) == IF n = 0 THEN 2 ELSE n + 1
Counted(n) == n + 1

Commit(j) ==
    /\ pc[j] = "counted"
    /\ rows' = [rows EXCEPT !["flows"] = @ \cup {flowOf[j]},
                            !["alerts"] = @ \cup {j},
                            !["statistics"] = @ \cup {typeOf[j]}]
    /\ total' = [total EXCEPT ![typeOf[j]] = Counted(read[j])]
    /\ read' = [read EXCEPT ![j] = 0]
    /\ Go(j, "committed")
    /\ UNCHANGED <<flowOf, final, typeOf, tag, recent, adminVars>>

\* A statement, the commit or the reputation check raises.
DatabaseError(j) ==
    /\ DbMayFail
    /\ pc[j] \in Transaction \cup {"inserting"}
    /\ Rollback(j)
    /\ read' = [read EXCEPT ![j] = 0]
    /\ UNCHANGED <<flowOf, final, typeOf, tag, recent, rows, total,
                   adminVars>>

-----------------------------------------------------------------------------
(* After the commit: the broadcast and the subscribers                     *)

Publish(j) ==
    /\ pc[j] = "committed"
    /\ Go(j, "published")
    /\ UNCHANGED <<jobVars, recent, rows, total, adminVars>>

\* enrich_and_tag: check the reputation again and read the alert row.  There is
\* something to write only if the row is there and the tag is another one.
Enrich(j) ==
    /\ pc[j] = "published"
    /\ \/ j \in rows["alerts"] /\ Tags # {tag[j]} /\ Go(j, "tagging")
       \/ Go(j, "tagged")
       \/ DbMayFail /\ Go(j, "unanswered")
    /\ UNCHANGED <<jobVars, recent, rows, total, adminVars>>

\* The UPDATE at its commit.  A row deleted meanwhile makes it raise, and the
\* response engine is not called.
Tag(j) ==
    /\ pc[j] = "tagging"
    /\ j \notin gone["alerts"]
    /\ IF j \in rows["alerts"]
       THEN /\ \E t \in Tags \ {tag[j]} : tag' = [tag EXCEPT ![j] = t]
            /\ Go(j, "tagged")
       ELSE Go(j, "unanswered") /\ UNCHANGED tag
    /\ UNCHANGED <<flowOf, final, typeOf, read, recent, rows, total,
                   adminVars>>

\* response_service.handle_alert, whose history rows refer to the alert row: it
\* records none if no action is configured or if the alert row is gone.
Respond(j) ==
    /\ pc[j] = "tagged"
    /\ j \notin gone["alerts"]
    /\ \/ j \in rows["alerts"] /\ rows' = [rows EXCEPT !["responses"] = @ \cup {j}]
       \/ UNCHANGED rows
    /\ Go(j, "answered")
    /\ UNCHANGED <<jobVars, recent, total, adminVars>>

-----------------------------------------------------------------------------
(* The event loop                                                          *)

\* simulate_attack: a fresh flow and an alert in one commit, then the same calls
\* as for a real detection.
Simulate(j) ==
    /\ Simulations
    /\ Fresh(j)
    /\ \E t \in Types : typeOf' = [typeOf EXCEPT ![j] = t]
    /\ flowOf' = [flowOf EXCEPT ![j] = MaxFlows + j]
    /\ rows' = [rows EXCEPT !["flows"] = @ \cup {MaxFlows + j},
                            !["alerts"] = @ \cup {j}]
    /\ Go(j, "committed")
    /\ UNCHANGED <<final, tag, read, recent, total, adminVars>>

\* clear_data: one transaction, one DELETE per scope, children first.
StartClear(S) ==
    /\ clear # "deleting"
    /\ S # {}
    /\ clear' = "deleting"
    /\ todo' = S
    /\ UNCHANGED <<pc, jobVars, recent, rows, total, gone>>

Live(s) == rows[s] \ gone[s]

\* Does a row of scope s have a row that refers to it?
FaultyReferenced(s) == FALSE
Referenced(s) ==
    \/ s = "alerts" /\ Live("responses") # {}
    \/ s = "flows" /\ Live("alerts") # {}

\* No row is locked for deletion, once the transaction has ended.
FaultyReleased == gone
Released == [s \in Scopes |-> {}]

\* A DELETE waits for the jobs that have changed a committed row it would
\* delete; it fails if a row refers to one it deletes.
Delete(s) ==
    /\ clear = "deleting"
    /\ s \in todo /\ \A r \in todo : Rank[s] <= Rank[r]
    /\ s = "statistics" =>
         \A j \in Jobs : ~(pc[j] = "counted" /\ typeOf[j] \in rows["statistics"])
    /\ IF Referenced(s)
       THEN /\ clear' = "failed"
            /\ gone' = Released
            /\ todo' = {}
       ELSE /\ gone' = [gone EXCEPT ![s] = rows[s]]
            /\ todo' = todo \ {s}
            /\ UNCHANGED clear
    /\ UNCHANGED <<pc, jobVars, recent, rows, total>>

CommitClear ==
    /\ clear = "deleting"
    /\ todo = {}
    /\ rows' = [s \in Scopes |-> Live(s)]
    /\ total' = [t \in Types |-> IF t \in gone["statistics"] THEN 0 ELSE total[t]]
    /\ gone' = Released
    /\ clear' = "idle"
    /\ UNCHANGED <<pc, jobVars, recent, todo>>

-----------------------------------------------------------------------------
JobStep(j) ==
    \/ Take(j) \/ Classify(j)
    \/ InsertRows(j) \/ ReadStatistics(j) \/ WriteStatistics(j)
    \/ Commit(j)
    \/ Publish(j) \/ Enrich(j) \/ Tag(j) \/ Respond(j)

ClearStep == (\E s \in Scopes : Delete(s)) \/ CommitClear

Next ==
    \/ \E j \in Jobs, f \in 1..MaxFlows, closed \in BOOLEAN : Submit(j, f, closed)
    \/ \E j \in Jobs : JobStep(j) \/ DatabaseError(j) \/ Simulate(j)
    \/ \E S \in ClearRequests : StartClear(S)
    \/ ClearStep

Spec == Init /\ [][Next]_vars

\* Threads run, and PostgreSQL grants row locks in the order they were asked
\* for, so a job that is unblocked again and again goes on.  Nobody is obliged
\* to submit, simulate or clear, and nothing obliges the database to fail.
Fairness == WF_vars(ClearStep) /\ \A j \in Jobs : SF_vars(JobStep(j))

FairSpec == Spec /\ Fairness

-----------------------------------------------------------------------------
(* Properties                                                              *)

\* One set of row identities for each scope.
IsTables(t) ==
    /\ t = [s \in Scopes |-> t[s]]
    /\ t["responses"] \subseteq Jobs
    /\ t["alerts"] \subseteq Jobs
    /\ t["flows"] \subseteq Subjects
    /\ t["statistics"] \subseteq Types

TypeOK ==
    /\ pc \in [Jobs -> Stages]
    /\ flowOf \in [Jobs -> Subjects \cup {NoFlow}]
    /\ final \in [Jobs -> BOOLEAN]
    /\ typeOf \in [Jobs -> Types \cup {NoType}]
    /\ tag \in [Jobs -> Tags]
    /\ read \in [Jobs -> Nat]
    /\ recent \in Seq(Jobs) /\ Len(recent) <= MaxStored
    /\ IsTables(rows)
    /\ IsTables(gone)
    /\ total \in [Types -> Nat]
    /\ clear \in {"idle", "deleting", "failed"}
    /\ todo \in SUBSET Scopes

\* "One flow produces at most one alert" (database/models.py): alerts.flow_id is
\* not unique, yet the periodic and the final classification of a flow, run by
\* any two workers, never both leave a row, also while an administrator clears.
OneAlertPerFlow ==
    \A i, j \in rows["alerts"] :
        flowOf[i] = flowOf[j] => i = j

\* Whatever workers and clears interleave, an alert row always has its flow row
\* and a response row its alert row, and a job past its commit had a row.
RowsReferToRows ==
    /\ \A j \in rows["alerts"] : pc[j] \in Recorded /\ flowOf[j] \in rows["flows"]
    /\ rows["responses"] \subseteq rows["alerts"]

RecordedOf(t) == {j \in Jobs : pc[j] \in Recorded /\ typeOf[j] = t}

\* The rollup never claims more detections of a type than were committed, in
\* whatever order workers read and write it and whenever it is cleared.
RollupWithinAlerts == \A t \in Types : total[t] <= Cardinality(RecordedOf(t))

\* "The already-generated alert stays visible in-memory either way" (comment in
\* handle_detection): whether or not its transaction succeeded, an alert leaves
\* the recent list only when MaxStored newer ones have been generated.
GeneratedAlertsStayVisible ==
    \A j \in Jobs :
        (pc[j] \in Classified /\ flowOf[j] <= MaxFlows /\ j \notin Range(recent))
            => Len(recent) = MaxStored

\* Every job that was queued ends: the row locks of the workers and of a clear
\* never form a cycle, and no job waits for a lock nobody will release.
QueuedJobsEnd ==
    \A j \in Jobs :
        pc[j] = "queued" ~>
            pc[j] \in {"unclassified", "dropped", "unanswered", "answered"}

\* Where a job in stage p is in the life cycle of its alert.
StageOf(p) ==
    CASE p \in {"unclassified", "dropped"} -> "dropped"
      [] p = "committed" -> "recorded"
      [] p \in {"published", "tagging", "tagged"} -> "published"
      [] p \in {"unanswered", "answered"} -> "answered"
      [] OTHER -> "pending"

AlertStage == [j \in Jobs |-> StageOf(pc[j])]

\* The pipeline implements the life cycle of alerts: published only after the
\* commit, answered only after that, each once, and nothing after a rollback.
Lifecycle == INSTANCE AlertLifecycle WITH
    Alerts  <- Jobs,
    Flows   <- Subjects,
    stage   <- AlertStage,
    subject <- flowOf,
    stored  <- rows["alerts"]

LifecycleSpec == Lifecycle!Spec
=============================================================================
