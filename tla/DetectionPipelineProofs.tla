----------------------- MODULE DetectionPipelineProofs -----------------------
(***************************************************************************)
(* Proofs about DetectionPipeline, for any number of jobs, workers, flows, *)
(* attack types and tags: the type invariant, the consistency of the rows, *)
(* the refinement of AlertLifecycle, and what is seen of the alerts: the   *)
(* recent list and the rollup.                                             *)
(*                                                                         *)
(* The argument: the flow_history rows inserted and not committed belong   *)
(* to different flows, none of which has a committed row (TransactionInv), *)
(* and the rows a clear has deleted are closed under the references of the *)
(* rows it leaves (ClearInv).  So a commit adds an alert for a flow that   *)
(* has none, and the commit of a clear leaves no row without its parent.   *)
(***************************************************************************)
EXTENDS DetectionPipeline, FiniteSetTheorems, TLAPS

\* A job knows its flow from its submission on: one of the table's flows, or a
\* flow of its own for a simulated attack; and its type when it writes.
JobInv ==
    \A j \in Jobs :
        /\ pc[j] = "unborn" <=> flowOf[j] = NoFlow
        /\ flowOf[j] <= MaxFlows \/ flowOf[j] = MaxFlows + j
        /\ pc[j] \in Transaction \cup {"inserting"} => typeOf[j] \in Types

TransactionInv ==
    /\ \A i, j \in Jobs :
          InTransaction(i) /\ InTransaction(j) /\ flowOf[i] = flowOf[j] => i = j
    /\ \A j \in Jobs : InTransaction(j) => flowOf[j] \notin rows["flows"]
    /\ \A j \in Jobs : pc[j] = "unborn" => MaxFlows + j \notin rows["flows"]

ClearInv ==
    /\ gone["flows"] \subseteq rows["flows"]
    /\ \A j \in Live("alerts") : flowOf[j] \notin gone["flows"]
    /\ Live("responses") \cap gone["alerts"] = {}

\* The type invariant in two parts: what the jobs have, what the tables have.
JobType ==
    /\ pc \in [Jobs -> Stages]
    /\ flowOf \in [Jobs -> Subjects \cup {NoFlow}]
    /\ final \in [Jobs -> BOOLEAN]
    /\ typeOf \in [Jobs -> Types \cup {NoType}]
    /\ tag \in [Jobs -> Tags]
    /\ read \in [Jobs -> Nat]
    /\ recent \in Seq(Jobs) /\ Len(recent) <= MaxStored

TableType ==
    /\ IsTables(rows)
    /\ IsTables(gone)
    /\ total \in [Types -> Nat]
    /\ clear \in {"idle", "deleting", "failed"}
    /\ todo \in SUBSET Scopes

\* The part of the invariant that relates jobs and rows, and the whole of it.
RowInv == TransactionInv /\ ClearInv /\ OneAlertPerFlow /\ RowsReferToRows

IInv == TypeOK /\ JobInv /\ RowInv

-----------------------------------------------------------------------------
(* Type correctness                                                        *)

LEMMA TypeParts == TypeOK <=> JobType /\ TableType
BY DEF TypeOK, JobType, TableType

LEMMA RememberType ==
    ASSUME recent \in Seq(Jobs), Len(recent) <= MaxStored, NEW j \in Jobs
    PROVE  Remember(j) \in Seq(Jobs) /\ Len(Remember(j)) <= MaxStored
<1>1. MaxStored \in Nat \ {0}
  BY PipelineConstants
<1>2. CASE Len(recent) >= MaxStored
  <2>1. recent # <<>>
    BY <1>1, <1>2
  <2>2. Tail(recent) \in Seq(Jobs) /\ Len(Tail(recent)) = Len(recent) - 1
    BY <2>1
  <2>3. Remember(j) = Append(Tail(recent), j)
    BY <1>2 DEF Remember
  <2> QED BY <1>1, <2>2, <2>3
<1>3. CASE ~(Len(recent) >= MaxStored)
  <2>1. Remember(j) = Append(recent, j)
    BY <1>3 DEF Remember
  <2> QED BY <1>1, <1>3, <2>1
<1> QED BY <1>2, <1>3

LEMMA InitType == Init => TypeOK
BY PipelineConstants
DEF Init, TypeOK, IsTables, Stages, Scopes, Jobs, Subjects, NoFlow, NoType

\* What the steps of a job change of the jobs.
LEMMA JobTypeStep ==
    ASSUME JobType, TableType, JobInv, [Next]_vars
    PROVE  JobType'
<1> USE DEF JobType, Go
<1>1. ASSUME NEW j \in Jobs, NEW f \in 1..MaxFlows, NEW closed \in BOOLEAN,
             Submit(j, f, closed)
      PROVE  JobType'
  <2>1. f \in Subjects /\ "queued" \in Stages
    BY PipelineConstants DEF Subjects, Stages
  <2> QED BY <1>1, <2>1 DEF Submit
<1>2. ASSUME NEW j \in Jobs, Take(j) \/ Publish(j) \/ Enrich(j) \/ Respond(j)
      PROVE  JobType'
  BY <1>2 DEF Take, Publish, Enrich, Respond, jobVars, Stages
<1>3. ASSUME NEW j \in Jobs, Classify(j)
      PROVE  JobType'
  <2>1. recent' \in Seq(Jobs) /\ Len(recent') <= MaxStored
    BY <1>3, RememberType DEF Classify
  <2>2. pc' \in [Jobs -> Stages]
    BY <1>3 DEF Classify, Stages
  <2>3. typeOf' \in [Jobs -> Types \cup {NoType}]
    BY <1>3 DEF Classify
  <2> QED BY <1>3, <2>1, <2>2, <2>3 DEF Classify
<1>4. ASSUME NEW j \in Jobs, InsertRows(j)
      PROVE  JobType'
  BY <1>4 DEF InsertRows, Rollback, AfterRollback, Stages
<1>5. ASSUME NEW j \in Jobs, ReadStatistics(j)
      PROVE  JobType'
  <2>1. total[typeOf[j]] \in Nat
    BY <1>5 DEF ReadStatistics, JobInv, Transaction, TableType
  <2> QED BY <1>5, <2>1 DEF ReadStatistics, Stages
<1>6. ASSUME NEW j \in Jobs, WriteStatistics(j) \/ DatabaseError(j) \/ Commit(j)
      PROVE  JobType'
  <2>1. ASSUME WriteStatistics(j) PROVE JobType'
    <3>1. pc' \in [Jobs -> Stages]
      BY <2>1 DEF WriteStatistics, Rollback, AfterRollback, Stages
    <3>2. read' \in [Jobs -> Nat]
      BY <2>1 DEF WriteStatistics
    <3>3. UNCHANGED <<flowOf, final, typeOf, tag, recent>>
      BY <2>1 DEF WriteStatistics
    <3> QED BY <3>1, <3>2, <3>3
  <2>2. ASSUME DatabaseError(j) PROVE JobType'
    BY <2>2 DEF DatabaseError, Rollback, AfterRollback, Stages
  <2>3. ASSUME Commit(j) PROVE JobType'
    BY <2>3 DEF Commit, Stages
  <2> QED BY <1>6, <2>1, <2>2, <2>3
<1>7. ASSUME NEW j \in Jobs, Tag(j)
      PROVE  JobType'
  BY <1>7 DEF Tag, Stages
<1>8. ASSUME NEW j \in Jobs, Simulate(j)
      PROVE  JobType'
  <2>1. MaxFlows + j \in Subjects /\ "committed" \in Stages
    BY PipelineConstants DEF Subjects, Stages, Jobs
  <2> QED BY <1>8, <2>1 DEF Simulate
<1>9. CASE (\E S \in ClearRequests : StartClear(S)) \/ ClearStep \/ UNCHANGED vars
  BY <1>9 DEF StartClear, ClearStep, Delete, CommitClear, jobVars, vars
<1> QED
  BY <1>1, <1>2, <1>3, <1>4, <1>5, <1>6, <1>7, <1>8, <1>9 DEF Next, JobStep

LEMMA TableTypeStep ==
    ASSUME JobType, TableType, JobInv, [Next]_vars
    PROVE  TableType'
<1> USE DEF TableType
<1>1. ASSUME UNCHANGED <<rows, total, gone, clear, todo>>
      PROVE  TableType'
  BY <1>1 DEF IsTables
<1>2. ASSUME NEW j \in Jobs, JobStep(j) \/ DatabaseError(j), ~Commit(j), ~Respond(j)
      PROVE  TableType'
  BY <1>1, <1>2
  DEF JobStep, DatabaseError, Take, Classify, InsertRows, ReadStatistics,
      WriteStatistics, Publish, Enrich, Tag, adminVars
<1>3. ASSUME NEW j \in Jobs, NEW f \in 1..MaxFlows, NEW closed \in BOOLEAN,
             Submit(j, f, closed)
      PROVE  TableType'
  BY <1>1, <1>3 DEF Submit, adminVars
<1>4. ASSUME NEW j \in Jobs, Commit(j)
      PROVE  TableType'
  <2>1. typeOf[j] \in Types /\ pc[j] # "unborn" /\ pc[j] = "counted"
    BY <1>4 DEF Commit, JobInv, Transaction
  <2>2. flowOf[j] \in Subjects
    BY <2>1 DEF JobInv, JobType
  <2>3. IsTables(rows')
    BY <1>4, <2>1, <2>2 DEF Commit, IsTables, Scopes
  <2>4. total' \in [Types -> Nat]
    BY <1>4, <2>1 DEF Commit, Counted, JobType
  <2> QED BY <1>4, <2>3, <2>4 DEF Commit, adminVars, IsTables
<1>5. ASSUME NEW j \in Jobs, Respond(j)
      PROVE  TableType'
  <2>1. IsTables(rows')
    BY <1>5 DEF Respond, IsTables, Scopes
  <2> QED BY <1>5, <2>1 DEF Respond, adminVars, IsTables
<1>6. ASSUME NEW j \in Jobs, Simulate(j)
      PROVE  TableType'
  <2>1. MaxFlows + j \in Subjects
    BY PipelineConstants DEF Subjects, Jobs
  <2>2. IsTables(rows')
    BY <1>6, <2>1 DEF Simulate, IsTables, Scopes
  <2> QED BY <1>6, <2>2 DEF Simulate, adminVars, IsTables
<1>7. ASSUME NEW S \in ClearRequests, StartClear(S)
      PROVE  TableType'
  <2>1. S \subseteq Scopes
    BY PipelineConstants DEF Scopes
  <2> QED BY <1>7, <2>1 DEF StartClear, IsTables
<1>8. ASSUME NEW s \in Scopes, Delete(s)
      PROVE  TableType'
  <2>1. IsTables(gone')
    <3>1. CASE Referenced(s)
      BY <1>8, <3>1 DEF Delete, Released, IsTables, Scopes
    <3>2. CASE ~Referenced(s)
      <4>1. gone' = [gone EXCEPT ![s] = rows[s]]
        BY <1>8, <3>2 DEF Delete
      <4>2. gone' = [r \in Scopes |-> IF r = s THEN rows[s] ELSE gone[r]]
        BY <4>1 DEF IsTables
      <4> QED BY <4>2 DEF IsTables, Scopes
    <3> QED BY <3>1, <3>2
  <2> QED BY <1>8, <2>1 DEF Delete, IsTables
<1>9. CASE CommitClear
  <2>1. IsTables(rows') /\ IsTables(gone')
    BY <1>9 DEF CommitClear, Released, Live, IsTables, Scopes
  <2>2. total' \in [Types -> Nat]
    BY <1>9 DEF CommitClear
  <2> QED BY <1>9, <2>1, <2>2 DEF CommitClear
<1>10. CASE UNCHANGED vars
  BY <1>1, <1>10 DEF vars, adminVars
<1> QED
  BY <1>2, <1>3, <1>4, <1>5, <1>6, <1>7, <1>8, <1>9, <1>10 DEF Next, ClearStep

-----------------------------------------------------------------------------
(* Jobs, transactions and rows                                             *)

LEMMA JobInvStep ==
    ASSUME JobType, JobInv, [Next]_vars
    PROVE  JobInv'
<1> USE PipelineConstants DEF JobType, JobInv, Go, Transaction, Jobs, NoFlow
<1>1. ASSUME NEW j \in Jobs, NEW f \in 1..MaxFlows, NEW closed \in BOOLEAN,
             Submit(j, f, closed)
      PROVE  JobInv'
  BY <1>1 DEF Submit
<1>2. ASSUME NEW j \in Jobs, Take(j) \/ Publish(j) \/ Enrich(j) \/ Respond(j) \/ Tag(j)
      PROVE  JobInv'
  <2>1. UNCHANGED <<flowOf, typeOf>>
    BY <1>2 DEF Take, Publish, Enrich, Respond, Tag, jobVars
  <2>2. /\ pc[j] # "unborn" /\ pc'[j] # "unborn"
        /\ pc'[j] \notin Transaction \cup {"inserting"}
        /\ \A i \in Jobs : i # j => pc'[i] = pc[i]
    BY <1>2 DEF Take, Publish, Enrich, Respond, Tag
  <2> QED BY <2>1, <2>2
<1>3. ASSUME NEW j \in Jobs, Classify(j)
      PROVE  JobInv'
  BY <1>3 DEF Classify
<1>4. ASSUME NEW j \in Jobs, InsertRows(j) \/ ReadStatistics(j) \/ Commit(j)
      PROVE  JobInv'
  BY <1>4 DEF InsertRows, ReadStatistics, Commit, Rollback, AfterRollback
<1>5. ASSUME NEW j \in Jobs, WriteStatistics(j) \/ DatabaseError(j)
      PROVE  JobInv'
  BY <1>5 DEF WriteStatistics, DatabaseError, Rollback, AfterRollback
<1>6. ASSUME NEW j \in Jobs, Simulate(j)
      PROVE  JobInv'
  <2>1. /\ pc' = [pc EXCEPT ![j] = "committed"]
        /\ flowOf' = [flowOf EXCEPT ![j] = MaxFlows + j]
        /\ \E t \in Types : typeOf' = [typeOf EXCEPT ![j] = t]
    BY <1>6 DEF Simulate
  <2>2. MaxFlows + j # NoFlow
    BY PipelineConstants
  <2>3. /\ pc'[j] = "committed" /\ flowOf'[j] = MaxFlows + j
        /\ \A i \in Jobs : i # j => /\ pc'[i] = pc[i] /\ flowOf'[i] = flowOf[i]
                                   /\ typeOf'[i] = typeOf[i]
    BY <2>1
  <2> SUFFICES ASSUME NEW i \in Jobs
               PROVE  /\ pc'[i] = "unborn" <=> flowOf'[i] = NoFlow
                      /\ flowOf'[i] <= MaxFlows \/ flowOf'[i] = MaxFlows + i
                      /\ pc'[i] \in Transaction \cup {"inserting"} => typeOf'[i] \in Types
    OBVIOUS
  <2>4. CASE i = j
    BY <2>2, <2>3, <2>4
  <2>5. CASE i # j
    BY <2>3, <2>5
  <2> QED BY <2>4, <2>5
<1>7. CASE (\E S \in ClearRequests : StartClear(S)) \/ ClearStep \/ UNCHANGED vars
  BY <1>7 DEF StartClear, ClearStep, Delete, CommitClear, jobVars, vars
<1> QED
  BY <1>1, <1>2, <1>3, <1>4, <1>5, <1>6, <1>7 DEF Next, JobStep

\* Steps that leave the rows, and the flows of the jobs, alone, and take no job
\* into a transaction or out of Recorded.
LEMMA RowInvQuiet ==
    ASSUME TableType, RowInv, UNCHANGED <<flowOf, rows, gone>>,
           \A j \in Jobs : /\ InTransaction(j)' => InTransaction(j)
                           /\ pc'[j] = "unborn" => pc[j] = "unborn"
                           /\ pc[j] \in Recorded => pc'[j] \in Recorded
    PROVE  RowInv'
<1>1. TransactionInv'
  BY DEF RowInv, TransactionInv
<1>2. ClearInv' /\ OneAlertPerFlow'
  BY DEF RowInv, ClearInv, OneAlertPerFlow, Live
<1>3. rows["alerts"] \subseteq Jobs
  BY DEF TableType, IsTables
<1>4. RowsReferToRows'
  BY <1>3 DEF RowInv, RowsReferToRows
<1> QED BY <1>1, <1>2, <1>4 DEF RowInv

\* Simulated flows are nobody else's.
LEMMA FlowsApart ==
    ASSUME JobType, JobInv, NEW i \in Jobs, NEW j \in Jobs, i # j
    PROVE  flowOf[i] # MaxFlows + j
<1>1. MaxFlows \in Nat /\ i \in Nat \ {0} /\ j \in Nat \ {0}
  BY PipelineConstants DEF Jobs
<1>2. flowOf[i] \in Nat
  BY PipelineConstants DEF JobType, Subjects, NoFlow
<1>3. flowOf[i] <= MaxFlows \/ flowOf[i] = MaxFlows + i
  BY DEF JobInv
<1> QED BY <1>1, <1>2, <1>3

LEMMA RowInvStep ==
    ASSUME JobType, TableType, JobInv, RowInv, [Next]_vars
    PROVE  RowInv'
<1> USE DEF JobType, Go
<1>1. ASSUME NEW j \in Jobs,
             \/ Take(j) \/ Classify(j) \/ ReadStatistics(j) \/ WriteStatistics(j)
             \/ DatabaseError(j) \/ Publish(j) \/ Enrich(j) \/ Tag(j)
      PROVE  RowInv'
  <2>1. UNCHANGED <<flowOf, rows, gone>>
    BY <1>1 DEF Take, Classify, ReadStatistics, WriteStatistics, DatabaseError,
                Publish, Enrich, Tag, jobVars, adminVars
  <2>2. /\ InTransaction(j)' => InTransaction(j)
        /\ pc'[j] # "unborn"
        /\ pc[j] \in Recorded => pc'[j] \in Recorded
    BY <1>1 DEF Take, Classify, ReadStatistics, WriteStatistics, DatabaseError,
                Publish, Enrich, Tag, Rollback, AfterRollback, InTransaction,
                Transaction, Recorded
  <2>3. \A i \in Jobs : i # j => pc'[i] = pc[i]
    BY <1>1 DEF Take, Classify, ReadStatistics, WriteStatistics, DatabaseError,
                Publish, Enrich, Tag, Rollback
  <2> QED BY <2>1, <2>2, <2>3, RowInvQuiet DEF InTransaction
<1>2. ASSUME NEW j \in Jobs, NEW f \in 1..MaxFlows, NEW closed \in BOOLEAN,
             Submit(j, f, closed)
      PROVE  RowInv'
  <2>1. \A i \in Jobs : i # j => pc'[i] = pc[i] /\ flowOf'[i] = flowOf[i]
    BY <1>2 DEF Submit
  <2>2. pc[j] = "unborn" /\ pc'[j] = "queued" /\ UNCHANGED <<rows, gone>>
    BY <1>2 DEF Submit, Fresh, adminVars
  <2>3. ~InTransaction(j)' /\ j \notin rows["alerts"]
    BY <2>2 DEF InTransaction, Transaction, RowInv, RowsReferToRows, Recorded
  <2>4. rows["alerts"] \subseteq Jobs
    BY DEF TableType, IsTables
  <2>5. TransactionInv'
    <3>1. \A i \in Jobs : InTransaction(i)' => i # j /\ InTransaction(i)
      BY <2>1, <2>3 DEF InTransaction
    <3>. QED
      BY <2>1, <2>2, <3>1 DEF RowInv, TransactionInv
  <2>6. OneAlertPerFlow' /\ RowsReferToRows'
    BY <2>1, <2>2, <2>3, <2>4 DEF RowInv, OneAlertPerFlow, RowsReferToRows, Live
  <2> QED
    BY <2>1, <2>2, <2>3, <2>4, <2>5, <2>6 DEF RowInv, ClearInv, Live
<1>3. ASSUME NEW j \in Jobs, InsertRows(j)
      PROVE  RowInv'
  <2>1. UNCHANGED <<flowOf, rows, gone>>
    BY <1>3 DEF InsertRows, adminVars
  <2>2. \A i \in Jobs : i # j => pc'[i] = pc[i]
    BY <1>3 DEF InsertRows, Rollback
  <2>3. pc[j] = "inserting" /\ pc'[j] \in {"inserted", "dropped"}
    BY <1>3 DEF InsertRows, Rollback, AfterRollback
  <2>4. CASE pc'[j] = "dropped"
    BY <2>1, <2>2, <2>3, <2>4, RowInvQuiet DEF InTransaction, Transaction, Recorded
  <2>5. CASE pc'[j] = "inserted"
    <3>1. flowOf[j] \notin rows["flows"]
      BY <1>3, <2>5 DEF InsertRows, FlowTaken, Rollback, AfterRollback
    <3>2. \A i \in Jobs : InTransaction(i) => flowOf[i] # flowOf[j]
      BY <1>3 DEF InsertRows
    <3>3. \A i \in Jobs : InTransaction(i)' => i = j \/ InTransaction(i)
      BY <2>2 DEF InTransaction
    <3>4. TransactionInv'
      BY <2>1, <2>2, <2>3, <3>1, <3>2, <3>3, <2>5 DEF RowInv, TransactionInv
    <3>5. j \notin rows["alerts"]
      BY <2>3 DEF RowInv, RowsReferToRows, Recorded
    <3>6. (ClearInv /\ OneAlertPerFlow /\ RowsReferToRows)'
      BY <2>1, <2>2, <3>5
      DEF RowInv, ClearInv, OneAlertPerFlow, RowsReferToRows, Live, TableType, IsTables
    <3> QED BY <3>4, <3>6 DEF RowInv
  <2> QED BY <2>3, <2>4, <2>5
<1>4. ASSUME NEW j \in Jobs, Commit(j)
      PROVE  RowInv'
  <2>1. pc[j] = "counted" /\ pc' = [pc EXCEPT ![j] = "committed"] /\ UNCHANGED <<flowOf, gone>>
    BY <1>4 DEF Commit, adminVars
  <2>2. /\ rows'["flows"] = rows["flows"] \cup {flowOf[j]}
        /\ rows'["alerts"] = rows["alerts"] \cup {j}
        /\ rows'["responses"] = rows["responses"]
    BY <1>4 DEF Commit, TableType, IsTables, Scopes
  <2>3. InTransaction(j) /\ flowOf[j] \notin rows["flows"] /\ j \notin rows["alerts"]
    BY <2>1 DEF InTransaction, Transaction, RowInv, TransactionInv, RowsReferToRows, Recorded
  <2>4. \A i \in Jobs : InTransaction(i)' => i # j /\ InTransaction(i)
    BY <2>1 DEF InTransaction, Transaction
  <2>5. \A i \in Jobs : pc'[i] = "unborn" => MaxFlows + i # flowOf[j]
    <3> SUFFICES ASSUME NEW i \in Jobs, pc'[i] = "unborn"
                 PROVE  MaxFlows + i # flowOf[j]
      OBVIOUS
    <3>1. i # j
      BY <2>1
    <3> QED BY <3>1, FlowsApart
  <2>6. TransactionInv'
    BY <2>1, <2>2, <2>3, <2>4, <2>5 DEF RowInv, TransactionInv
  <2>7. OneAlertPerFlow'
    BY <2>1, <2>2, <2>3 DEF RowInv, OneAlertPerFlow, RowsReferToRows
  <2>8. rows["alerts"] \subseteq Jobs
    BY DEF TableType, IsTables
  <2>9. pc'[j] \in Recorded /\ \A i \in Jobs : i # j => pc'[i] = pc[i]
    BY <2>1 DEF Recorded
  <2>10. RowsReferToRows'
    BY <2>1, <2>2, <2>3, <2>8, <2>9 DEF RowInv, RowsReferToRows
  <2>11. ClearInv'
    BY <2>1, <2>2, <2>3 DEF RowInv, ClearInv, RowsReferToRows, Live
  <2> QED BY <2>6, <2>7, <2>10, <2>11 DEF RowInv
<1>5. ASSUME NEW j \in Jobs, Respond(j)
      PROVE  RowInv'
  <2>1. UNCHANGED <<flowOf, gone>> /\ pc[j] = "tagged" /\ pc' = [pc EXCEPT ![j] = "answered"]
    BY <1>5 DEF Respond, jobVars, adminVars
  <2>2. CASE UNCHANGED rows
    BY <2>1, <2>2, RowInvQuiet DEF InTransaction, Transaction, Recorded
  <2>3. CASE j \in rows["alerts"] /\ rows' = [rows EXCEPT !["responses"] = @ \cup {j}]
    <3>1. /\ rows'["flows"] = rows["flows"]
          /\ rows'["alerts"] = rows["alerts"]
          /\ rows'["responses"] = rows["responses"] \cup {j}
      BY <2>3 DEF TableType, IsTables, Scopes
    <3>2. j \notin gone["alerts"]
      BY <1>5 DEF Respond
    <3>3. TransactionInv'
      BY <2>1, <3>1 DEF RowInv, TransactionInv, InTransaction, Transaction
    <3>4. ClearInv'
      BY <2>1, <2>3, <3>1, <3>2 DEF RowInv, ClearInv, Recorded, Live, TableType, IsTables
    <3>5. OneAlertPerFlow' /\ RowsReferToRows'
      BY <2>1, <2>3, <3>1, <3>2
      DEF RowInv, OneAlertPerFlow, RowsReferToRows, Recorded, TableType, IsTables
    <3> QED BY <3>3, <3>4, <3>5 DEF RowInv
  <2> QED BY <1>5, <2>2, <2>3 DEF Respond
<1>6. ASSUME NEW j \in Jobs, Simulate(j)
      PROVE  RowInv'
  <2>1. /\ pc[j] = "unborn" /\ pc' = [pc EXCEPT ![j] = "committed"]
        /\ flowOf' = [flowOf EXCEPT ![j] = MaxFlows + j]
        /\ UNCHANGED gone
    BY <1>6 DEF Simulate, Fresh, adminVars
  <2>2. /\ rows'["flows"] = rows["flows"] \cup {MaxFlows + j}
        /\ rows'["alerts"] = rows["alerts"] \cup {j}
        /\ rows'["responses"] = rows["responses"]
    BY <1>6 DEF Simulate, TableType, IsTables, Scopes
  <2>3. MaxFlows + j \notin rows["flows"] /\ j \notin rows["alerts"]
    BY <2>1 DEF RowInv, TransactionInv, RowsReferToRows, Recorded
  <2>4. \A i \in Jobs : i # j => flowOf'[i] = flowOf[i] /\ flowOf[i] # MaxFlows + j
    BY <2>1, FlowsApart
  <2>5. \A i \in Jobs : InTransaction(i)' => i # j /\ InTransaction(i)
    BY <2>1 DEF InTransaction, Transaction
  <2>6. TransactionInv'
    <3>1. \A i \in Jobs : pc'[i] = "unborn" =>
             i # j /\ pc[i] = "unborn" /\ MaxFlows + i # MaxFlows + j
      BY <2>1, PipelineConstants DEF Jobs
    <3> QED BY <2>2, <2>3, <2>4, <2>5, <3>1 DEF RowInv, TransactionInv
  <2>7. rows["alerts"] \subseteq Jobs
    BY DEF TableType, IsTables
  <2>8. flowOf'[j] = MaxFlows + j /\ pc'[j] \in Recorded /\ \A i \in Jobs : i # j => pc'[i] = pc[i]
    BY <2>1 DEF Recorded
  <2>9. OneAlertPerFlow'
    BY <2>2, <2>4, <2>7, <2>8 DEF RowInv, OneAlertPerFlow
  <2>10. RowsReferToRows'
    BY <2>2, <2>3, <2>4, <2>7, <2>8 DEF RowInv, RowsReferToRows
  <2>11. ClearInv'
    BY <2>1, <2>2, <2>3, <2>4, <2>7, <2>8 DEF RowInv, ClearInv, RowsReferToRows, Live
  <2> QED BY <2>6, <2>9, <2>10, <2>11 DEF RowInv
<1>7. ASSUME NEW S \in ClearRequests, StartClear(S)
      PROVE  RowInv'
  BY <1>7, RowInvQuiet DEF StartClear, jobVars, InTransaction
<1>8. ASSUME NEW s \in Scopes, Delete(s)
      PROVE  RowInv'
  <2>1. UNCHANGED <<pc, flowOf, rows>>
    BY <1>8 DEF Delete, jobVars
  <2>2. (TransactionInv /\ OneAlertPerFlow /\ RowsReferToRows)'
    BY <2>1 DEF RowInv, TransactionInv, OneAlertPerFlow, RowsReferToRows, InTransaction
  <2>3. CASE Referenced(s)
    <3>1. gone' = [r \in Scopes |-> {}]
      BY <1>8, <2>3 DEF Delete, Released
    <3>2. ClearInv'
      BY <3>1 DEF ClearInv, Live, Scopes
    <3> QED BY <2>2, <3>2 DEF RowInv
  <2>4. CASE ~Referenced(s)
    <3>1. gone' = [r \in Scopes |-> IF r = s THEN rows[s] ELSE gone[r]]
      BY <1>8, <2>4 DEF Delete, TableType, IsTables
    <3>2. gone'["flows"] \subseteq rows["flows"]
      BY <3>1 DEF RowInv, ClearInv, Scopes
    <3>3. \A j \in Live("alerts")' : flowOf[j] \notin gone'["flows"]
      BY <2>1, <2>4, <3>1 DEF RowInv, ClearInv, Live, Referenced, Scopes
    <3>4. Live("responses")' \cap gone'["alerts"] = {}
      BY <2>1, <2>4, <3>1 DEF RowInv, ClearInv, Live, Referenced, Scopes
    <3> QED BY <2>1, <2>2, <3>2, <3>3, <3>4 DEF RowInv, ClearInv
  <2> QED BY <2>3, <2>4
<1>9. CASE CommitClear
  <2>1. /\ UNCHANGED <<pc, flowOf>>
        /\ rows' = [s \in Scopes |-> Live(s)]
        /\ gone' = [s \in Scopes |-> {}]
    BY <1>9 DEF CommitClear, Released, jobVars
  <2>2. /\ rows'["flows"] = Live("flows") /\ rows'["alerts"] = Live("alerts")
        /\ rows'["responses"] = Live("responses")
        /\ gone'["flows"] = {} /\ gone'["alerts"] = {}
    BY <2>1 DEF Scopes
  <2>3. TransactionInv'
    BY <2>1, <2>2 DEF RowInv, TransactionInv, InTransaction, Live
  <2>4. OneAlertPerFlow'
    BY <2>1, <2>2 DEF RowInv, OneAlertPerFlow, Live
  <2>5. RowsReferToRows'
    BY <2>1, <2>2 DEF RowInv, RowsReferToRows, ClearInv, Live
  <2>6. ClearInv'
    BY <2>2 DEF ClearInv
  <2> QED BY <2>3, <2>4, <2>5, <2>6 DEF RowInv
<1>10. CASE UNCHANGED vars
  BY <1>10, RowInvQuiet DEF vars, jobVars, adminVars, InTransaction
<1> QED
  BY <1>1, <1>2, <1>3, <1>4, <1>5, <1>6, <1>7, <1>8, <1>9, <1>10
  DEF Next, JobStep, ClearStep

-----------------------------------------------------------------------------
(* The theorems                                                            *)

LEMMA InitInv == Init => IInv
<1> SUFFICES ASSUME Init
             PROVE  IInv
  OBVIOUS
<1>1. JobInv
  BY PipelineConstants DEF Init, JobInv, NoFlow, Transaction
<1>2. RowInv
  BY DEF Init, RowInv, TransactionInv, ClearInv, OneAlertPerFlow, RowsReferToRows,
         InTransaction, Transaction, Live, Scopes
<1> QED BY <1>1, <1>2, InitType DEF IInv

LEMMA InvStep == IInv /\ [Next]_vars => IInv'
BY TypeParts, JobTypeStep, TableTypeStep, JobInvStep, RowInvStep
DEF IInv, TypeOK, JobType, TableType

LEMMA Invariance == Spec => []IInv
BY InitInv, InvStep, PTL DEF Spec

\* The type invariant holds, however jobs, simulations and clears interleave.
THEOREM TypeCorrect == Spec => []TypeOK
<1>1. IInv => TypeOK
  BY DEF IInv
<1> QED BY <1>1, Invariance, PTL

\* No flow ever has two alert rows at a time (handle_detection).
THEOREM OneAlertPerFlowHolds == Spec => []OneAlertPerFlow
<1>1. IInv => OneAlertPerFlow
  BY DEF IInv, RowInv
<1> QED BY <1>1, Invariance, PTL

\* No alert row is left without its flow row, no response row without its alert
\* row, also by a clear that runs while detections commit.
THEOREM RowsReferToRowsHolds == Spec => []RowsReferToRows
<1>1. IInv => RowsReferToRows
  BY DEF IInv, RowInv
<1> QED BY <1>1, Invariance, PTL

-----------------------------------------------------------------------------
(* The pipeline implements the life cycle of alerts                        *)

LEMMA StageChange ==
    ASSUME JobType, NEW j \in Jobs, NEW p, pc' = [pc EXCEPT ![j] = p]
    PROVE  AlertStage' = [AlertStage EXCEPT ![j] = StageOf(p)]
BY DEF JobType, AlertStage

LEMMA SameStage ==
    ASSUME JobType, NEW j \in Jobs, NEW p, pc' = [pc EXCEPT ![j] = p],
           StageOf(p) = StageOf(pc[j])
    PROVE  AlertStage' = AlertStage
BY DEF JobType, AlertStage

LEMMA LifecycleInit == Init => Lifecycle!Init
BY DEF Init, Lifecycle!Init, Lifecycle!NoFlow, NoFlow, AlertStage, StageOf, Scopes

LEMMA LifecycleStep ==
    ASSUME IInv, [Next]_vars
    PROVE  [Lifecycle!Next]_(Lifecycle!vars)
<1> USE DEF Go
<1>1. JobType /\ TableType /\ JobInv /\ RowInv
  BY TypeParts DEF IInv
<1>2. ASSUME NEW j \in Jobs,
             \/ Take(j) \/ ReadStatistics(j)
      PROVE  UNCHANGED Lifecycle!vars
  <2>1. PICK p \in Stages : pc' = [pc EXCEPT ![j] = p] /\ StageOf(p) = StageOf(pc[j])
    BY <1>2 DEF Take, ReadStatistics, StageOf, Stages
  <2> QED
    BY <1>1, <1>2, <2>1, SameStage DEF Take, ReadStatistics, jobVars, Lifecycle!vars
<1>3. ASSUME NEW j \in Jobs, NEW f \in 1..MaxFlows, NEW closed \in BOOLEAN,
             Submit(j, f, closed)
      PROVE  Lifecycle!Raise(j, f) /\ f \in Subjects
  <2>1. pc[j] = "unborn" /\ pc' = [pc EXCEPT ![j] = "queued"]
    BY <1>3 DEF Submit, Fresh
  <2>2. AlertStage' = AlertStage
    BY <1>1, <2>1, SameStage DEF StageOf
  <2>3. flowOf[j] = NoFlow
    BY <1>1, <2>1 DEF JobInv
  <2>4. f \in Subjects
    BY PipelineConstants DEF Subjects
  <2> QED
    BY <1>3, <2>2, <2>3, <2>4 DEF Submit, Lifecycle!Raise, Lifecycle!NoFlow, NoFlow
<1>4. ASSUME NEW j \in Jobs, UNCHANGED <<flowOf, rows>>, pc' = [pc EXCEPT ![j] = "dropped"],
             StageOf(pc[j]) = "pending"
      PROVE  Lifecycle!Drop(j)
  <2>1. AlertStage[j] = "pending"
    BY <1>4 DEF AlertStage
  <2>2. AlertStage' = [AlertStage EXCEPT ![j] = "dropped"]
    BY <1>1, <1>4, StageChange DEF StageOf
  <2> QED BY <1>4, <2>1, <2>2 DEF Lifecycle!Drop
<1>5. ASSUME NEW j \in Jobs,
             Classify(j) \/ InsertRows(j) \/ WriteStatistics(j) \/ DatabaseError(j)
      PROVE  Lifecycle!Drop(j) \/ UNCHANGED Lifecycle!vars
  <2>1. UNCHANGED <<flowOf, rows>> /\ StageOf(pc[j]) = "pending"
    BY <1>5
    DEF Classify, InsertRows, WriteStatistics, DatabaseError, jobVars, StageOf, Transaction
  <2>2. \/ pc' = [pc EXCEPT ![j] = "unclassified"]
        \/ pc' = [pc EXCEPT ![j] = "dropped"]
        \/ \E p \in {"inserting", "inserted", "counted"} : pc' = [pc EXCEPT ![j] = p]
    BY <1>5
    DEF Classify, InsertRows, WriteStatistics, DatabaseError, Rollback, AfterRollback
  <2>3. CASE pc' = [pc EXCEPT ![j] = "unclassified"]
    <3>1. AlertStage[j] = "pending"
      BY <2>1 DEF AlertStage
    <3>2. AlertStage' = [AlertStage EXCEPT ![j] = "dropped"]
      BY <1>1, <2>3, StageChange DEF StageOf
    <3> QED BY <2>1, <3>1, <3>2 DEF Lifecycle!Drop
  <2>4. CASE pc' = [pc EXCEPT ![j] = "dropped"]
    BY <1>4, <2>1, <2>4
  <2>5. ASSUME NEW p \in {"inserting", "inserted", "counted"}, pc' = [pc EXCEPT ![j] = p]
        PROVE  UNCHANGED Lifecycle!vars
    <3>1. StageOf(p) = "pending"
      BY <2>5 DEF StageOf
    <3> QED BY <1>1, <2>1, <2>5, <3>1, SameStage DEF Lifecycle!vars
  <2> QED BY <2>2, <2>3, <2>4, <2>5
<1>6. ASSUME NEW j \in Jobs, Commit(j)
      PROVE  Lifecycle!Record(j, flowOf[j]) /\ flowOf[j] \in Subjects
  <2>1. /\ pc[j] = "counted" /\ pc' = [pc EXCEPT ![j] = "committed"]
        /\ UNCHANGED flowOf
    BY <1>6 DEF Commit
  <2>2. rows'["alerts"] = rows["alerts"] \cup {j}
    BY <1>1, <1>6 DEF Commit, TableType, IsTables, Scopes
  <2>3. flowOf[j] \notin rows["flows"]
    BY <1>1, <2>1 DEF RowInv, TransactionInv, InTransaction, Transaction
  <2>4. \A i \in rows["alerts"] : flowOf[i] # flowOf[j]
    BY <1>1, <2>3 DEF RowInv, RowsReferToRows
  <2>5. flowOf' = [flowOf EXCEPT ![j] = flowOf[j]] /\ flowOf[j] \in Subjects
    BY <1>1, <2>1 DEF JobType, JobInv
  <2>6. AlertStage[j] = "pending"
    BY <2>1 DEF AlertStage, StageOf
  <2>7. AlertStage' = [AlertStage EXCEPT ![j] = "recorded"]
    BY <1>1, <2>1, StageChange DEF StageOf
  <2> QED BY <2>2, <2>4, <2>5, <2>6, <2>7 DEF Lifecycle!Record
<1>7. ASSUME NEW j \in Jobs, Publish(j)
      PROVE  Lifecycle!Publish(j)
  <2>1. AlertStage[j] = "recorded"
    BY <1>7 DEF Publish, AlertStage, StageOf
  <2>2. AlertStage' = [AlertStage EXCEPT ![j] = "published"]
    BY <1>1, <1>7, StageChange DEF Publish, StageOf
  <2> QED BY <1>7, <2>1, <2>2 DEF Publish, jobVars, Lifecycle!Publish
<1>8. ASSUME NEW j \in Jobs, Enrich(j) \/ Tag(j) \/ Respond(j)
      PROVE  Lifecycle!Answer(j) \/ UNCHANGED Lifecycle!vars
  <2>1. UNCHANGED flowOf /\ rows'["alerts"] = rows["alerts"]
    BY <1>1, <1>8 DEF Enrich, Tag, Respond, jobVars, TableType, IsTables, Scopes
  <2>2. pc[j] \in {"published", "tagging", "tagged"}
    BY <1>8 DEF Enrich, Tag, Respond
  <2>3. PICK p \in {"tagging", "tagged", "unanswered", "answered"} :
           pc' = [pc EXCEPT ![j] = p]
    BY <1>8 DEF Enrich, Tag, Respond
  <2>4. StageOf(pc[j]) = "published"
    BY <2>2 DEF StageOf
  <2>5. CASE p \in {"tagging", "tagged"}
    <3>1. StageOf(p) = "published"
      BY <2>5 DEF StageOf
    <3> QED BY <1>1, <2>1, <2>3, <2>4, <3>1, SameStage DEF Lifecycle!vars
  <2>6. CASE p \in {"unanswered", "answered"}
    <3>1. StageOf(p) = "answered"
      BY <2>6 DEF StageOf
    <3>2. AlertStage' = [AlertStage EXCEPT ![j] = "answered"]
      BY <1>1, <2>3, <3>1, StageChange
    <3>3. AlertStage[j] = "published"
      BY <2>4 DEF AlertStage
    <3> QED BY <2>1, <3>2, <3>3 DEF Lifecycle!Answer
  <2> QED BY <2>3, <2>5, <2>6
<1>9. ASSUME NEW j \in Jobs, Simulate(j)
      PROVE  Lifecycle!Record(j, MaxFlows + j) /\ MaxFlows + j \in Subjects
  <2>1. /\ pc[j] = "unborn" /\ pc' = [pc EXCEPT ![j] = "committed"]
        /\ flowOf' = [flowOf EXCEPT ![j] = MaxFlows + j]
    BY <1>9 DEF Simulate, Fresh
  <2>2. rows'["alerts"] = rows["alerts"] \cup {j}
    BY <1>1, <1>9 DEF Simulate, TableType, IsTables, Scopes
  <2>3. \A i \in rows["alerts"] : i \in Jobs /\ i # j
    BY <1>1, <2>1 DEF RowInv, RowsReferToRows, Recorded, TableType, IsTables
  <2>4. \A i \in rows["alerts"] : flowOf[i] # MaxFlows + j
    BY <1>1, <2>3, FlowsApart
  <2>5. flowOf[j] = NoFlow
    BY <1>1, <2>1 DEF JobInv
  <2>6. AlertStage[j] = "pending"
    BY <2>1 DEF AlertStage, StageOf
  <2>7. AlertStage' = [AlertStage EXCEPT ![j] = "recorded"]
    BY <1>1, <2>1, StageChange DEF StageOf
  <2>8. MaxFlows + j \in Subjects
    BY PipelineConstants DEF Subjects, Jobs
  <2> QED
    BY <2>1, <2>2, <2>4, <2>5, <2>6, <2>7, <2>8
    DEF Lifecycle!Record, Lifecycle!NoFlow, NoFlow
<1>10. ASSUME \/ \E S \in ClearRequests : StartClear(S)
             \/ \E s \in Scopes : Delete(s)
       PROVE  UNCHANGED Lifecycle!vars
  <2>1. UNCHANGED <<pc, flowOf, rows>>
    BY <1>10 DEF StartClear, Delete, jobVars
  <2> QED BY <2>1 DEF Lifecycle!vars, AlertStage
<1>11. ASSUME CommitClear
       PROVE  \E S \in SUBSET rows["alerts"] : Lifecycle!Clear(S)
  <2>1. UNCHANGED <<pc, flowOf>> /\ rows' = [s \in Scopes |-> Live(s)]
    BY <1>11 DEF CommitClear, jobVars
  <2>2. rows'["alerts"] = rows["alerts"] \ (rows["alerts"] \cap gone["alerts"])
    BY <2>1 DEF Scopes, Live
  <2>3. AlertStage' = AlertStage
    BY <2>1 DEF AlertStage
  <2> WITNESS rows["alerts"] \cap gone["alerts"] \in SUBSET rows["alerts"]
  <2> QED BY <2>1, <2>2, <2>3 DEF Lifecycle!Clear
<1>12. ASSUME NEW j \in Jobs, JobStep(j) \/ DatabaseError(j) \/ Simulate(j)
       PROVE  [Lifecycle!Next]_(Lifecycle!vars)
  <2>1. \/ UNCHANGED Lifecycle!vars
        \/ Lifecycle!Drop(j) \/ Lifecycle!Publish(j) \/ Lifecycle!Answer(j)
        \/ \E f \in Subjects : Lifecycle!Record(j, f)
    BY <1>2, <1>5, <1>6, <1>7, <1>8, <1>9, <1>12 DEF JobStep
  <2> QED BY <2>1 DEF Lifecycle!Next
<1>13. ASSUME NEW j \in Jobs, NEW f \in 1..MaxFlows, NEW closed \in BOOLEAN,
              Submit(j, f, closed)
       PROVE  Lifecycle!Next
  BY <1>3, <1>13 DEF Lifecycle!Next
<1>14. ASSUME CommitClear
       PROVE  Lifecycle!Next
  BY <1>11, <1>14 DEF Lifecycle!Next
<1>15. CASE Next
  <2>1. CASE \E j \in Jobs, f \in 1..MaxFlows, closed \in BOOLEAN : Submit(j, f, closed)
    BY <1>13, <2>1
  <2>2. CASE \E j \in Jobs : JobStep(j) \/ DatabaseError(j) \/ Simulate(j)
    BY <1>12, <2>2
  <2>3. CASE \E S \in ClearRequests : StartClear(S)
    BY <1>10, <2>3
  <2>4. CASE \E s \in Scopes : Delete(s)
    BY <1>10, <2>4
  <2>5. CASE CommitClear
    BY <1>14, <2>5
  <2> QED BY <1>15, <2>1, <2>2, <2>3, <2>4, <2>5 DEF Next, ClearStep
<1>16. CASE UNCHANGED vars
  <2>1. UNCHANGED <<pc, flowOf, rows>>
    BY <1>16 DEF vars, jobVars
  <2> QED BY <2>1 DEF Lifecycle!vars, AlertStage
<1> QED
  BY <1>15, <1>16

\* Every behaviour of the pipeline is one of the life cycle: an alert is published
\* and answered at most once and only after its commit (handle_detection).
THEOREM ImplementsLifecycle == Spec => LifecycleSpec
<1>1. Init => Lifecycle!Init
  BY LifecycleInit
<1>2. IInv /\ [Next]_vars => [Lifecycle!Next]_(Lifecycle!vars)
  BY LifecycleStep
<1> QED BY <1>1, <1>2, Invariance, PTL DEF Spec, LifecycleSpec, Lifecycle!Spec

-----------------------------------------------------------------------------
(* What is seen of the alerts: the recent list and the rollup              *)

LEMMA RememberKeeps ==
    ASSUME recent \in Seq(Jobs), Len(recent) <= MaxStored, NEW j \in Jobs
    PROVE  \/ Len(Remember(j)) = MaxStored
           \/ Len(recent) # MaxStored /\ Range(recent) \cup {j} \subseteq Range(Remember(j))
<1>1. MaxStored \in Nat \ {0} /\ Len(recent) \in Nat
  BY PipelineConstants
<1>2. CASE Len(recent) >= MaxStored
  <2>1. recent # <<>>
    BY <1>1, <1>2
  <2>2. Tail(recent) \in Seq(Jobs) /\ Len(Tail(recent)) = Len(recent) - 1
    BY <2>1
  <2>3. Remember(j) = Append(Tail(recent), j)
    BY <1>2 DEF Remember
  <2>4. Len(Append(Tail(recent), j)) = Len(recent) - 1 + 1
    BY <2>2
  <2>5. Len(recent) - 1 + 1 = MaxStored
    BY <1>1, <1>2
  <2> QED BY <2>3, <2>4, <2>5
<1>3. CASE ~(Len(recent) >= MaxStored)
  <2>1. Remember(j) = Append(recent, j)
    BY <1>3 DEF Remember
  <2>2. /\ DOMAIN recent = 1..Len(recent) /\ DOMAIN Append(recent, j) = 1..(Len(recent) + 1)
        /\ \A i \in 1..Len(recent) : Append(recent, j)[i] = recent[i]
        /\ Append(recent, j)[Len(recent) + 1] = j
    BY <1>1
  <2>3. Len(recent) + 1 \in 1..(Len(recent) + 1)
        /\ \A i \in 1..Len(recent) : i \in 1..(Len(recent) + 1)
    BY <1>1
  <2>4. Range(recent) \cup {j} \subseteq Range(Append(recent, j))
    BY <2>2, <2>3 DEF Range
  <2>5. Len(recent) # MaxStored
    BY <1>1, <1>3
  <2> QED BY <2>1, <2>4, <2>5
<1> QED BY <1>2, <1>3

LEMMA VisibleFrame ==
    ASSUME GeneratedAlertsStayVisible, UNCHANGED recent,
           \A j \in Jobs : pc'[j] \in Classified /\ flowOf'[j] <= MaxFlows =>
               pc[j] \in Classified /\ flowOf[j] = flowOf'[j]
    PROVE  GeneratedAlertsStayVisible'
BY DEF GeneratedAlertsStayVisible, Range

LEMMA VisibleStep ==
    ASSUME JobType, GeneratedAlertsStayVisible, [Next]_vars
    PROVE  GeneratedAlertsStayVisible'
<1>1. ASSUME NEW j \in Jobs, NEW f \in 1..MaxFlows, NEW closed \in BOOLEAN,
             Submit(j, f, closed)
      PROVE  GeneratedAlertsStayVisible'
  <2>1. /\ pc' = [pc EXCEPT ![j] = "queued"] /\ flowOf' = [flowOf EXCEPT ![j] = f]
        /\ UNCHANGED recent
    BY <1>1 DEF Submit, Go
  <2> QED BY <2>1, VisibleFrame DEF JobType, Classified, Transaction, Recorded
<1>2. ASSUME NEW j \in Jobs, Take(j)
      PROVE  GeneratedAlertsStayVisible'
  <2>1. pc' = [pc EXCEPT ![j] = "classifying"] /\ UNCHANGED <<recent, flowOf>>
    BY <1>2 DEF Take, Go, jobVars
  <2> QED BY <2>1, VisibleFrame DEF JobType, Classified, Transaction, Recorded
<1>3. ASSUME NEW j \in Jobs, Classify(j)
      PROVE  GeneratedAlertsStayVisible'
  <2>1. CASE pc' = [pc EXCEPT ![j] = "unclassified"] /\ UNCHANGED <<recent, flowOf>>
    BY <2>1, VisibleFrame DEF JobType, Classified, Transaction, Recorded
  <2>2. CASE recent' = Remember(j) /\ pc' = [pc EXCEPT ![j] = "inserting"] /\ UNCHANGED flowOf
    <3>1. \/ Len(recent') = MaxStored
          \/ Len(recent) # MaxStored /\ Range(recent) \cup {j} \subseteq Range(recent')
      BY <2>2, RememberKeeps DEF JobType
    <3>2. \A i \in Jobs \ {j} : pc'[i] = pc[i] /\ flowOf'[i] = flowOf[i]
      BY <2>2 DEF JobType
    <3>3. \A i \in Jobs : pc'[i] \in Classified /\ flowOf'[i] <= MaxFlows
                             /\ i \notin Range(recent') => Len(recent') = MaxStored
      BY <3>1, <3>2 DEF GeneratedAlertsStayVisible
    <3> QED BY <3>3 DEF GeneratedAlertsStayVisible, Range
  <2> QED BY <1>3, <2>1, <2>2 DEF Classify, Go
<1>4. ASSUME NEW j \in Jobs,
             \/ InsertRows(j) \/ ReadStatistics(j) \/ WriteStatistics(j) \/ Commit(j)
             \/ Publish(j) \/ Enrich(j) \/ Tag(j) \/ Respond(j) \/ DatabaseError(j)
      PROVE  GeneratedAlertsStayVisible'
  <2>1. /\ pc[j] \in Classified /\ UNCHANGED <<recent, flowOf>>
        /\ \E p : pc' = [pc EXCEPT ![j] = p]
    BY <1>4 DEF InsertRows, ReadStatistics, WriteStatistics, Commit, Publish, Enrich, Tag,
                Respond, DatabaseError, Rollback, Go, jobVars, Classified, Transaction, Recorded
  <2> QED BY <2>1, VisibleFrame DEF JobType
<1>5. ASSUME NEW j \in Jobs, Simulate(j)
      PROVE  GeneratedAlertsStayVisible'
  <2>1. /\ pc' = [pc EXCEPT ![j] = "committed"] /\ flowOf' = [flowOf EXCEPT ![j] = MaxFlows + j]
        /\ UNCHANGED recent
    BY <1>5 DEF Simulate, Go
  <2>2. ~(MaxFlows + j <= MaxFlows)
    BY PipelineConstants DEF Jobs
  <2> QED BY <2>1, <2>2, VisibleFrame DEF JobType
<1>6. ASSUME (\E S \in ClearRequests : StartClear(S)) \/ ClearStep \/ UNCHANGED vars
      PROVE  GeneratedAlertsStayVisible'
  <2>1. UNCHANGED <<pc, flowOf, recent>>
    BY <1>6 DEF StartClear, ClearStep, Delete, CommitClear, vars, jobVars
  <2> QED BY <2>1, VisibleFrame
<1> QED
  BY <1>1, <1>2, <1>3, <1>4, <1>5, <1>6 DEF Next, JobStep

\* "The already-generated alert stays visible in-memory either way" (comment in
\* handle_detection): an alert leaves the recent list only for newer ones.
THEOREM GeneratedAlertsStayVisibleHolds == Spec => []GeneratedAlertsStayVisible
<1>1. Init => GeneratedAlertsStayVisible
  BY DEF Init, GeneratedAlertsStayVisible, Classified, Transaction, Recorded
<1>2. IInv /\ GeneratedAlertsStayVisible /\ [Next]_vars => GeneratedAlertsStayVisible'
  BY VisibleStep, TypeParts DEF IInv
<1> QED
  BY <1>1, <1>2, Invariance, PTL DEF Spec

\* What keeps the rollup within the alerts: a worker between its SELECT and its
\* commit holds a count that was right when it read it, and alerts only get more.
RollupInv ==
    /\ RollupWithinAlerts
    /\ \A j \in Jobs :
          pc[j] \in {"counting", "counted"} => read[j] <= Cardinality(RecordedOf(typeOf[j]))

LEMMA RecordedFinite ==
    ASSUME NEW t
    PROVE  IsFiniteSet(RecordedOf(t)) /\ Cardinality(RecordedOf(t)) \in Nat
<1>1. IsFiniteSet(Jobs)
  BY PipelineConstants, FS_Interval DEF Jobs
<1>2. RecordedOf(t) \subseteq Jobs
  BY DEF RecordedOf
<1> QED BY <1>1, <1>2, FS_Subset, FS_CardinalityType

\* A job that has recorded its alert keeps its type and never leaves Recorded.
LEMMA RecordedGrows ==
    ASSUME NEW t,
           \A j \in Jobs : pc[j] \in Recorded => pc'[j] \in Recorded /\ typeOf'[j] = typeOf[j]
    PROVE  /\ RecordedOf(t) \subseteq RecordedOf(t)'
           /\ Cardinality(RecordedOf(t)) \in Nat /\ Cardinality(RecordedOf(t)') \in Nat
           /\ Cardinality(RecordedOf(t)) <= Cardinality(RecordedOf(t)')
<1>1. RecordedOf(t) \subseteq RecordedOf(t)'
  BY DEF RecordedOf
<1>2. IsFiniteSet(Jobs)
  BY PipelineConstants, FS_Interval DEF Jobs
<1>3. RecordedOf(t)' \subseteq Jobs
  BY DEF RecordedOf
<1>4. IsFiniteSet(RecordedOf(t)')
  BY <1>2, <1>3, FS_Subset
<1>5. Cardinality(RecordedOf(t)) <= Cardinality(RecordedOf(t)')
  BY <1>1, <1>4, FS_Subset
<1>6. Cardinality(RecordedOf(t)') \in Nat
  BY <1>4, FS_CardinalityType
<1> QED BY <1>1, <1>5, <1>6, RecordedFinite

\* Steps that count nothing: no count is raised, and none is read.
LEMMA RollupFrame ==
    ASSUME JobType, TableType, RollupInv,
           \A t \in Types : total'[t] <= total[t] /\ total'[t] \in Nat,
           \A j \in Jobs : pc[j] \in Recorded => pc'[j] \in Recorded /\ typeOf'[j] = typeOf[j],
           \A j \in Jobs : pc'[j] \in {"counting", "counted"} =>
               /\ pc[j] \in {"counting", "counted"}
               /\ read'[j] = read[j] /\ typeOf'[j] = typeOf[j]
    PROVE  RollupInv'
<1>1. ASSUME NEW t \in Types
      PROVE  total'[t] <= Cardinality(RecordedOf(t)')
  <2>1. total[t] <= Cardinality(RecordedOf(t)) /\ total[t] \in Nat
    BY DEF RollupInv, RollupWithinAlerts, TableType
  <2>2. /\ Cardinality(RecordedOf(t)) <= Cardinality(RecordedOf(t)')
        /\ Cardinality(RecordedOf(t)) \in Nat /\ Cardinality(RecordedOf(t)') \in Nat
    BY RecordedGrows
  <2> QED BY <2>1, <2>2
<1>2. ASSUME NEW j \in Jobs, pc'[j] \in {"counting", "counted"}
      PROVE  read'[j] <= Cardinality(RecordedOf(typeOf[j])') /\ typeOf'[j] = typeOf[j]
  <2>1. read[j] <= Cardinality(RecordedOf(typeOf[j])) /\ read[j] \in Nat
    BY <1>2 DEF RollupInv, JobType
  <2>2. /\ Cardinality(RecordedOf(typeOf[j])) \in Nat
        /\ Cardinality(RecordedOf(typeOf[j])) \in Nat
    BY RecordedFinite
  <2>3. PICK t : t = typeOf[j]
    OBVIOUS
  <2> QED BY <1>2, <2>1, <2>3, RecordedGrows
<1> QED BY <1>1, <1>2 DEF RollupInv, RollupWithinAlerts

\* The count a worker writes: one more than it read, and one alert more is there.
LEMMA RollupCommit ==
    ASSUME JobType, TableType, JobInv, RollupInv, NEW j \in Jobs, Commit(j)
    PROVE  RollupInv'
<1>1. /\ pc[j] = "counted" /\ pc' = [pc EXCEPT ![j] = "committed"]
      /\ typeOf' = typeOf /\ read' = [read EXCEPT ![j] = 0]
      /\ total' = [total EXCEPT ![typeOf[j]] = read[j] + 1]
  BY DEF Commit, Go, Counted
<1>2. typeOf[j] \in Types
  BY <1>1 DEF JobInv, Transaction
<1>3. \A i \in Jobs : pc[i] \in Recorded => pc'[i] \in Recorded /\ typeOf'[i] = typeOf[i]
  BY <1>1 DEF JobType, Recorded
<1>4. ASSUME NEW t \in Types
      PROVE  total'[t] <= Cardinality(RecordedOf(t)')
  <2>1. /\ RecordedOf(t) \subseteq RecordedOf(t)'
        /\ Cardinality(RecordedOf(t)) \in Nat /\ Cardinality(RecordedOf(t)') \in Nat
        /\ Cardinality(RecordedOf(t)) <= Cardinality(RecordedOf(t)')
    BY <1>3, RecordedGrows
  <2>2. CASE t # typeOf[j]
    <3>1. total'[t] = total[t] /\ total[t] \in Nat
      BY <1>1, <2>2 DEF TableType
    <3>2. total[t] <= Cardinality(RecordedOf(t))
      BY DEF RollupInv, RollupWithinAlerts
    <3> QED BY <2>1, <3>1, <3>2
  <2>3. CASE t = typeOf[j]
    <3>1. j \in RecordedOf(t)' /\ j \notin RecordedOf(t)
      BY <1>1, <2>3 DEF RecordedOf, Recorded, JobType
    <3>2. IsFiniteSet(RecordedOf(t)) /\ IsFiniteSet(RecordedOf(t)')
      <4>1. IsFiniteSet(Jobs) /\ RecordedOf(t)' \subseteq Jobs
        BY PipelineConstants, FS_Interval DEF Jobs, RecordedOf
      <4> QED BY <4>1, FS_Subset, RecordedFinite
    <3>3. Cardinality(RecordedOf(t) \cup {j}) = Cardinality(RecordedOf(t)) + 1
      BY <3>1, <3>2, FS_AddElement
    <3>4. RecordedOf(t) \cup {j} \subseteq RecordedOf(t)'
      BY <2>1, <3>1
    <3>5. Cardinality(RecordedOf(t) \cup {j}) <= Cardinality(RecordedOf(t)')
      BY <3>2, <3>4, FS_Subset
    <3>6. read[j] <= Cardinality(RecordedOf(t)) /\ read[j] \in Nat
      BY <1>1, <2>3 DEF RollupInv, JobType
    <3>7. total'[t] = read[j] + 1
      BY <1>1, <1>2, <2>3 DEF TableType
    <3> QED BY <2>1, <3>3, <3>5, <3>6, <3>7
  <2> QED BY <2>2, <2>3
<1>5. ASSUME NEW i \in Jobs, pc'[i] \in {"counting", "counted"}
      PROVE  read'[i] <= Cardinality(RecordedOf(typeOf[i])')
  <2>1. i # j /\ pc'[i] = pc[i] /\ read'[i] = read[i]
    BY <1>1, <1>5 DEF JobType
  <2>2. read[i] <= Cardinality(RecordedOf(typeOf[i])) /\ read[i] \in Nat
    BY <1>5, <2>1 DEF RollupInv, JobType
  <2>3. PICK t : t = typeOf[i]
    OBVIOUS
  <2> QED BY <1>1, <1>3, <2>1, <2>2, <2>3, RecordedGrows
<1> QED BY <1>1, <1>4, <1>5 DEF RollupInv, RollupWithinAlerts

LEMMA RollupRead ==
    ASSUME JobType, TableType, JobInv, RollupInv, NEW j \in Jobs, ReadStatistics(j)
    PROVE  RollupInv'
<1>1. /\ pc[j] = "inserted" /\ pc' = [pc EXCEPT ![j] = "counting"]
      /\ read' = [read EXCEPT ![j] = total[typeOf[j]]]
      /\ typeOf' = typeOf /\ total' = total
  BY DEF ReadStatistics, Go
<1>2. typeOf[j] \in Types
  BY <1>1 DEF JobInv, Transaction
<1>3. \A i \in Jobs : pc'[i] \in Recorded <=> pc[i] \in Recorded
  BY <1>1 DEF JobType, Recorded
<1>4. \A t : RecordedOf(t)' = RecordedOf(t)
  BY <1>1, <1>3 DEF RecordedOf
<1>5. \A i \in Jobs : pc'[i] \in {"counting", "counted"} =>
          read'[i] <= Cardinality(RecordedOf(typeOf[i]))
  BY <1>1, <1>2 DEF JobType, RollupInv, RollupWithinAlerts
<1>6. RollupWithinAlerts'
  BY <1>1, <1>4 DEF RollupInv, RollupWithinAlerts
<1>7. \A i \in Jobs : RecordedOf(typeOf[i])' = RecordedOf(typeOf[i])
  BY <1>1, <1>4 DEF RecordedOf
<1> QED BY <1>1, <1>5, <1>6, <1>7 DEF RollupInv

LEMMA RollupStep ==
    ASSUME JobType, TableType, JobInv, RollupInv, [Next]_vars
    PROVE  RollupInv'
<1>1. \A t \in Types : total[t] <= total[t] /\ total[t] \in Nat
  BY DEF TableType
<1>2. ASSUME NEW j \in Jobs, NEW f \in 1..MaxFlows, NEW closed \in BOOLEAN,
             Submit(j, f, closed)
      PROVE  RollupInv'
  <2>1. pc[j] = "unborn" /\ pc' = [pc EXCEPT ![j] = "queued"] /\ UNCHANGED <<typeOf, read, total>>
    BY <1>2 DEF Submit, Fresh, Go
  <2> QED BY <1>1, <2>1, RollupFrame DEF JobType, Recorded
<1>3. ASSUME NEW j \in Jobs, Simulate(j)
      PROVE  RollupInv'
  <2>1. /\ pc[j] = "unborn" /\ pc' = [pc EXCEPT ![j] = "committed"]
        /\ \E t \in Types : typeOf' = [typeOf EXCEPT ![j] = t]
        /\ UNCHANGED <<read, total>>
    BY <1>3 DEF Simulate, Fresh, Go
  <2>2. \A i \in Jobs \ {j} : pc'[i] = pc[i] /\ typeOf'[i] = typeOf[i]
    BY <2>1 DEF JobType
  <2>3. pc'[j] = "committed"
    BY <2>1 DEF JobType
  <2> QED BY <1>1, <2>1, <2>2, <2>3, RollupFrame DEF Recorded
<1>4. ASSUME NEW j \in Jobs, Classify(j)
      PROVE  RollupInv'
  <2>1. /\ pc[j] = "classifying" /\ pc'[j] \in {"unclassified", "inserting"}
        /\ UNCHANGED <<read, total>>
        /\ \A i \in Jobs \ {j} : pc'[i] = pc[i] /\ typeOf'[i] = typeOf[i]
    BY <1>4 DEF Classify, Go, JobType
  <2> QED BY <1>1, <2>1, RollupFrame DEF Recorded
<1>5. ASSUME NEW j \in Jobs,
             Take(j) \/ InsertRows(j) \/ Publish(j) \/ Enrich(j) \/ Tag(j) \/ Respond(j)
      PROVE  RollupInv'
  <2>1. UNCHANGED <<typeOf, read, total>>
    BY <1>5 DEF Take, InsertRows, Publish, Enrich, Tag, Respond, jobVars
  <2>2. /\ pc'[j] \notin {"counting", "counted"}
        /\ pc[j] \in Recorded => pc'[j] \in Recorded
        /\ \A i \in Jobs \ {j} : pc'[i] = pc[i]
    BY <1>5
    DEF Take, InsertRows, Publish, Enrich, Tag, Respond, Go, Rollback, AfterRollback,
        JobType, Recorded
  <2> QED BY <1>1, <2>1, <2>2, RollupFrame
<1>6. ASSUME NEW j \in Jobs, WriteStatistics(j) \/ DatabaseError(j)
      PROVE  RollupInv'
  <2>1. UNCHANGED <<typeOf, total>> /\ pc[j] \notin Recorded
    BY <1>6 DEF WriteStatistics, DatabaseError, Transaction, Recorded
  <2>2. \A i \in Jobs \ {j} : pc'[i] = pc[i] /\ read'[i] = read[i]
    BY <1>6 DEF WriteStatistics, DatabaseError, Go, Rollback, JobType
  <2>3. pc'[j] \in {"counting", "counted"} => pc[j] = "counting" /\ read'[j] = read[j]
    BY <1>6 DEF WriteStatistics, DatabaseError, Go, Rollback, AfterRollback, JobType
  <2> QED BY <1>1, <2>1, <2>2, <2>3, RollupFrame
<1>7. ASSUME CommitClear
      PROVE  RollupInv'
  <2>1. UNCHANGED <<pc, typeOf, read>>
    BY <1>7 DEF CommitClear, jobVars
  <2>2. \A t \in Types : total'[t] <= total[t] /\ total'[t] \in Nat
    BY <1>1, <1>7 DEF CommitClear
  <2> QED BY <2>1, <2>2, RollupFrame
<1>8. ASSUME \/ \E S \in ClearRequests : StartClear(S)
             \/ \E s \in Scopes : Delete(s)
             \/ UNCHANGED vars
      PROVE  RollupInv'
  <2>1. UNCHANGED <<pc, typeOf, read, total>>
    BY <1>8 DEF StartClear, Delete, vars, jobVars
  <2> QED BY <1>1, <2>1, RollupFrame
<1> QED
  BY <1>2, <1>3, <1>4, <1>5, <1>6, <1>7, <1>8, RollupCommit, RollupRead
  DEF Next, JobStep, ClearStep

\* The rollup never claims more detections of a type than were committed, however
\* the workers' reads and writes of attack_statistics interleave (repositories.py).
THEOREM RollupWithinAlertsHolds == Spec => []RollupWithinAlerts
<1>1. Init => RollupInv
  <2>1. ASSUME Init, NEW t \in Types PROVE total[t] <= Cardinality(RecordedOf(t))
    <3>1. total[t] = 0 /\ Cardinality(RecordedOf(t)) \in Nat
      BY <2>1, RecordedFinite DEF Init
    <3> QED BY <3>1
  <2> QED BY <2>1 DEF Init, RollupInv, RollupWithinAlerts
<1>2. IInv /\ RollupInv /\ [Next]_vars => RollupInv'
  BY RollupStep, TypeParts DEF IInv
<1>3. RollupInv => RollupWithinAlerts
  BY DEF RollupInv
<1> QED
  BY <1>1, <1>2, <1>3, Invariance, PTL DEF Spec
=============================================================================
