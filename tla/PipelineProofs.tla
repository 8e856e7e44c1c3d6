--------------------------- MODULE PipelineProofs ---------------------------
(***************************************************************************)
(* Proofs about module Pipeline, for any retry limits, any reviewers and   *)
(* any bound on the overrides.                                             *)
(***************************************************************************)
EXTENDS Pipeline, DecisionsProofs

(* The worker has a transaction open exactly while the chain is persisting. *)
WorkerPersists ==
  /\ phase = "persisting" => stage = "persist_decision"
  /\ txn[Worker].at # "idle" => phase = "persisting" /\ txn[Worker].type = outcome

(* The events that precede a stage. *)
Preceding(s) ==
  CASE s = "enrich"           -> {}
    [] s = "compute_features" -> {"enrichment_completed"}
    [] s = "run_scoring"      -> {"enrichment_completed", "features_computed"}
    [] s = "evaluate_rules"   -> {"enrichment_completed", "features_computed",
                                  "score_generated"}
    [] OTHER                  -> Events

(* The chain reaches a stage only with what the earlier ones have left. *)
StagesInOrder ==
  /\ Preceding(stage) \subseteq audited
  /\ stage = "persist_decision" => outcome \in Types /\ outcome \in evaluated
  /\ phase = "reporting" => stage # "webhook"

(* At the webhook the status is one that a decision had. *)
StatusIsDecided ==
  stage = "webhook" => \E row \in rows : row.type = status

ChainTypeOK ==
  /\ stage \in Stages /\ phase \in Phases /\ tries \in 0 .. RetryLimit
  /\ exc \in {"none", "transient", "permanent"}
  /\ outcome \in Types \cup {"none"}
  /\ saved \subseteq {"features", "score"}
  /\ audited \subseteq Events \cup {"dispatch_attempt", "failed"}
  /\ evaluated \subseteq Types
  /\ deliveries \in Nat
  /\ delivered \subseteq Status

Inv ==
  /\ DInv
  /\ ChainTypeOK
  /\ WorkerPersists
  /\ StagesInOrder
  /\ StatusIsDecided
  /\ DecisionIsTraceable
  /\ WebhookReportsADecision

(* The chain's own steps on the decision table, and the reviewers', are      *)
(* steps of the decision code.                                             *)
LEMMA TableStep ==
  ASSUME StagesInOrder, Next
  PROVE  AnyStep \/ UNCHANGED dvars
<1>1. Worker \in Writers /\ Reviewers \subseteq Writers /\ {"processing", "failed"} \subseteq Status
  BY DEF Writers, Status
<1>2. CASE EnrichApplication \/ FailSaves
  BY <1>1, <1>2 DEF EnrichApplication, FailSaves, AnyStep
<1>3. CASE SaveFeatures \/ AuditFeatures \/ SaveScore \/ AuditScore \/ EvaluateRules
             \/ DispatchWebhook \/ AuditDispatch
  BY <1>3 DEF SaveFeatures, AuditFeatures, SaveScore, AuditScore, EvaluateRules,
              DispatchWebhook, AuditDispatch, AuditAndReturn
<1>4. CASE FailAudits \/ WebhookSwallows \/ Retry \/ GiveUp \/ HandlerRaises
  BY <1>4 DEF FailAudits, WebhookSwallows, Retry, GiveUp, HandlerRaises
<1>5. CASE PersistBegin
  BY <1>5 DEF PersistBegin, StagesInOrder, AnyStep
<1>6. CASE PersistStatement \/ PersistCommit
  BY <1>1, <1>6 DEF PersistStatement, PersistCommit, AnyStep
<1>7. CASE StageRaises \/ Lose
  BY <1>1, <1>7 DEF StageRaises, Lose, RollBack, AnyStep
<1>8. CASE \E r \in Reviewers : Override(r)
  BY <1>1, <1>8 DEF Override, AnyStep
<1> QED BY <1>2, <1>3, <1>4, <1>5, <1>6, <1>7, <1>8 DEF Next, Progress

(* Every step keeps the types of the chain's variables. *)
LEMMA ChainTypeStep ==
  ASSUME DTypeOK, ChainTypeOK, Next
  PROVE  ChainTypeOK'
<1> USE RetriesAssumption DEF ChainTypeOK, RetryLimit
<1>1. CASE EnrichApplication
  BY <1>1 DEF EnrichApplication, Return, InDoubt, Raise, Following, Stages, Phases, Events
<1>2. CASE SaveFeatures \/ SaveScore
  BY <1>2 DEF SaveFeatures, SaveScore, Goto, InDoubt, Raise, Phases
<1>3. CASE AuditFeatures \/ AuditScore
  BY <1>3 DEF AuditFeatures, AuditScore, AuditAndReturn, Return, InDoubt, Raise,
              Following, Stages, Phases, Events
<1>4. CASE EvaluateRules
  BY <1>4 DEF EvaluateRules, Return, InDoubt, Raise, Following, Stages, Phases, Events
<1>5. CASE PersistBegin
  BY <1>5 DEF PersistBegin, Goto, Phases
<1>6. CASE PersistStatement
  BY <1>6 DEF PersistStatement, cvars
<1>7. CASE PersistCommit
  BY <1>7 DEF PersistCommit, Return, InDoubt, Raise, Following, Stages, Phases
<1>8. CASE DispatchWebhook
  BY <1>8 DEF DispatchWebhook, Goto, InDoubt, Raise, Phases, DTypeOK
<1>9. CASE AuditDispatch
  BY <1>9 DEF AuditDispatch, Goto, InDoubt, Raise, Phases, Terminal
<1>10. CASE StageRaises
  BY <1>10 DEF StageRaises, Raise, Phases
<1>11. CASE FailSaves \/ FailAudits \/ WebhookSwallows
  BY <1>11 DEF FailSaves, FailAudits, WebhookSwallows, Goto, Phases, Terminal
<1>12. CASE HandlerRaises
  BY <1>12 DEF HandlerRaises, Phases
<1>13. CASE Retry
  BY <1>13 DEF Retry, Retriable, Phases
<1>14. CASE GiveUp \/ Lose
  BY <1>14 DEF GiveUp, Lose, Goto, Phases, Terminal
<1>15. CASE UNCHANGED cvars
  BY <1>15 DEF cvars
<1> QED BY <1>1, <1>2, <1>3, <1>4, <1>5, <1>6, <1>7, <1>8, <1>9, <1>10, <1>11, <1>12,
           <1>13, <1>14, <1>15 DEF Next, Progress

(* What a step of a reviewer leaves of the worker's transaction, and of     *)
(* the rows.                                                               *)
LEMMA OverrideFrame ==
  ASSUME DTypeOK, FreshIds, NEW r \in Reviewers, Override(r)
  PROVE  /\ txn'[Worker] = txn[Worker]
         /\ rows \subseteq rows'
         /\ \A row \in rows' \ rows : row.source = "override" /\ status' = row.type
         /\ rows' = rows => status' = status
<1>1. r # Worker /\ r \in Writers /\ Worker \in Writers
  BY ReviewersAssumption DEF Writers
<1>2. ASSUME NEW type \in Types, AdmitOverride(r, type)
      PROVE  txn'[Worker] = txn[Worker] /\ UNCHANGED <<rows, status>>
  BY <1>1, <1>2 DEF AdmitOverride, DTypeOK
<1>3. CASE SelectCurrent(r) \/ SnapshotCurrent(r) \/ ClearAndInsert(r) \/ SaveStatus(r)
             \/ AbortDecision(r)
  <2>1. txn'[Worker] = txn[Worker] /\ UNCHANGED <<rows, status>>
    BY <1>1, <1>3 DEF SelectCurrent, SnapshotCurrent, ClearAndInsert, SaveStatus,
                      AbortDecision, DTypeOK
  <2> QED BY <2>1
<1>4. CASE CommitDecision(r)
  <2>1. txn'[Worker] = txn[Worker]
    BY <1>1, <1>4 DEF CommitDecision, DTypeOK
  <2>2. txn[r].type \in DecisionType /\ SourceOf(r) = "override"
    BY <1>1 DEF DTypeOK, Txn, SourceOf
  <2>3. status' = txn[r].type
    BY <1>4, <2>2 DEF CommitDecision, StatusOf
  <2>4. rows' = rows \cup {[id |-> txn[r].id, type |-> txn[r].type,
                            source |-> "override", prev |-> txn[r].prev]}
    BY <1>4, <2>2 DEF CommitDecision
  <2>5. [id |-> txn[r].id, type |-> txn[r].type, source |-> "override",
         prev |-> txn[r].prev] \notin rows
    <3>1. txn[r].id \notin Ids
      BY <1>1, <1>4 DEF CommitDecision, Inserted, FreshIds
    <3> QED BY <3>1 DEF Ids
  <2> QED BY <2>1, <2>3, <2>4, <2>5
<1> QED BY <1>2, <1>3, <1>4 DEF Override

(* The worker's own statements keep its transaction's type and its stage.   *)
LEMMA WorkerStep ==
  ASSUME DTypeOK, ChainTypeOK, FreshIds, WorkerPersists, StagesInOrder, Next
  PROVE  WorkerPersists'
<1> USE DEF WorkerPersists
<1>0. Worker \in Writers /\ NoTxn.at = "idle"
  BY DEF Writers, NoTxn
<1>1. CASE EnrichApplication \/ SaveFeatures \/ SaveScore \/ AuditFeatures \/ AuditScore
             \/ EvaluateRules \/ DispatchWebhook \/ AuditDispatch
  <2>1. phase \in {"ready", "auditing"} /\ phase' # "persisting" /\ txn' = txn
    BY <1>1 DEF EnrichApplication, SaveFeatures, SaveScore, AuditFeatures, AuditScore,
                EvaluateRules, DispatchWebhook, AuditDispatch, AuditAndReturn, SetStatus,
                dvars, Return, InDoubt, Raise, Goto
  <2> QED BY <2>1
<1>2. CASE FailSaves \/ FailAudits \/ WebhookSwallows \/ HandlerRaises \/ Retry \/ GiveUp
  <2>1. phase \in {"failing", "reporting", "raised"} /\ phase' # "persisting" /\ txn' = txn
    BY <1>2 DEF FailSaves, FailAudits, WebhookSwallows, HandlerRaises, Retry, GiveUp,
                SetStatus, dvars, Goto
  <2> QED BY <2>1
<1>3. CASE PersistBegin
  <2>1. txn'[Worker] = [NoTxn EXCEPT !.at = "snapshot", !.type = outcome]
    BY <1>0, <1>3 DEF PersistBegin, BeginPersist, DTypeOK
  <2>2. txn'[Worker].type = outcome
    BY <2>1 DEF NoTxn
  <2> QED BY <1>3, <2>2 DEF PersistBegin, Goto
<1>4. CASE PersistStatement
  <2>1. txn[Worker] \in Txn /\ txn \in [Writers -> Txn]
    BY <1>0 DEF DTypeOK
  <2>2. txn'[Worker].type = txn[Worker].type /\ txn[Worker].at # "idle"
    <3>1. CASE SnapshotCurrent(Worker)
      BY <1>0, <2>1, <3>1 DEF SnapshotCurrent, Txn
    <3>2. CASE ClearAndInsert(Worker)
      BY <1>0, <2>1, <3>2 DEF ClearAndInsert, Txn
    <3>3. CASE SaveStatus(Worker)
      BY <1>0, <2>1, <3>3 DEF SaveStatus, Txn
    <3> QED BY <1>4, <3>1, <3>2, <3>3 DEF PersistStatement
  <2> QED BY <1>4, <2>2 DEF PersistStatement, cvars
<1>5. CASE PersistCommit \/ StageRaises \/ Lose
  <2>1. txn'[Worker].at = "idle"
    BY <1>0, <1>5 DEF PersistCommit, CommitDecision, StageRaises, Lose, RollBack,
                      AbortDecision, DTypeOK, dvars
  <2>2. phase' # "persisting"
    BY <1>5 DEF PersistCommit, StageRaises, Lose, Return, InDoubt, Raise, Goto
  <2> QED BY <2>1, <2>2
<1>6. ASSUME NEW r \in Reviewers, Override(r), UNCHANGED cvars
      PROVE  WorkerPersists'
  BY <1>6, OverrideFrame DEF cvars
<1> QED BY <1>1, <1>2, <1>3, <1>4, <1>5, <1>6 DEF Next, Progress

(* The events of a stage are audited before the chain leaves it. *)
LEMMA OrderStep ==
  ASSUME ChainTypeOK, WorkerPersists, StagesInOrder, Next
  PROVE  StagesInOrder'
<1> USE DEF StagesInOrder, ChainTypeOK, Stages
<1>1. CASE EnrichApplication
  BY <1>1 DEF EnrichApplication, Return, InDoubt, Raise, Following, Preceding
<1>2. CASE SaveFeatures \/ SaveScore
  BY <1>2 DEF SaveFeatures, SaveScore, Goto, InDoubt, Raise, Preceding
<1>3. CASE AuditFeatures \/ AuditScore
  BY <1>3 DEF AuditFeatures, AuditScore, AuditAndReturn, Return, InDoubt, Raise,
              Following, Preceding
<1>4. CASE EvaluateRules
  BY <1>4 DEF EvaluateRules, Return, InDoubt, Raise, Following, Preceding, Events
<1>5. CASE PersistBegin \/ PersistStatement
  BY <1>5 DEF PersistBegin, PersistStatement, Goto, Preceding, cvars
<1>6. CASE PersistCommit
  BY <1>6 DEF PersistCommit, WorkerPersists, Return, InDoubt, Raise, Following, Preceding
<1>7. CASE DispatchWebhook \/ AuditDispatch \/ WebhookSwallows
  BY <1>7 DEF DispatchWebhook, AuditDispatch, WebhookSwallows, Goto, InDoubt, Raise, Preceding
<1>8. CASE StageRaises \/ HandlerRaises \/ Lose \/ Retry \/ GiveUp
  BY <1>8 DEF StageRaises, HandlerRaises, Lose, Retry, GiveUp, Raise, Goto, Preceding
<1>9. CASE FailSaves \/ FailAudits
  BY <1>9 DEF FailSaves, FailAudits, Goto, Preceding
<1>10. CASE UNCHANGED cvars
  BY <1>10 DEF cvars, Preceding
<1> QED BY <1>1, <1>2, <1>3, <1>4, <1>5, <1>6, <1>7, <1>8, <1>9, <1>10 DEF Next, Progress

(* The row that PersistCommit adds has the outcome as its type. *)
LEMMA CommitFrame ==
  ASSUME DTypeOK, ChainTypeOK, WorkerPersists, StagesInOrder, PersistCommit
  PROVE  /\ status' = outcome
         /\ rows' = rows \cup {[id |-> txn[Worker].id, type |-> outcome,
                                source |-> "pipeline", prev |-> txn[Worker].prev]}
<1>1. Worker \in Writers /\ SourceOf(Worker) = "pipeline"
  BY DEF Writers, SourceOf
<1>2. txn[Worker].type = outcome
  BY DEF PersistCommit, CommitDecision, WorkerPersists
<1>3. outcome \in DecisionType
  BY TypesAssumption DEF PersistCommit, WorkerPersists, StagesInOrder
<1> QED BY <1>1, <1>2, <1>3 DEF PersistCommit, CommitDecision, StatusOf

(* What a step of the chain leaves of the rows: only PersistCommit adds one. *)
LEMMA RowsFrame ==
  ASSUME DTypeOK, FreshIds, ChainTypeOK, WorkerPersists, StagesInOrder, Next
  PROVE  \/ /\ UNCHANGED rows
            /\ status' = status \/ stage # "webhook"
         \/ /\ PersistCommit
            /\ status' = outcome
            /\ rows' = rows \cup {[id |-> txn[Worker].id, type |-> outcome,
                                   source |-> "pipeline", prev |-> txn[Worker].prev]}
         \/ \E r \in Reviewers : Override(r) /\ UNCHANGED cvars
<1>1. CASE SaveFeatures \/ AuditFeatures \/ SaveScore \/ AuditScore \/ EvaluateRules
             \/ DispatchWebhook \/ AuditDispatch
  BY <1>1 DEF SaveFeatures, AuditFeatures, SaveScore, AuditScore, EvaluateRules,
              DispatchWebhook, AuditDispatch, AuditAndReturn, dvars
<1>2. CASE FailAudits \/ WebhookSwallows \/ Retry \/ GiveUp \/ HandlerRaises
  BY <1>2 DEF FailAudits, WebhookSwallows, Retry, GiveUp, HandlerRaises, dvars
<1>3. CASE EnrichApplication \/ FailSaves
  BY <1>3 DEF EnrichApplication, FailSaves, SetStatus
<1>4. CASE PersistBegin \/ PersistStatement \/ StageRaises \/ Lose
  BY <1>4 DEF PersistBegin, PersistStatement, BeginPersist, SnapshotCurrent,
              ClearAndInsert, SaveStatus, StageRaises, Lose, RollBack, AbortDecision, dvars
<1>5. CASE PersistCommit
  BY <1>5, CommitFrame
<1> QED BY <1>1, <1>2, <1>3, <1>4, <1>5 DEF Next, Progress

LEMMA StatusStep ==
  ASSUME DTypeOK, FreshIds, ChainTypeOK, WorkerPersists, StagesInOrder, StatusIsDecided, Next
  PROVE  StatusIsDecided'
<1> USE DEF StatusIsDecided
<1>1. CASE PersistCommit
  <2> DEFINE new == [id |-> txn[Worker].id, type |-> outcome,
                     source |-> "pipeline", prev |-> txn[Worker].prev]
  <2>1. status' = outcome /\ rows' = rows \cup {new}
    BY <1>1, CommitFrame
  <2>2. new \in rows' /\ new.type = outcome
    BY <2>1
  <2> QED BY <2>1, <2>2
<1>2. ASSUME NEW r \in Reviewers, Override(r), UNCHANGED cvars
      PROVE  StatusIsDecided'
  <2>1. CASE rows' = rows
    BY <1>2, <2>1, OverrideFrame DEF cvars
  <2>2. CASE rows' # rows
    BY <1>2, <2>2, OverrideFrame
  <2> QED BY <2>1, <2>2
<1>3. ASSUME UNCHANGED rows, status' = status \/ stage # "webhook", ~PersistCommit
      PROVE  StatusIsDecided'
  <2>1. stage' = "webhook" => stage = "webhook"
    BY <1>3 DEF Next, Progress, EnrichApplication, SaveFeatures, AuditFeatures, SaveScore,
       AuditScore, EvaluateRules, PersistBegin, PersistStatement, DispatchWebhook,
       AuditDispatch, FailSaves, FailAudits, WebhookSwallows, Retry, GiveUp, StageRaises,
       HandlerRaises, Lose, AuditAndReturn, Return, InDoubt, Raise, Goto, Following, cvars
  <2> QED BY <1>3, <2>1
<1> QED BY <1>1, <1>2, <1>3, RowsFrame

LEMMA TraceStep ==
  ASSUME DTypeOK, FreshIds, ChainTypeOK, WorkerPersists, StagesInOrder,
         DecisionIsTraceable, Next
  PROVE  DecisionIsTraceable'
<1>1. audited \subseteq audited' /\ evaluated \subseteq evaluated'
  BY DEF Next, Progress, EnrichApplication, SaveFeatures, AuditFeatures, SaveScore,
     AuditScore, EvaluateRules, PersistBegin, PersistStatement, PersistCommit,
     DispatchWebhook, AuditDispatch, FailSaves, FailAudits, WebhookSwallows, Retry,
     GiveUp, StageRaises, HandlerRaises, Lose, AuditAndReturn, cvars
<1>2. CASE UNCHANGED rows
  BY <1>1, <1>2 DEF DecisionIsTraceable
<1>3. CASE PersistCommit /\ rows' = rows \cup {[id |-> txn[Worker].id, type |-> outcome,
                              source |-> "pipeline", prev |-> txn[Worker].prev]}
  <2>1. Events \subseteq audited /\ outcome \in evaluated
    BY <1>3 DEF PersistCommit, WorkerPersists, StagesInOrder, Preceding
  <2> QED BY <1>1, <1>3, <2>1 DEF DecisionIsTraceable
<1>4. ASSUME NEW r \in Reviewers, Override(r)
      PROVE  DecisionIsTraceable'
  BY <1>1, <1>4, OverrideFrame DEF DecisionIsTraceable
<1> QED BY <1>2, <1>3, <1>4, RowsFrame

LEMMA WebhookStep ==
  ASSUME DTypeOK, FreshIds, ChainTypeOK, WorkerPersists, StagesInOrder, StatusIsDecided,
         WebhookReportsADecision, Next
  PROVE  WebhookReportsADecision'
<1>1. rows \subseteq rows'
  BY RowsFrame, OverrideFrame
<1>2. CASE DispatchWebhook
  BY <1>1, <1>2 DEF DispatchWebhook, StatusIsDecided, WebhookReportsADecision
<1>3. CASE ~DispatchWebhook
  <2>1. delivered' = delivered
    BY <1>3 DEF Next, Progress, EnrichApplication, SaveFeatures, AuditFeatures, SaveScore,
       AuditScore, EvaluateRules, PersistBegin, PersistStatement, PersistCommit,
       AuditDispatch, FailSaves, FailAudits, WebhookSwallows, Retry, GiveUp, StageRaises,
       HandlerRaises, Lose, AuditAndReturn, cvars
  <2> QED BY <1>1, <2>1 DEF WebhookReportsADecision
<1> QED BY <1>2, <1>3
-----------------------------------------------------------------------------
LEMMA InvInit == Init => Inv
<1> SUFFICES ASSUME Init PROVE Inv
  OBVIOUS
<1>1. DInv
  BY DInvInit DEF Init
<1>2. ChainTypeOK
  BY RetriesAssumption DEF Init, ChainTypeOK, Stages, Phases, RetryLimit
<1>3. rows = {} /\ txn[Worker].at = "idle" /\ stage = "enrich" /\ phase = "ready"
  BY DEF Init, DInit, Writers, NoTxn
<1>4. WorkerPersists /\ StagesInOrder /\ StatusIsDecided
  BY <1>3 DEF WorkerPersists, StagesInOrder, StatusIsDecided, Preceding
<1>5. DecisionIsTraceable /\ WebhookReportsADecision
  BY <1>3 DEF Init, DecisionIsTraceable, WebhookReportsADecision
<1> QED BY <1>1, <1>2, <1>4, <1>5 DEF Inv

LEMMA InvStep == Inv /\ [Next]_vars => Inv'
<1> USE DEF Inv
<1>1. ASSUME Inv, Next
      PROVE  Inv'
  <2>1. DTypeOK /\ FreshIds
    BY <1>1 DEF DInv
  <2>2. DInv'
    BY <1>1, TableStep, DInvStep
  <2> QED BY <1>1, <2>1, <2>2, ChainTypeStep, WorkerStep, OrderStep, StatusStep, TraceStep,
             WebhookStep
<1>2. ASSUME Inv, UNCHANGED vars
      PROVE  Inv'
  <2>1. UNCHANGED dvars /\ UNCHANGED cvars
    BY <1>2 DEF vars
  <2>2. DInv'
    BY <1>2, <2>1, DInvStep
  <2> QED BY <1>2, <2>1, <2>2 DEF dvars, cvars, ChainTypeOK, WorkerPersists, StagesInOrder,
             StatusIsDecided, DecisionIsTraceable, WebhookReportsADecision, RetryLimit, Preceding
<1> QED BY <1>1, <1>2

LEMMA Invariant == Spec => []Inv
  BY InvInit, InvStep, PTL DEF Spec

(* Every reachable state of the chain and the decision table has its types, *)
(* and no task is retried more often than its retry_kwargs allow.          *)
THEOREM PipelineTyping == Spec => []TypeOK
<1>1. Inv => TypeOK
  BY DEF Inv, DInv, ChainTypeOK, TypeOK
<1> QED BY <1>1, Invariant, PTL

(* Under every fault and any number of concurrent reviewers, a pipeline     *)
(* decision has its full audit trail, and its type is one that was audited *)
(* as the rules' outcome.                                                  *)
THEOREM Traceable == Spec => []DecisionIsTraceable
<1>1. Inv => DecisionIsTraceable
  BY DEF Inv
<1> QED BY <1>1, Invariant, PTL

(* Under every fault and any number of reviewers, the webhook reports only  *)
(* statuses that a decision row had.                                       *)
THEOREM WebhookHonest == Spec => []WebhookReportsADecision
<1>1. Inv => WebhookReportsADecision
  BY DEF Inv
<1> QED BY <1>1, Invariant, PTL

(* The chain, with its retries and losses, does nothing to the decision     *)
(* table that DSpec's invariants do not survive.                           *)
THEOREM PipelineHistory ==
  Spec => [](/\ LatestRowIsCurrent /\ SupersededStaysSuperseded
             /\ OverridesHavePredecessors)
<1>1. Inv => LatestRowIsCurrent /\ SupersededStaysSuperseded /\ OverridesHavePredecessors
  BY DEF Inv, DInv
<1> QED BY <1>1, Invariant, PTL
-----------------------------------------------------------------------------
(* While the exception handler itself never fails, the task that swallows   *)
(* its error is never retried.                                             *)
DispatchedOnce ==
  /\ OneDelivery
  /\ stage # "webhook" \/ phase = "ready" => deliveries = 0
  /\ stage = "webhook" => phase \notin {"reporting", "raised"}

LEMMA DispatchInit == Init => DispatchedOnce
  BY DEF Init, DispatchedOnce, OneDelivery

LEMMA DispatchStep ==
  ASSUME "handler" \notin Faults, Inv, DispatchedOnce, [Next]_vars
  PROVE  DispatchedOnce'
<1> USE DEF DispatchedOnce, OneDelivery
<1>1. CASE EnrichApplication \/ SaveFeatures \/ SaveScore \/ EvaluateRules \/ PersistBegin
  BY <1>1 DEF EnrichApplication, SaveFeatures, SaveScore, EvaluateRules, PersistBegin, Return,
              InDoubt, Raise, Goto, Following
<1>2. CASE AuditFeatures \/ AuditScore
  BY <1>2 DEF AuditFeatures, AuditScore, AuditAndReturn, Return, InDoubt, Raise, Following
<1>3. CASE PersistStatement \/ UNCHANGED cvars
  BY <1>3 DEF PersistStatement, cvars
<1>4. CASE PersistCommit
  BY <1>4 DEF PersistCommit, Return, InDoubt, Raise, Following, Inv, WorkerPersists
<1>5. CASE DispatchWebhook \/ AuditDispatch \/ WebhookSwallows
  BY <1>5 DEF DispatchWebhook, AuditDispatch, WebhookSwallows, Goto, InDoubt, Raise
<1>6. CASE StageRaises \/ HandlerRaises \/ Lose
  BY <1>6 DEF StageRaises, HandlerRaises, Lose, Raise, Goto
<1>7. CASE FailSaves \/ FailAudits \/ Retry \/ GiveUp
  BY <1>7 DEF FailSaves, FailAudits, Retry, GiveUp, Goto
<1>8. CASE UNCHANGED vars
  BY <1>8 DEF vars, cvars
<1> QED BY <1>1, <1>2, <1>3, <1>4, <1>5, <1>6, <1>7, <1>8 DEF Next, Progress

(* Whatever else fails, is retried, in doubt or lost: while no statement of *)
(* an exception handler raises, there is at most one webhook delivery.     *)
THEOREM DeliveredOnce ==
  ASSUME "handler" \notin Faults
  PROVE  Spec => []OneDelivery
<1>1. Init => Inv /\ DispatchedOnce
  BY InvInit, DispatchInit
<1>2. Inv /\ DispatchedOnce /\ [Next]_vars => Inv' /\ DispatchedOnce'
  BY InvStep, DispatchStep
<1>3. DispatchedOnce => OneDelivery
  BY DEF DispatchedOnce
<1> QED BY <1>1, <1>2, <1>3, PTL DEF Spec

-----------------------------------------------------------------------------
(* Without commits in doubt, nobody overrides before the chain has left     *)
(* persist_decision, so nothing undoes what _fail has written.             *)
Undecided ==
  stage # "webhook" =>
    /\ rows = {} /\ current = {}
    /\ status \notin Decided
    /\ \A r \in Reviewers : txn[r].at = "idle"

Reported ==
  stage # "webhook" =>
    /\ phase \in {"reporting", "raised", "stopped"} => status = "failed"
    /\ phase \in {"raised", "stopped"} => "failed" \in audited

LEMMA ReportInit == Init => Undecided /\ Reported
<1> SUFFICES ASSUME Init PROVE Undecided /\ Reported
  OBVIOUS
<1>1. \A r \in Reviewers : txn[r].at = "idle"
  BY DEF Init, DInit, Writers, NoTxn
<1> QED BY <1>1 DEF Init, DInit, Undecided, Reported, Decided, DecisionType

(* A reviewer's statement moves nothing while the chain is undecided. *)
LEMMA NoOverride ==
  ASSUME Undecided, stage # "webhook", NEW r \in Reviewers, Override(r)
  PROVE  FALSE
<1>1. txn[r].at = "idle" /\ current = {}
  BY DEF Undecided
<1> QED BY <1>1 DEF Override, AdmitOverride, SelectCurrent, SnapshotCurrent, ClearAndInsert,
                    SaveStatus, CommitDecision, AbortDecision

LEMMA UndecidedStep ==
  ASSUME "indoubt" \notin Faults, Inv, Undecided, [Next]_vars
  PROVE  Undecided'
<1> SUFFICES ASSUME stage' # "webhook"
             PROVE  /\ rows' = {} /\ current' = {} /\ status' \notin Decided
                    /\ \A r \in Reviewers : txn'[r].at = "idle"
  BY DEF Undecided
<1>0. Worker \in Writers /\ \A r \in Reviewers : r \in Writers /\ r # Worker
  BY ReviewersAssumption DEF Writers
<1>1. DTypeOK /\ ChainTypeOK /\ WorkerPersists
  BY DEF Inv, DInv
<1>2. CASE SaveFeatures \/ AuditFeatures \/ SaveScore \/ AuditScore \/ EvaluateRules
             \/ FailAudits \/ Retry \/ GiveUp \/ HandlerRaises
  <2>1. stage # "webhook" /\ UNCHANGED dvars
    BY <1>2 DEF SaveFeatures, AuditFeatures, SaveScore, AuditScore, AuditAndReturn,
                EvaluateRules, FailAudits, Retry, GiveUp, HandlerRaises, Goto
  <2> QED BY <2>1 DEF Undecided, dvars
<1>3. CASE EnrichApplication \/ FailSaves
  <2>1. stage # "webhook" /\ status' \in {"processing", "failed"}
          /\ UNCHANGED <<rows, current, txn>>
    BY <1>3 DEF EnrichApplication, FailSaves, SetStatus
  <2> QED BY <2>1 DEF Undecided, Decided, DecisionType
<1>4. CASE PersistBegin \/ PersistStatement \/ StageRaises \/ Lose
  <2>1. stage # "webhook"
    BY <1>4 DEF PersistBegin, PersistStatement, StageRaises, Lose, Raise, Goto, cvars
  <2>2. UNCHANGED <<rows, current, status>>
    BY <1>4 DEF PersistBegin, BeginPersist, PersistStatement, SnapshotCurrent, ClearAndInsert,
                SaveStatus, StageRaises, Lose, RollBack, AbortDecision, dvars
  <2>3. \A r \in Reviewers : txn'[r] = txn[r]
    BY <1>0, <1>1, <1>4
       DEF PersistBegin, BeginPersist, PersistStatement, SnapshotCurrent, ClearAndInsert,
           SaveStatus, StageRaises, Lose, RollBack, AbortDecision, dvars, DTypeOK
  <2> QED BY <2>1, <2>2, <2>3 DEF Undecided
<1>5. CASE PersistCommit
  <2>1. stage = "persist_decision"
    BY <1>1, <1>5 DEF PersistCommit, WorkerPersists
  <2> QED BY <1>5, <2>1 DEF PersistCommit, Return, InDoubt, Following
<1>6. CASE DispatchWebhook \/ AuditDispatch \/ WebhookSwallows
  BY <1>6 DEF DispatchWebhook, AuditDispatch, WebhookSwallows, Goto, InDoubt, Raise
<1>7. ASSUME NEW r \in Reviewers, Override(r), UNCHANGED cvars
      PROVE  FALSE
  BY <1>7, NoOverride DEF cvars
<1>8. CASE UNCHANGED vars
  BY <1>8 DEF vars, dvars, cvars, Undecided
<1> QED BY <1>2, <1>3, <1>4, <1>5, <1>6, <1>7, <1>8 DEF Next, Progress

LEMMA ReportedStep ==
  ASSUME "indoubt" \notin Faults, "handler" \notin Faults, Inv, Undecided, Reported,
         [Next]_vars
  PROVE  Reported'
<1> SUFFICES ASSUME stage' # "webhook"
             PROVE  /\ phase' \in {"reporting", "raised", "stopped"} => status' = "failed"
                    /\ phase' \in {"raised", "stopped"} => "failed" \in audited'
  BY DEF Reported
<1>1. CASE EnrichApplication \/ SaveFeatures \/ SaveScore \/ EvaluateRules \/ PersistBegin
             \/ PersistCommit
  BY <1>1 DEF EnrichApplication, SaveFeatures, SaveScore, EvaluateRules, PersistBegin,
              PersistCommit, Return, InDoubt, Raise, Goto
<1>2. CASE AuditFeatures \/ AuditScore \/ DispatchWebhook \/ AuditDispatch \/ WebhookSwallows
  BY <1>2 DEF AuditFeatures, AuditScore, AuditAndReturn, DispatchWebhook, AuditDispatch,
              WebhookSwallows, Return, InDoubt, Raise, Goto
<1>3. CASE PersistStatement
  BY <1>3 DEF PersistStatement, cvars
<1>4. CASE StageRaises \/ HandlerRaises \/ Lose
  BY <1>4 DEF StageRaises, HandlerRaises, Lose, Raise, Goto
<1>5. CASE FailSaves
  BY <1>5 DEF FailSaves, SetStatus, Goto
<1>6. CASE FailAudits \/ Retry \/ GiveUp
  <2>1. stage # "webhook" /\ status' = status
    BY <1>6 DEF FailAudits, Retry, GiveUp, Goto, dvars
  <2> QED BY <1>6, <2>1 DEF FailAudits, Retry, GiveUp, Goto, Reported
<1>7. ASSUME NEW r \in Reviewers, Override(r), UNCHANGED cvars
      PROVE  FALSE
  BY <1>7, NoOverride DEF cvars
<1>8. CASE UNCHANGED vars
  BY <1>8 DEF vars, dvars, cvars, Reported
<1> QED BY <1>1, <1>2, <1>3, <1>4, <1>5, <1>6, <1>7, <1>8 DEF Next, Progress

(* While no commit is in doubt and no statement of an exception handler     *)
(* raises, a chain that gives up has set the status "failed" and has       *)
(* emitted pipeline.failed, with any number of reviewers and any losses.   *)
THEOREM FailureReported ==
  ASSUME "indoubt" \notin Faults, "handler" \notin Faults
  PROVE  Spec => []FailureIsReported
<1>1. Init => Inv /\ Undecided /\ Reported
  BY InvInit, ReportInit
<1>2. Inv /\ Undecided /\ Reported /\ [Next]_vars => Inv' /\ Undecided' /\ Reported'
  BY InvStep, UndecidedStep, ReportedStep
<1>3. Reported => FailureIsReported
  BY DEF Reported, FailureIsReported
<1> QED BY <1>1, <1>2, <1>3, PTL DEF Spec
=============================================================================
