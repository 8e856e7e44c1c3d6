------------------------------ MODULE Pipeline ------------------------------
(***************************************************************************)
(* The Celery chain of one application (applications/tasks.py) composed    *)
(* with the decision transactions of module Decisions.                     *)
(*                                                                         *)
(* The chain has one message or one running task at a time, so its state   *)
(* is a stage and a phase.  A task is several commits: every point where   *)
(* it may raise, be retried or be killed between two commits is a state.   *)
(* The environment's faults are chosen by the constant Faults.             *)
(***************************************************************************)
EXTENDS Decisions

CONSTANTS
  MaxRetries,          \* retry_kwargs of the five pipeline tasks (3 in the code)
  WebhookMaxRetries,   \* retry_kwargs of dispatch_webhook_placeholder (2)
  Faults               \* what may go wrong, a subset of Fault

(* error:   a statement of a task raises                                    *)
(* handler: a statement of its exception handler raises                     *)
(* indoubt: a commit takes effect but its caller gets an error              *)
(* crash:   the worker is killed, or the broker loses the message           *)
Fault == {"error", "handler", "indoubt", "crash"}

ASSUME RetriesAssumption == MaxRetries \in Nat /\ WebhookMaxRetries \in Nat
ASSUME FaultsAssumption  == Faults \subseteq Fault

VARIABLES
  stage,      \* the task of the chain that is next or running
  phase,      \* where that task is
  tries,      \* its request.retries
  exc,        \* the class of the exception last raised
  outcome,    \* evaluate_rules' result, carried to persist_decision
  saved,      \* the feature snapshot and the score result that exist
  audited,    \* the pipeline events in the audit log
  evaluated,  \* the outcomes recorded by rules_evaluated events
  deliveries, \* the number of WebhookDelivery rows
  delivered   \* the statuses those rows report

cvars == <<stage, phase, tries, exc, outcome, saved, audited, evaluated,
           deliveries, delivered>>
vars  == <<dvars, cvars>>

Stages   == {"enrich", "compute_features", "run_scoring", "evaluate_rules",
             "persist_decision", "webhook"}
Terminal == {"done", "stopped", "lost"}
Phases   == {"ready", "auditing", "persisting", "failing", "reporting", "raised"}
              \cup Terminal

(* Bug variant: the webhook does not wait for the decision. *)
FollowingInParallel(s) == CASE s = "enrich"           -> "compute_features"
                            [] s = "compute_features" -> "run_scoring"
                            [] s = "run_scoring"      -> "evaluate_rules"
                            [] OTHER                  -> "webhook"

(* The order of the chain built by enqueue_pipeline. *)
Following(s) == CASE s = "enrich"           -> "compute_features"
                  [] s = "compute_features" -> "run_scoring"
                  [] s = "run_scoring"      -> "evaluate_rules"
                  [] s = "evaluate_rules"   -> "persist_decision"
                  [] OTHER                  -> "webhook"

RetryLimit == IF stage = "webhook" THEN WebhookMaxRetries ELSE MaxRetries

Init ==
  /\ DInit
  /\ stage = "enrich" /\ phase = "ready" /\ tries = 0 /\ exc = "none"
  /\ outcome = "none"
  /\ saved = {} /\ audited = {} /\ evaluated = {}
  /\ deliveries = 0 /\ delivered = {}

-----------------------------------------------------------------------------
(* What follows a statement. *)
Goto(p)  == phase' = p /\ UNCHANGED <<stage, tries, exc>>
Raise(e) == phase' = "failing" /\ exc' = e /\ UNCHANGED <<stage, tries>>
InDoubt  == "indoubt" \in Faults /\ Raise("transient")

(* The task returns and the worker publishes the next task of the chain. *)
Return ==
  \/ /\ stage' = Following(stage) /\ phase' = "ready" /\ tries' = 0
     /\ UNCHANGED exc
  \/ InDoubt

(* The audit row is a commit of its own, after the work it reports. *)
AuditAndReturn(event) ==
  /\ phase = "auditing"
  /\ audited' = audited \cup {event}
  /\ Return
  /\ UNCHANGED <<dvars, outcome, saved, evaluated, deliveries, delivered>>

EnrichApplication ==
  /\ stage = "enrich" /\ phase = "ready"
  /\ SetStatus("processing")
  /\ audited' = audited \cup {"enrichment_completed"}
  /\ Return
  /\ UNCHANGED <<outcome, saved, evaluated, deliveries, delivered>>

SaveFeatures ==
  /\ stage = "compute_features" /\ phase = "ready"
  /\ saved' = saved \cup {"features"}
  /\ Goto("auditing") \/ InDoubt
  /\ UNCHANGED <<dvars, outcome, audited, evaluated, deliveries, delivered>>

AuditFeatures == stage = "compute_features" /\ AuditAndReturn("features_computed")

SaveScore ==
  /\ stage = "run_scoring" /\ phase = "ready"
  /\ "features" \in saved
  /\ saved' = saved \cup {"score"}
  /\ Goto("auditing") \/ InDoubt
  /\ UNCHANGED <<dvars, outcome, audited, evaluated, deliveries, delivered>>

AuditScore == stage = "run_scoring" /\ AuditAndReturn("score_generated")

(* The outcome is that of the rules active at this moment. *)
EvaluateRules ==
  /\ stage = "evaluate_rules" /\ phase = "ready"
  /\ saved = {"features", "score"}
  /\ outcome' \in Types
  /\ evaluated' = evaluated \cup {outcome'}
  /\ audited' = audited \cup {"rules_evaluated"}
  /\ Return
  /\ UNCHANGED <<dvars, saved, deliveries, delivered>>

(* Bug variant: the rules are evaluated again instead of using the outcome. *)
PersistReevaluating ==
  /\ stage = "persist_decision" /\ phase = "ready"
  /\ \E type \in Types : BeginPersist(type)
  /\ Goto("persisting")
  /\ UNCHANGED <<outcome, saved, audited, evaluated, deliveries, delivered>>

PersistBegin ==
  /\ stage = "persist_decision" /\ phase = "ready"
  /\ saved = {"features", "score"}
  /\ BeginPersist(outcome)
  /\ Goto("persisting")
  /\ UNCHANGED <<outcome, saved, audited, evaluated, deliveries, delivered>>

PersistStatement ==
  /\ phase = "persisting"
  /\ SnapshotCurrent(Worker) \/ ClearAndInsert(Worker) \/ SaveStatus(Worker)
  /\ UNCHANGED cvars

PersistCommit ==
  /\ phase = "persisting"
  /\ CommitDecision(Worker)
  /\ Return
  /\ UNCHANGED <<outcome, saved, audited, evaluated, deliveries, delivered>>

(* The task reads the status a query before it inserts the row; any status  *)
(* it may have read is one the application had at the webhook stage.       *)
DispatchWebhook ==
  /\ stage = "webhook" /\ phase = "ready"
  /\ deliveries' = deliveries + 1
  /\ delivered' = delivered \cup {status}
  /\ Goto("auditing") \/ InDoubt
  /\ UNCHANGED <<dvars, outcome, saved, audited, evaluated>>

AuditDispatch ==
  /\ stage = "webhook" /\ phase = "auditing"
  /\ audited' = audited \cup {"dispatch_attempt"}
  /\ Goto("done") \/ InDoubt
  /\ UNCHANGED <<dvars, outcome, saved, evaluated, deliveries, delivered>>

-----------------------------------------------------------------------------
(* The worker's transaction, if it has one open, is rolled back. *)
RollBack == IF txn[Worker].at = "idle" THEN UNCHANGED dvars
                                       ELSE AbortDecision(Worker)

StageRaises ==
  /\ "error" \in Faults
  /\ phase \in {"ready", "auditing", "persisting"}
  /\ RollBack
  /\ \E e \in {"transient", "permanent"} : Raise(e)
  /\ UNCHANGED <<outcome, saved, audited, evaluated, deliveries, delivered>>

(* Bug variant: _fail leaves "status" out of update_fields. *)
FailSavesNothing ==
  /\ stage # "webhook" /\ phase = "failing"
  /\ SetStatus(status)
  /\ Goto("reporting")
  /\ UNCHANGED <<outcome, saved, audited, evaluated, deliveries, delivered>>

(* Bug variant: _fail raises before it has written its audit row. *)
FailSavesOnly ==
  /\ stage # "webhook" /\ phase = "failing"
  /\ SetStatus("failed")
  /\ Goto("raised")
  /\ UNCHANGED <<outcome, saved, audited, evaluated, deliveries, delivered>>

(* _fail: the status and the audit row are two commits. *)
FailSaves ==
  /\ stage # "webhook" /\ phase = "failing"
  /\ SetStatus("failed")
  /\ Goto("reporting")
  /\ UNCHANGED <<outcome, saved, audited, evaluated, deliveries, delivered>>

FailAudits ==
  /\ phase = "reporting"
  /\ audited' = audited \cup {"failed"}
  /\ Goto("raised")
  /\ UNCHANGED <<dvars, outcome, saved, evaluated, deliveries, delivered>>

(* Bug variant: the webhook task's handler is _fail. *)
WebhookFails ==
  /\ stage = "webhook" /\ phase = "failing"
  /\ SetStatus("failed")
  /\ Goto("reporting")
  /\ UNCHANGED <<outcome, saved, audited, evaluated, deliveries, delivered>>

(* Bug variant: it raises the error again. *)
WebhookReraises ==
  /\ stage = "webhook" /\ phase = "failing"
  /\ audited' = audited \cup {"dispatch_attempt"}
  /\ Goto("raised")
  /\ UNCHANGED <<dvars, outcome, saved, evaluated, deliveries, delivered>>

(* The webhook task's handler records the attempt and swallows the error. *)
WebhookSwallows ==
  /\ stage = "webhook" /\ phase = "failing"
  /\ audited' = audited \cup {"dispatch_attempt"}
  /\ Goto("done")
  /\ UNCHANGED <<dvars, outcome, saved, evaluated, deliveries, delivered>>

(* An exception in the handler replaces the one it was handling. *)
HandlerRaises ==
  /\ "handler" \in Faults
  /\ phase \in {"failing", "reporting"}
  /\ phase' = "raised"
  /\ exc' \in {"transient", "permanent"}
  /\ UNCHANGED <<dvars, stage, tries, outcome, saved, audited, evaluated,
                 deliveries, delivered>>

(* Bug variant: one retry too many. *)
RetriableOnceMore == exc = "transient" /\ tries <= RetryLimit

(* autoretry_for: the same task with the same arguments, while it may. *)
Retriable == exc = "transient" /\ tries < RetryLimit

(* Bug variant: the retries are not counted. *)
RetryUncounted ==
  /\ phase = "raised" /\ Retriable
  /\ Goto("ready")
  /\ UNCHANGED <<dvars, outcome, saved, audited, evaluated, deliveries, delivered>>

Retry ==
  /\ phase = "raised" /\ Retriable
  /\ phase' = "ready" /\ tries' = tries + 1
  /\ UNCHANGED <<dvars, stage, exc, outcome, saved, audited, evaluated,
                 deliveries, delivered>>

GiveUp ==
  /\ phase = "raised" /\ ~Retriable
  /\ Goto("stopped")
  /\ UNCHANGED <<dvars, outcome, saved, audited, evaluated, deliveries, delivered>>

(* Messages are acknowledged on receipt: what a killed worker was running   *)
(* does not come back.                                                     *)
Lose ==
  /\ "crash" \in Faults
  /\ phase \notin Terminal
  /\ RollBack
  /\ Goto("lost")
  /\ UNCHANGED <<outcome, saved, audited, evaluated, deliveries, delivered>>

-----------------------------------------------------------------------------
(* What a worker that is up and gets its locks does. *)
Progress ==
  \/ EnrichApplication
  \/ SaveFeatures \/ AuditFeatures
  \/ SaveScore \/ AuditScore
  \/ EvaluateRules
  \/ PersistBegin \/ PersistStatement \/ PersistCommit
  \/ DispatchWebhook \/ AuditDispatch
  \/ FailSaves \/ FailAudits \/ WebhookSwallows
  \/ Retry \/ GiveUp

Next ==
  \/ Progress
  \/ StageRaises \/ HandlerRaises \/ Lose
  \/ \E r \in Reviewers : Override(r) /\ UNCHANGED cvars

Spec == Init /\ [][Next]_vars

FairSpec ==
  /\ Spec
  /\ WF_vars(Progress)
  /\ \A r \in Reviewers : WF_vars(Statement(r) /\ UNCHANGED cvars)

-----------------------------------------------------------------------------
Events == {"enrichment_completed", "features_computed", "score_generated",
           "rules_evaluated"}

TypeOK ==
  /\ DTypeOK
  /\ stage \in Stages /\ phase \in Phases /\ tries \in 0 .. RetryLimit
  /\ exc \in {"none", "transient", "permanent"}
  /\ outcome \in Types \cup {"none"}
  /\ saved \subseteq {"features", "score"}
  /\ audited \subseteq Events \cup {"dispatch_attempt", "failed"}
  /\ evaluated \subseteq Types
  /\ deliveries \in Nat
  /\ delivered \subseteq Status

(* One reviewer at a time and no commit in doubt: whatever fails, is        *)
(* retried or killed, the status and the decision rows agree, and exactly  *)
(* one decision is in force once there is any.  Two overlapping overrides, *)
(* or a commit in doubt, break it.                                         *)
StatusAgreesWithDecision ==
  IF rows = {}
  THEN status \notin Decided /\ current = {}
  ELSE \E row \in rows : current = {row.id} /\ status = row.type

(* No pipeline decision without the audit trail that explains it: every     *)
(* earlier stage is in the log, and the decision's type is one that the    *)
(* log says the rules gave, even if the rules change before it is saved.   *)
DecisionIsTraceable ==
  \A row \in rows : row.source = "pipeline" =>
    Events \subseteq audited /\ row.type \in evaluated

(* A webhook never reports a status that no decision row ever had: it is    *)
(* dispatched after the decision even if the decision task failed first.   *)
WebhookReportsADecision ==
  \A s \in delivered : \E row \in rows : row.type = s

(* While the exception handler works, a failed dispatch is not dispatched   *)
(* again: the task that swallows its error leaves nothing to retry.        *)
OneDelivery == deliveries <= 1

(* A chain that gives up has set the status "failed" and has emitted the    *)
(* pipeline.failed event, as README.md says of failures.  The webhook task *)
(* is not one whose failure fails the application.                         *)
FailureIsReported ==
  phase = "stopped" /\ stage # "webhook" => status = "failed" /\ "failed" \in audited

(* Every chain ends: retries are bounded and no lock is waited for forever. *)
ChainEnds == <>(phase \in Terminal)

(* When no message and no worker is lost, every application ends decided    *)
(* or failed, and stays so.                                                *)
ApplicationSettles == <>[](status \in Decided \cup {"failed"})

-----------------------------------------------------------------------------
Head    == IF rows = {} THEN NoRow ELSE CHOOSE id \in current : TRUE
Verdict == IF status \in Decided THEN status ELSE "none"

Ledger == INSTANCE DecisionLedger
  WITH Stamps <- RowId, Types <- DecisionType, ledger <- rows, head <- Head,
       verdict <- Verdict

(* The chain and the override transactions of one reviewer at a time        *)
(* implement the ledger: one decision by the pipeline, never a second one, *)
(* and each override replaces the decision in force.                       *)
ImplementsLedger == Ledger!LSpec
=============================================================================
