------------------------------ MODULE Decisions ------------------------------
(***************************************************************************)
(* The decision table of ONE application and the transactions that write   *)
(* it: DecisionService.create_pipeline_decision, run by the application's  *)
(* Celery worker, and DecisionService.override_decision, run by reviewers' *)
(* requests.  Each is one database transaction of several statements; the  *)
(* module interleaves the statements the way PostgreSQL's READ COMMITTED   *)
(* isolation (Django's default) allows:                                    *)
(*   - a statement sees the rows committed when it starts;                 *)
(*   - an UPDATE waits for the transaction that holds a row it wants, and  *)
(*     then skips the row when it no longer satisfies the WHERE clause;    *)
(*   - a transaction's rows become visible, all at once, at its commit.    *)
(* Applications share no row, so one application is enough.  The audit     *)
(* rows that a decision writes belong to the same transaction as the       *)
(* decision: they exist exactly when it does and are not modelled here.    *)
(***************************************************************************)
EXTENDS Naturals

CONSTANTS
  Reviewers,   \* the sessions that may call the override endpoint
  Types,       \* the decision types that rules and reviewers choose
  MaxRows      \* bound: no override is admitted after this many rows

DecisionType == {"approved", "manual_review", "declined"}
Decided      == DecisionType   \* the statuses that carry the same names
Status       == {"queued", "processing", "failed"} \cup Decided

Worker  == "worker"
Writers == Reviewers \cup {Worker}

ASSUME ReviewersAssumption == Worker \notin Reviewers
ASSUME TypesAssumption     == Types \subseteq DecisionType /\ Types # {}
ASSUME MaxRowsAssumption   == MaxRows \in Nat

VARIABLES
  status,    \* Application.status, committed
  rows,      \* the committed decision rows; their ids order them by created_at
  current,   \* the ids of the committed rows with is_current = True
  nextId,    \* the next row's id, i.e. the clock that stamps created_at
  txn        \* what each writer's decision transaction has done so far

dvars == <<status, rows, current, nextId, txn>>

NoRow == 0
RowId == Nat \ {NoRow}
Row   == [id : RowId, type : DecisionType, source : {"pipeline", "override"},
          prev : Nat]
Ids   == {row.id : row \in rows}

(* at: the statement the transaction executes next.  "select" reads the     *)
(* current decision, "snapshot" and "clear" are the start and the end of    *)
(* the UPDATE that clears is_current, "save" writes Application.status.     *)
Txn == [at : {"idle", "select", "snapshot", "clear", "save", "commit"},
        type : DecisionType, prev : Nat, snap : SUBSET RowId,
        cleared : SUBSET RowId, id : Nat]

NoTxn == [at |-> "idle", type |-> "approved", prev |-> NoRow, snap |-> {},
          cleared |-> {}, id |-> NoRow]

SourceOf(w) == IF w = Worker THEN "pipeline" ELSE "override"

(* status_map.get(decision_type, MANUAL_REVIEW) *)
StatusOf(type) == IF type \in DecisionType THEN type ELSE "manual_review"

(* .first() under the ordering -created_at *)
IsNewest(id, ids) == id \in ids /\ \A other \in ids : other <= id

(* The application row is locked by a transaction that has updated it. *)
ApplicationUnlocked == \A w \in Writers : txn[w].at # "commit"

DInit ==
  /\ status = "queued"
  /\ rows = {}
  /\ current = {}
  /\ nextId = 1
  /\ txn = [w \in Writers |-> NoTxn]

-----------------------------------------------------------------------------
(* The worker calls create_pipeline_decision. *)
BeginPersist(type) ==
  /\ txn[Worker].at = "idle"
  /\ txn' = [txn EXCEPT ![Worker] = [NoTxn EXCEPT !.at = "snapshot", !.type = type]]
  /\ UNCHANGED <<status, rows, current, nextId>>

(* Bug variant: the view does not look at the state of the application. *)
AdmitAnyOverride(r, type) ==
  /\ txn[r].at = "idle"
  /\ nextId <= MaxRows
  /\ txn' = [txn EXCEPT ![r] = [NoTxn EXCEPT !.at = "select", !.type = type]]
  /\ UNCHANGED <<status, rows, current, nextId>>

(* The override view reads the application and checks that it is decided   *)
(* and has a current decision, before the transaction and without a lock.  *)
AdmitOverride(r, type) ==
  /\ txn[r].at = "idle"
  /\ status \in Decided
  /\ current # {}
  /\ nextId <= MaxRows
  /\ txn' = [txn EXCEPT ![r] = [NoTxn EXCEPT !.at = "select", !.type = type]]
  /\ UNCHANGED <<status, rows, current, nextId>>

(* override_decision remembers the decision it is about to replace. *)
SelectCurrent(r) ==
  /\ txn[r].at = "select"
  /\ \E id \in current \cup {NoRow} :
       /\ IF current = {} THEN id = NoRow ELSE IsNewest(id, current)
       /\ txn' = [txn EXCEPT ![r] = [@ EXCEPT !.at = "snapshot", !.prev = id]]
  /\ UNCHANGED <<status, rows, current, nextId>>

(* The clearing UPDATE starts: it will visit the rows current now. *)
SnapshotCurrent(w) ==
  /\ txn[w].at = "snapshot"
  /\ txn' = [txn EXCEPT ![w] = [@ EXCEPT !.at = "clear", !.snap = current]]
  /\ UNCHANGED <<status, rows, current, nextId>>

(* Bug variant: the UPDATE skips rows another transaction has locked.      *)
ClearSkippingLocked(w) ==
  /\ txn[w].at = "clear"
  /\ LET locked == UNION {txn[v].cleared : v \in Writers \ {w}}
     IN txn' = [txn EXCEPT ![w] = [@ EXCEPT !.at = "save", !.id = nextId,
                                       !.cleared = (txn[w].snap \cap current) \ locked]]
  /\ nextId' = nextId + 1
  /\ UNCHANGED <<status, rows, current>>

(* Bug variant: the new row gets the stamp of the row before it.           *)
ClearAndInsertStaleId(w) ==
  /\ txn[w].at = "clear"
  /\ \A v \in Writers \ {w} : txn[v].cleared \cap txn[w].snap = {}
  /\ txn' = [txn EXCEPT ![w] = [@ EXCEPT !.at = "save", !.id = nextId - 1,
                                       !.cleared = txn[w].snap \cap current]]
  /\ nextId' = nextId + 1
  /\ UNCHANGED <<status, rows, current>>

(* Bug variant: without a transaction the UPDATE is committed on its own.   *)
ClearAtOnce(w) ==
  /\ txn[w].at = "clear"
  /\ txn' = [txn EXCEPT ![w] = [@ EXCEPT !.at = "save", !.id = nextId]]
  /\ nextId' = nextId + 1
  /\ current' = current \ txn[w].snap
  /\ UNCHANGED <<status, rows>>

(* It has the locks of those rows and clears the ones still current.  The  *)
(* INSERT that follows takes no lock anybody waits for and is merged.      *)
ClearAndInsert(w) ==
  /\ txn[w].at = "clear"
  /\ \A v \in Writers \ {w} : txn[v].cleared \cap txn[w].snap = {}
  /\ txn' = [txn EXCEPT ![w] = [@ EXCEPT !.at = "save", !.id = nextId,
                                       !.cleared = txn[w].snap \cap current]]
  /\ nextId' = nextId + 1
  /\ UNCHANGED <<status, rows, current>>

(* Bug variant: the INSERT's foreign key check locks the application row    *)
(* exclusively, so that two transactions that have inserted block each     *)
(* other's UPDATE of it.                                                   *)
SaveStatusLockedByInsert(w) ==
  /\ txn[w].at = "save"
  /\ \A v \in Writers \ {w} : txn[v].at \notin {"save", "commit"}
  /\ txn' = [txn EXCEPT ![w] = [@ EXCEPT !.at = "commit"]]
  /\ UNCHANGED <<status, rows, current, nextId>>

(* application.save(update_fields=["status", "updated_at"]) *)
SaveStatus(w) ==
  /\ txn[w].at = "save"
  /\ ApplicationUnlocked
  /\ txn' = [txn EXCEPT ![w] = [@ EXCEPT !.at = "commit"]]
  /\ UNCHANGED <<status, rows, current, nextId>>

(* Bug variant: every other row is cleared at the commit.                  *)
CommitClearingAll(w) ==
  /\ txn[w].at = "commit"
  /\ rows' = rows \cup {[id |-> txn[w].id, type |-> txn[w].type,
                         source |-> SourceOf(w), prev |-> txn[w].prev]}
  /\ current' = {txn[w].id}
  /\ status' = StatusOf(txn[w].type)
  /\ txn' = [txn EXCEPT ![w] = NoTxn]
  /\ UNCHANGED nextId

CommitDecision(w) ==
  /\ txn[w].at = "commit"
  /\ rows' = rows \cup {[id |-> txn[w].id, type |-> txn[w].type,
                         source |-> SourceOf(w), prev |-> txn[w].prev]}
  /\ current' = (current \ txn[w].cleared) \cup {txn[w].id}
  /\ status' = StatusOf(txn[w].type)
  /\ txn' = [txn EXCEPT ![w] = NoTxn]
  /\ UNCHANGED nextId

(* Bug variant: a compensation flags the rows read before as current again. *)
AbortRestoringFlags(w) ==
  /\ txn[w].at # "idle"
  /\ txn' = [txn EXCEPT ![w] = NoTxn]
  /\ current' = current \cup txn[w].snap
  /\ UNCHANGED <<status, rows, nextId>>

(* An exception, a lost connection or a killed process: rolled back. *)
AbortDecision(w) ==
  /\ txn[w].at # "idle"
  /\ txn' = [txn EXCEPT ![w] = NoTxn]
  /\ UNCHANGED <<status, rows, current, nextId>>

(* The other tasks' saves of the status: enrich_application and _fail. *)
SetStatus(s) ==
  /\ ApplicationUnlocked
  /\ status' = s
  /\ UNCHANGED <<rows, current, nextId, txn>>

Override(r) ==
  \/ \E type \in Types : AdmitOverride(r, type)
  \/ SelectCurrent(r)
  \/ SnapshotCurrent(r)
  \/ ClearAndInsert(r)
  \/ SaveStatus(r)
  \/ CommitDecision(r)
  \/ AbortDecision(r)

-----------------------------------------------------------------------------
(* The table under the most hostile schedule: the worker may persist a      *)
(* decision and the other tasks may write the status at any moment.         *)
Persist ==
  \/ nextId <= MaxRows /\ \E type \in Types : BeginPersist(type)
  \/ SnapshotCurrent(Worker)
  \/ ClearAndInsert(Worker)
  \/ SaveStatus(Worker)
  \/ CommitDecision(Worker)
  \/ AbortDecision(Worker)

DNext ==
  \/ Persist
  \/ \E r \in Reviewers : Override(r)
  \/ \E s \in {"processing", "failed"} : SetStatus(s)

(* A statement that has its locks is executed: the database makes progress. *)
Statement(w) ==
  SelectCurrent(w) \/ SnapshotCurrent(w) \/ ClearAndInsert(w)
    \/ SaveStatus(w) \/ CommitDecision(w)

DSpec     == DInit /\ [][DNext]_dvars
DFairSpec == DSpec /\ \A w \in Writers : WF_dvars(Statement(w))

-----------------------------------------------------------------------------
DTypeOK ==
  /\ status \in Status
  /\ rows \subseteq Row
  /\ current \subseteq Ids
  /\ nextId \in RowId
  /\ txn \in [Writers -> Txn]

(* The decision endpoint returns the newest row flagged current; whatever  *)
(* the transactions overlap, that row is the newest decision committed at  *)
(* all: a later override is never hidden by an earlier one.                *)
LatestRowIsCurrent ==
  \A id \in Ids : IsNewest(id, Ids) => id \in current

(* A decision that a committed override names as its predecessor is never  *)
(* current again or still, even when overrides and retries overlap.        *)
SupersededStaysSuperseded ==
  \A row \in rows : row.prev \notin current

(* Every override has replaced a decision, an older one that is kept: what  *)
(* `previous_decision` names leads from any override back to a decision of   *)
(* the pipeline.  The view checks that there is a decision to override, but *)
(* before the transaction and without a lock; that the transaction then     *)
(* finds one, whatever overlaps it, is because the rows cleared and the row *)
(* that takes their place become visible at once.                           *)
OverridesHavePredecessors ==
  \A row \in rows : row.source = "override" =>
    \E replaced \in rows : replaced.id = row.prev /\ replaced.id < row.id

(* No two transactions wait for each other: decision rows are locked       *)
(* before the application row, so every transaction ends.                  *)
TransactionsEnd ==
  \A w \in Writers : txn[w].at # "idle" ~> txn[w].at = "idle"

(* Once replaced, a decision never becomes current again, and a row never  *)
(* disappears or changes: the history only grows.                          *)
HistoryIsKept ==
  [][rows \subseteq rows' /\ (Ids \ current) \cap current' = {}]_dvars
=============================================================================
