---------------------------- MODULE LedgerProofs ----------------------------
(***************************************************************************)
(* Proofs that the chain and the overrides of one reviewer at a time       *)
(* implement module DecisionLedger, while no commit is in doubt: whatever  *)
(* is retried or lost, with the status and the decision rows in agreement. *)
(* With two reviewers, or a commit in doubt, both are false.               *)
(***************************************************************************)
EXTENDS PipelineProofs

(* An override works on the decision in force from its first statement to   *)
(* its commit: nobody else replaces it meanwhile.                          *)
OverridesTheCurrent ==
  \A r \in Reviewers :
    /\ txn[r].at \in {"snapshot", "clear", "save", "commit"} => current = {txn[r].prev}
    /\ txn[r].at = "clear" => txn[r].snap = current
    /\ Inserted(r) => txn[r].cleared = current /\ \A id \in Ids : id < txn[r].id

(* The worker's transaction replaces nothing. *)
WorkerDecidesFirst ==
  txn[Worker].at # "idle" =>
    txn[Worker].prev = NoRow /\ txn[Worker].snap = {} /\ txn[Worker].cleared = {}

SerialInv ==
  /\ Inv
  /\ Undecided
  /\ OverridesTheCurrent
  /\ WorkerDecidesFirst
  /\ StatusAgreesWithDecision

LEMMA SerialInit == Init => SerialInv
<1> SUFFICES ASSUME Init PROVE SerialInv
  OBVIOUS
<1>1. \A w \in Writers : txn[w].at = "idle"
  BY DEF Init, DInit, NoTxn
<1>2. OverridesTheCurrent /\ WorkerDecidesFirst
  BY <1>1 DEF OverridesTheCurrent, WorkerDecidesFirst, Writers, Inserted
<1>3. StatusAgreesWithDecision
  BY DEF Init, DInit, StatusAgreesWithDecision, Decided, DecisionType
<1> QED BY <1>2, <1>3, InvInit, ReportInit DEF SerialInv

(* A step of the chain other than its commit touches no reviewer's          *)
(* transaction and no row, and changes the status only before the decision. *)
LEMMA ChainFrame ==
  ASSUME Inv, Next, ~PersistCommit, \A r \in Reviewers : ~(Override(r) /\ UNCHANGED cvars)
  PROVE  /\ UNCHANGED <<rows, current>>
         /\ status' = status \/ (stage # "webhook" /\ status' \notin Decided)
         /\ \A r \in Reviewers : txn'[r] = txn[r]
<1>0. /\ DTypeOK /\ Worker \in Writers
      /\ \A r \in Reviewers : r \in Writers /\ r # Worker
  BY ReviewersAssumption DEF Writers, Inv, DInv
<1>1. CASE SaveFeatures \/ AuditFeatures \/ SaveScore \/ AuditScore \/ EvaluateRules
             \/ DispatchWebhook \/ AuditDispatch \/ FailAudits \/ WebhookSwallows
             \/ Retry \/ GiveUp \/ HandlerRaises
  BY <1>1 DEF SaveFeatures, AuditFeatures, SaveScore, AuditScore, AuditAndReturn,
              EvaluateRules, DispatchWebhook, AuditDispatch, FailAudits, WebhookSwallows,
              Retry, GiveUp, HandlerRaises, dvars
<1>2. CASE EnrichApplication \/ FailSaves
  BY <1>2 DEF EnrichApplication, FailSaves, SetStatus, Decided, DecisionType
<1>3. CASE PersistBegin \/ PersistStatement \/ StageRaises \/ Lose
  <2>1. UNCHANGED <<rows, current, status>>
    BY <1>3 DEF PersistBegin, BeginPersist, PersistStatement, SnapshotCurrent,
                ClearAndInsert, SaveStatus, StageRaises, Lose, RollBack, AbortDecision,
                dvars
  <2>2. \A r \in Reviewers : txn'[r] = txn[r]
    BY <1>0, <1>3 DEF PersistBegin, BeginPersist, PersistStatement, SnapshotCurrent,
                      ClearAndInsert, SaveStatus, StageRaises, Lose, RollBack,
                      AbortDecision, dvars, DTypeOK
  <2> QED BY <2>1, <2>2
<1> QED BY <1>1, <1>2, <1>3 DEF Next, Progress

(* The worker's commit enters the first decision, and its only one. *)
LEMMA DecideFrame ==
  ASSUME SerialInv, PersistCommit
  PROVE  /\ rows = {} /\ current = {} /\ stage # "webhook"
         /\ rows' = {[id |-> txn[Worker].id, type |-> outcome, source |-> "pipeline",
                      prev |-> NoRow]}
         /\ current' = {txn[Worker].id} /\ txn[Worker].id \in RowId
         /\ status' = outcome /\ outcome \in DecisionType
         /\ \A r \in Reviewers : txn'[r].at = "idle"
<1>1. DTypeOK /\ FreshIds /\ ChainTypeOK /\ WorkerPersists /\ StagesInOrder
  BY DEF SerialInv, Inv, DInv
<1>2. /\ Worker \in Writers /\ txn[Worker].at = "commit"
      /\ \A r \in Reviewers : r \in Writers /\ r # Worker
  BY ReviewersAssumption DEF Writers, PersistCommit, CommitDecision
<1>3. stage = "persist_decision"
  BY <1>1 DEF PersistCommit, WorkerPersists
<1>4. rows = {} /\ current = {} /\ \A r \in Reviewers : txn[r].at = "idle"
  BY <1>3 DEF SerialInv, Undecided
<1>5. txn[Worker].prev = NoRow
  BY <1>2 DEF SerialInv, WorkerDecidesFirst
<1>6. outcome \in DecisionType
  BY <1>1, <1>3, TypesAssumption DEF StagesInOrder
<1>7. txn[Worker].id \in RowId
  BY <1>1, <1>2 DEF FreshIds, Inserted
<1>8. current' = {txn[Worker].id} /\ \A r \in Reviewers : txn'[r].at = "idle"
  BY <1>4 DEF PersistCommit, CommitDecision
<1> QED BY <1>1, <1>3, <1>4, <1>5, <1>6, <1>7, <1>8, CommitFrame

(* A reviewer's commit replaces exactly the decision in force. *)
LEMMA OverrideCommit ==
  ASSUME SerialInv, NEW r \in Reviewers, CommitDecision(r)
  PROVE  /\ rows # {} /\ current = {txn[r].prev}
         /\ rows' = rows \cup {[id |-> txn[r].id, type |-> txn[r].type,
                                source |-> "override", prev |-> txn[r].prev]}
         /\ current' = {txn[r].id} /\ txn[r].id \in RowId
         /\ \A row \in rows : row.id < txn[r].id
         /\ status' = txn[r].type /\ txn[r].type \in DecisionType
<1>1. DTypeOK /\ FreshIds /\ r \in Writers /\ r # Worker /\ Inserted(r)
  BY ReviewersAssumption DEF SerialInv, Inv, DInv, Writers, Inserted, CommitDecision
<1>2. txn[r].type \in DecisionType /\ SourceOf(r) = "override" /\ txn[r].id \in RowId
  BY <1>1 DEF DTypeOK, Txn, SourceOf, FreshIds
<1>3. /\ current = {txn[r].prev} /\ txn[r].cleared = current
      /\ \A id \in Ids : id < txn[r].id
  BY <1>1 DEF SerialInv, OverridesTheCurrent, Inserted
<1>4. rows # {} /\ \A row \in rows : row.id < txn[r].id
  BY <1>1, <1>3 DEF DTypeOK, Ids
<1> QED BY <1>2, <1>3, <1>4 DEF CommitDecision, StatusOf

(* The status keeps agreeing with the rows. *)
LEMMA AgreeStep ==
  ASSUME SerialInv, Next
  PROVE  StatusAgreesWithDecision'
<1>1. CASE PersistCommit
  <2> DEFINE new == [id |-> txn[Worker].id, type |-> outcome, source |-> "pipeline",
                     prev |-> NoRow]
  <2>1. rows' = {new} /\ new.id = txn[Worker].id /\ new.type = outcome
    BY <1>1, DecideFrame
  <2> HIDE DEF new
  <2> QED BY <1>1, <2>1, DecideFrame DEF StatusAgreesWithDecision
<1>2. ASSUME NEW r \in Reviewers, CommitDecision(r)
      PROVE  StatusAgreesWithDecision'
  <2> DEFINE new == [id |-> txn[r].id, type |-> txn[r].type, source |-> "override",
                     prev |-> txn[r].prev]
  <2>1. rows' = rows \cup {new} /\ new.id = txn[r].id /\ new.type = txn[r].type
    BY <1>2, OverrideCommit
  <2> HIDE DEF new
  <2> QED BY <1>2, <2>1, OverrideCommit DEF StatusAgreesWithDecision
<1>3. ASSUME NEW r \in Reviewers, Override(r), ~CommitDecision(r)
      PROVE  StatusAgreesWithDecision'
  <2>1. UNCHANGED <<rows, current, status>>
    BY <1>3 DEF Override, AdmitOverride, SelectCurrent, SnapshotCurrent, ClearAndInsert,
                SaveStatus, AbortDecision
  <2> QED BY <2>1 DEF SerialInv, StatusAgreesWithDecision
<1>4. CASE ~PersistCommit /\ \A r \in Reviewers : ~(Override(r) /\ UNCHANGED cvars)
  <2>1. /\ UNCHANGED <<rows, current>>
        /\ status' = status \/ (stage # "webhook" /\ status' \notin Decided)
    BY <1>4, ChainFrame DEF SerialInv
  <2> QED BY <2>1 DEF SerialInv, Undecided, StatusAgreesWithDecision
<1> QED BY <1>1, <1>2, <1>3, <1>4

(* The worker finds no decision to replace. *)
LEMMA FirstStep ==
  ASSUME SerialInv, Next
  PROVE  WorkerDecidesFirst'
<1>1. /\ DTypeOK /\ FreshIds /\ WorkerPersists /\ Worker \in Writers
      /\ NoTxn.at = "idle" /\ NoTxn.prev = NoRow /\ NoTxn.snap = {} /\ NoTxn.cleared = {}
  BY DEF SerialInv, Inv, DInv, Writers, NoTxn
<1>2. CASE PersistBegin
  <2>1. txn'[Worker] = [NoTxn EXCEPT !.at = "snapshot", !.type = outcome]
    BY <1>1, <1>2 DEF PersistBegin, BeginPersist, DTypeOK
  <2>2. txn'[Worker].prev = NoRow /\ txn'[Worker].snap = {} /\ txn'[Worker].cleared = {}
    BY <2>1 DEF NoTxn
  <2> QED BY <2>2 DEF WorkerDecidesFirst
<1>3. CASE PersistStatement
  <2>1. txn[Worker].at # "idle" /\ current = {}
    BY <1>1, <1>3 DEF PersistStatement, SnapshotCurrent, ClearAndInsert, SaveStatus,
                      WorkerPersists, SerialInv, Undecided
  <2>2. /\ txn'[Worker].prev = txn[Worker].prev
        /\ txn'[Worker].snap \in {current, txn[Worker].snap}
        /\ txn'[Worker].cleared \in {txn[Worker].snap \cap current, txn[Worker].cleared}
    <3>1. CASE SnapshotCurrent(Worker)
      BY <3>1 DEF SnapshotCurrent
    <3>2. CASE ClearAndInsert(Worker)
      BY <3>2 DEF ClearAndInsert
    <3>3. CASE SaveStatus(Worker)
      BY <3>3 DEF SaveStatus
    <3> QED BY <1>3, <3>1, <3>2, <3>3 DEF PersistStatement
  <2> QED BY <2>1, <2>2 DEF SerialInv, WorkerDecidesFirst
<1>4. CASE PersistCommit \/ StageRaises \/ Lose
  <2>1. txn'[Worker] = NoTxn \/ txn' = txn
    BY <1>1, <1>4 DEF PersistCommit, CommitDecision, StageRaises, Lose, RollBack,
                      AbortDecision, DTypeOK, dvars
  <2> QED BY <1>1, <2>1 DEF SerialInv, WorkerDecidesFirst
<1>5. CASE EnrichApplication \/ FailSaves
  BY <1>5 DEF EnrichApplication, FailSaves, SetStatus, SerialInv, WorkerDecidesFirst
<1>6. CASE SaveFeatures \/ AuditFeatures \/ SaveScore \/ AuditScore \/ EvaluateRules
             \/ DispatchWebhook \/ AuditDispatch \/ FailAudits \/ WebhookSwallows
             \/ Retry \/ GiveUp \/ HandlerRaises
  <2>1. UNCHANGED dvars
    BY <1>6 DEF SaveFeatures, AuditFeatures, SaveScore, AuditScore, AuditAndReturn,
                EvaluateRules, DispatchWebhook, AuditDispatch, FailAudits,
                WebhookSwallows, Retry, GiveUp, HandlerRaises
  <2> QED BY <2>1 DEF SerialInv, WorkerDecidesFirst, dvars
<1>7. ASSUME NEW r \in Reviewers, Override(r)
      PROVE  WorkerDecidesFirst'
  BY <1>1, <1>7, OverrideFrame DEF SerialInv, WorkerDecidesFirst
<1> QED BY <1>2, <1>3, <1>4, <1>5, <1>6, <1>7 DEF Next, Progress

(* The reviewer whose transaction is open is alone at the decisions. *)
LEMMA CurrentStep ==
  ASSUME NEW r, Reviewers \subseteq {r}, SerialInv, Next
  PROVE  OverridesTheCurrent'
<1>1. DTypeOK /\ FreshIds /\ StatusIsDecided
  BY DEF SerialInv, Inv, DInv
<1>2. CASE PersistCommit
  BY <1>2, DecideFrame DEF OverridesTheCurrent, Inserted
<1>3. CASE ~PersistCommit /\ \A v \in Reviewers : ~(Override(v) /\ UNCHANGED cvars)
  <2>1. UNCHANGED <<rows, current>> /\ \A v \in Reviewers : txn'[v] = txn[v]
    BY <1>3, ChainFrame DEF SerialInv
  <2> QED BY <2>1 DEF SerialInv, OverridesTheCurrent, Inserted, Ids
<1>4. ASSUME r \in Reviewers, Override(r)
      PROVE  OverridesTheCurrent'
  <2>1. r \in Writers /\ Reviewers = {r}
    BY <1>4 DEF Writers
  <2>2. stage = "webhook"
    BY <1>4, NoOverride DEF SerialInv
  <2>3. PICK row \in rows : current = {row.id}
    BY <1>1, <2>2 DEF StatusIsDecided, SerialInv, StatusAgreesWithDecision
  <2>4. ASSUME NEW type \in Types, AdmitOverride(r, type)
        PROVE  txn'[r].at = "select"
    BY <1>1, <2>1, <2>4 DEF AdmitOverride, DTypeOK
  <2>5. CASE SelectCurrent(r)
    <3>1. txn'[r].at = "snapshot" /\ txn'[r].prev \in current /\ current' = current
      BY <1>1, <2>1, <2>3, <2>5 DEF SelectCurrent, IsNewest, DTypeOK
    <3> QED BY <2>3, <3>1 DEF OverridesTheCurrent, Inserted
  <2>6. CASE SnapshotCurrent(r)
    <3>1. /\ txn'[r].at = "clear" /\ txn'[r].snap = current /\ current' = current
          /\ txn'[r].prev = txn[r].prev
      BY <1>1, <2>1, <2>6 DEF SnapshotCurrent, DTypeOK
    <3>2. current = {txn[r].prev}
      BY <2>1, <2>6 DEF SerialInv, OverridesTheCurrent, SnapshotCurrent
    <3> QED BY <3>1, <3>2 DEF OverridesTheCurrent, Inserted
  <2>7. CASE ClearAndInsert(r)
    <3>1. /\ txn'[r].at = "save" /\ txn'[r].cleared = txn[r].snap \cap current
          /\ txn'[r].id = nextId /\ txn'[r].prev = txn[r].prev
          /\ UNCHANGED <<rows, current>>
      BY <1>1, <2>1, <2>7 DEF ClearAndInsert, DTypeOK
    <3>2. current = {txn[r].prev} /\ txn[r].snap = current
      BY <2>1, <2>7 DEF SerialInv, OverridesTheCurrent, ClearAndInsert
    <3>3. \A id \in Ids' : id < txn'[r].id
      BY <1>1, <3>1 DEF FreshIds, Ids
    <3> QED BY <3>1, <3>2, <3>3 DEF OverridesTheCurrent
  <2>8. CASE SaveStatus(r)
    <3>1. /\ txn[r].at = "save" /\ txn'[r].at = "commit" /\ txn'[r].id = txn[r].id
          /\ txn'[r].cleared = txn[r].cleared /\ txn'[r].prev = txn[r].prev
          /\ UNCHANGED <<rows, current>>
      BY <1>1, <2>1, <2>8 DEF SaveStatus, DTypeOK
    <3> QED BY <3>1 DEF SerialInv, OverridesTheCurrent, Inserted, Ids
  <2>9. CASE CommitDecision(r) \/ AbortDecision(r)
    <3>1. txn'[r].at = "idle"
      BY <1>1, <2>1, <2>9 DEF CommitDecision, AbortDecision, DTypeOK, NoTxn
    <3> QED BY <3>1 DEF OverridesTheCurrent, Inserted
  <2> QED BY <1>4, <2>4, <2>5, <2>6, <2>7, <2>8, <2>9 DEF Override, OverridesTheCurrent,
                                                          Inserted
<1> QED BY <1>2, <1>3, <1>4

LEMMA SerialStep ==
  ASSUME NEW r, Reviewers \subseteq {r}, "indoubt" \notin Faults, SerialInv, [Next]_vars
  PROVE  SerialInv'
<1>1. Inv' /\ Undecided'
  BY InvStep, UndecidedStep DEF SerialInv
<1>2. CASE Next
  BY <1>1, <1>2, AgreeStep, FirstStep, CurrentStep DEF SerialInv
<1>3. CASE UNCHANGED vars
  BY <1>1, <1>3 DEF SerialInv, OverridesTheCurrent, WorkerDecidesFirst, Inserted, Ids,
                    StatusAgreesWithDecision, vars, dvars
<1> QED BY <1>2, <1>3

(* With one reviewer at a time and no commit in doubt, whatever else fails,  *)
(* is retried or killed, the application's status is the type of the one   *)
(* decision row that is current, and undecided while there is none.        *)
THEOREM StatusAgrees ==
  ASSUME NEW r, Reviewers \subseteq {r}, "indoubt" \notin Faults
  PROVE  Spec => []StatusAgreesWithDecision
<1>1. Init => SerialInv
  BY SerialInit
<1>2. SerialInv /\ [Next]_vars => SerialInv'
  BY SerialStep
<1>3. SerialInv => StatusAgreesWithDecision
  BY DEF SerialInv
<1> QED BY <1>1, <1>2, <1>3, PTL DEF Spec
-----------------------------------------------------------------------------
(* The chain starts with an empty ledger. *)
LEMMA LedgerInit == Init => Ledger!LInit
  BY DEF Init, DInit, Ledger!LInit, Head, Verdict, NoRow, Decided, DecisionType

(* The two commits are the ledger's entries; every other step stutters. *)
LEMMA LedgerStep ==
  ASSUME SerialInv, [Next]_vars
  PROVE  [Ledger!LNext]_Ledger!lvars
<1>1. CASE PersistCommit
  <2>1. rows = {} /\ Head = NoRow
    BY <1>1, DecideFrame DEF Head
  <2>2. /\ rows' = {[id |-> txn[Worker].id, type |-> outcome, source |-> "pipeline",
                     prev |-> NoRow]}
        /\ current' = {txn[Worker].id} /\ txn[Worker].id \in RowId
    BY <1>1, DecideFrame
  <2>3. Head' = txn[Worker].id
    BY <2>2 DEF Head
  <2>4. Verdict' = outcome /\ outcome \in DecisionType
    BY <1>1, DecideFrame DEF Verdict, Decided
  <2>5. Ledger!Decide
    BY <2>1, <2>2, <2>3, <2>4 DEF Ledger!Decide, Ledger!Enter
  <2> QED BY <2>5 DEF Ledger!LNext
<1>2. ASSUME NEW r \in Reviewers, CommitDecision(r)
      PROVE  [Ledger!LNext]_Ledger!lvars
  <2>1. rows # {} /\ Head = txn[r].prev
    BY <1>2, OverrideCommit DEF Head
  <2>2. /\ rows' = rows \cup {[id |-> txn[r].id, type |-> txn[r].type,
                               source |-> "override", prev |-> txn[r].prev]}
        /\ current' = {txn[r].id} /\ txn[r].id \in RowId
        /\ \A row \in rows : row.id < txn[r].id
    BY <1>2, OverrideCommit
  <2>3. Head' = txn[r].id
    BY <2>2 DEF Head
  <2>4. Verdict' = txn[r].type /\ txn[r].type \in DecisionType
    BY <1>2, OverrideCommit DEF Verdict, Decided
  <2>5. Ledger!Override
    BY <2>1, <2>2, <2>3, <2>4 DEF Ledger!Override, Ledger!Enter
  <2> QED BY <2>5 DEF Ledger!LNext
<1>3. ASSUME UNCHANGED <<rows, current>>,
             status' = status \/ (status \notin Decided /\ status' \notin Decided)
      PROVE  [Ledger!LNext]_Ledger!lvars
  <2>1. UNCHANGED <<rows, Head, Verdict>>
    BY <1>3 DEF Head, Verdict
  <2> QED BY <2>1 DEF Ledger!lvars
<1>4. ASSUME NEW r \in Reviewers, Override(r), ~CommitDecision(r)
      PROVE  UNCHANGED <<rows, current, status>>
  BY <1>4 DEF Override, AdmitOverride, SelectCurrent, SnapshotCurrent, ClearAndInsert,
              SaveStatus, AbortDecision
<1>5. CASE Next /\ ~PersistCommit /\ \A r \in Reviewers : ~(Override(r) /\ UNCHANGED cvars)
  BY <1>3, <1>5, ChainFrame DEF SerialInv, Undecided
<1>6. CASE UNCHANGED vars
  BY <1>3, <1>6 DEF vars, dvars
<1> QED BY <1>1, <1>2, <1>3, <1>4, <1>5, <1>6

(* Under the same assumptions the chain and the override transactions        *)
(* implement the ledger: one decision by the pipeline, never a second, then *)
(* overrides that each replace the decision in force and name it.          *)
THEOREM LedgerImplemented ==
  ASSUME NEW r, Reviewers \subseteq {r}, "indoubt" \notin Faults
  PROVE  Spec => ImplementsLedger
<1>1. Init => SerialInv /\ Ledger!LInit
  BY SerialInit, LedgerInit
<1>2. SerialInv /\ [Next]_vars => SerialInv'
  BY SerialStep
<1>3. SerialInv /\ [Next]_vars => [Ledger!LNext]_Ledger!lvars
  BY LedgerStep
<1> QED BY <1>1, <1>2, <1>3, PTL DEF Spec, ImplementsLedger, Ledger!LSpec
=============================================================================
