--------------------------- MODULE DecisionsProofs ---------------------------
(***************************************************************************)
(* Proofs about module Decisions: whatever the transactions and the other  *)
(* tasks do to the decision table, for any reviewers, types and bound, the *)
(* newest decision is current and a superseded one is not.                 *)
(***************************************************************************)
EXTENDS Decisions, TLAPS

(* Any step that the decision code and the other tasks can make, without    *)
(* the bounds of DNext.  Both DNext and the chain of module Pipeline take  *)
(* only such steps.                                                        *)
AnyStep ==
  \/ \E type \in Types : BeginPersist(type)
  \/ \E r \in Reviewers, type \in Types : AdmitOverride(r, type)
  \/ \E r \in Reviewers : SelectCurrent(r)
  \/ \E w \in Writers : SnapshotCurrent(w)
  \/ \E w \in Writers : ClearAndInsert(w)
  \/ \E w \in Writers : SaveStatus(w)
  \/ \E w \in Writers : CommitDecision(w)
  \/ \E w \in Writers : AbortDecision(w)
  \/ \E s \in Status : SetStatus(s)

(* A transaction has a row of its own exactly from its insert to its end.   *)
Inserted(w) == txn[w].at \in {"save", "commit"}

(* Stamps are never reused. *)
FreshIds ==
  /\ \A id \in Ids : id < nextId
  /\ \A w \in Writers : Inserted(w) =>
       txn[w].id \in RowId \ Ids /\ txn[w].id < nextId
  /\ \A v, w \in Writers : Inserted(v) /\ Inserted(w) /\ v # w =>
       txn[v].id # txn[w].id

(* A transaction clears only committed rows, all of them older than its own. *)
ClearsOlder ==
  \A w \in Writers :
    /\ txn[w].snap \subseteq Ids
    /\ txn[w].cleared \subseteq Ids
    /\ ~Inserted(w) => txn[w].cleared = {}
    /\ Inserted(w) => \A id \in txn[w].cleared : id < txn[w].id

(* The predecessor that an override has read is among the rows it will      *)
(* clear, or is not current any more.                                      *)
PrevIsCleared ==
  /\ \A row \in rows : row.prev \in Ids \cup {NoRow}
  /\ \A w \in Writers :
       /\ txn[w].prev \in Ids \cup {NoRow}
       /\ txn[w].at = "clear" /\ txn[w].prev \in current => txn[w].prev \in txn[w].snap
       /\ Inserted(w) /\ txn[w].prev \in current => txn[w].prev \in txn[w].cleared

(* An override that is admitted finds a decision, and once it has read one   *)
(* its own row will be newer.                                              *)
FindsADecision ==
  \A r \in Reviewers :
    /\ txn[r].at = "select" => current # {}
    /\ txn[r].at \notin {"idle", "select"} => txn[r].prev \in Ids
    /\ Inserted(r) => txn[r].prev < txn[r].id

DInv ==
  /\ DTypeOK
  /\ FreshIds
  /\ ClearsOlder
  /\ PrevIsCleared
  /\ LatestRowIsCurrent
  /\ SupersededStaysSuperseded
  /\ FindsADecision
  /\ OverridesHavePredecessors

LEMMA NoTxnType == NoTxn \in Txn
  BY DEF NoTxn, Txn, DecisionType, NoRow, RowId

(* A step that replaces one transaction's record keeps their type. *)
LEMMA OneTxnType ==
  ASSUME DTypeOK, NEW w \in Writers, NEW t \in Txn, txn' = [txn EXCEPT ![w] = t]
  PROVE  /\ txn' \in [Writers -> Txn]
         /\ txn'[w] = t
         /\ \A v \in Writers \ {w} : txn'[v] = txn[v]
  BY DEF DTypeOK

(* What each action makes of its writer's transaction. *)
LEMMA TxnSteps ==
  ASSUME DTypeOK, NEW w \in Writers
  PROVE  /\ \A type \in Types : [NoTxn EXCEPT !.at = "snapshot", !.type = type] \in Txn
         /\ \A type \in Types : [NoTxn EXCEPT !.at = "select", !.type = type] \in Txn
         /\ \A id \in Nat : [txn[w] EXCEPT !.at = "snapshot", !.prev = id] \in Txn
         /\ [txn[w] EXCEPT !.at = "clear", !.snap = current] \in Txn
         /\ [txn[w] EXCEPT !.at = "save", !.id = nextId,
                           !.cleared = txn[w].snap \cap current] \in Txn
         /\ [txn[w] EXCEPT !.at = "commit"] \in Txn
         /\ NoTxn \in Txn
<1>1. current \subseteq RowId
  BY DEF DTypeOK, Ids, Row
<1>2. txn[w] \in Txn /\ nextId \in Nat
  BY DEF DTypeOK, RowId
<1>3. \A type \in Types : type \in DecisionType
  BY TypesAssumption
<1> QED BY <1>1, <1>2, <1>3, NoTxnType DEF Txn, NoTxn

(* Every step keeps the types. *)
LEMMA TypeStep ==
  ASSUME DTypeOK, FreshIds, AnyStep
  PROVE  DTypeOK'
<1> USE DEF DTypeOK
<1>1. ASSUME NEW type \in Types, BeginPersist(type)
      PROVE  DTypeOK'
  BY <1>1, TxnSteps DEF BeginPersist, Ids, Writers
<1>2. ASSUME NEW r \in Reviewers, NEW type \in Types, AdmitOverride(r, type)
      PROVE  DTypeOK'
  BY <1>2, TxnSteps DEF AdmitOverride, Ids, Writers
<1>3. ASSUME NEW r \in Reviewers, SelectCurrent(r)
      PROVE  DTypeOK'
  <2>1. r \in Writers
    BY DEF Writers
  <2>2. current \cup {NoRow} \subseteq Nat
    BY DEF Ids, Row, RowId, NoRow
  <2> QED BY <1>3, <2>1, <2>2, TxnSteps DEF SelectCurrent, Ids
<1>4. ASSUME NEW w \in Writers, SnapshotCurrent(w)
      PROVE  DTypeOK'
  BY <1>4, TxnSteps DEF SnapshotCurrent, Ids
<1>5. ASSUME NEW w \in Writers, ClearAndInsert(w)
      PROVE  DTypeOK'
  <2>1. txn' \in [Writers -> Txn]
    BY <1>5, TxnSteps DEF ClearAndInsert
  <2>2. nextId' \in RowId
    BY <1>5 DEF ClearAndInsert, RowId, NoRow
  <2> QED BY <1>5, <2>1, <2>2 DEF ClearAndInsert, Ids
<1>6. ASSUME NEW w \in Writers, SaveStatus(w)
      PROVE  DTypeOK'
  BY <1>6, TxnSteps DEF SaveStatus, Ids
<1>7. ASSUME NEW w \in Writers, AbortDecision(w)
      PROVE  DTypeOK'
  BY <1>7, NoTxnType DEF AbortDecision, Ids
<1>8. ASSUME NEW s \in Status, SetStatus(s)
      PROVE  DTypeOK'
  BY <1>8 DEF SetStatus, Ids
<1>9. ASSUME NEW w \in Writers, CommitDecision(w)
      PROVE  DTypeOK'
  <2> DEFINE row == [id |-> txn[w].id, type |-> txn[w].type,
                     source |-> SourceOf(w), prev |-> txn[w].prev]
  <2>1. txn[w] \in Txn /\ txn[w].id \in RowId
    BY <1>9 DEF FreshIds, Inserted, CommitDecision
  <2>2. row \in Row
    BY <2>1 DEF Txn, Row, SourceOf
  <2>3. rows' \subseteq Row /\ current' \subseteq Ids'
    BY <1>9, <2>2 DEF CommitDecision, Ids
  <2>4. status' \in Status
    BY <1>9 DEF CommitDecision, StatusOf, Status, Decided, DecisionType
  <2> QED BY <1>9, <2>3, <2>4, NoTxnType DEF CommitDecision
<1> QED BY <1>1, <1>2, <1>3, <1>4, <1>5, <1>6, <1>7, <1>8, <1>9 DEF AnyStep

(* A commit adds exactly the transaction's row. *)
LEMMA CommitIds ==
  ASSUME NEW w \in Writers, CommitDecision(w)
  PROVE  Ids' = Ids \cup {txn[w].id}
<1> DEFINE new == [id |-> txn[w].id, type |-> txn[w].type,
                   source |-> SourceOf(w), prev |-> txn[w].prev]
<1>1. rows' = rows \cup {new}
  BY DEF CommitDecision
<1>2. new.id = txn[w].id
  OBVIOUS
<1> HIDE DEF new
<1> QED BY <1>1, <1>2 DEF Ids

(* Stamps stay fresh: only ClearAndInsert takes one, and only a commit      *)
(* makes one of a committed row.                                           *)
LEMMA FreshStep ==
  ASSUME DTypeOK, FreshIds, AnyStep
  PROVE  FreshIds'
<1> USE DEF DTypeOK, FreshIds, Inserted
<1>1. ASSUME NEW type \in Types, BeginPersist(type)
      PROVE  FreshIds'
  BY <1>1 DEF BeginPersist, Ids, NoTxn, Writers
<1>2. ASSUME NEW r \in Reviewers, NEW type \in Types, AdmitOverride(r, type)
      PROVE  FreshIds'
  BY <1>2 DEF AdmitOverride, Ids, NoTxn, Writers
<1>3. ASSUME NEW r \in Reviewers, SelectCurrent(r)
      PROVE  FreshIds'
  BY <1>3 DEF SelectCurrent, Ids, Writers, Txn
<1>4. ASSUME NEW w \in Writers, SnapshotCurrent(w)
      PROVE  FreshIds'
  BY <1>4 DEF SnapshotCurrent, Ids, Txn
<1>5. ASSUME NEW w \in Writers, ClearAndInsert(w)
      PROVE  FreshIds'
  <2> DEFINE t == [txn[w] EXCEPT !.at = "save", !.id = nextId,
                               !.cleared = txn[w].snap \cap current]
  <2>1. txn' = [txn EXCEPT ![w] = t] /\ t \in Txn
    BY <1>5, TxnSteps DEF ClearAndInsert
  <2>2. t.id = nextId
    BY DEF Txn
  <2> HIDE DEF t
  <2>3. txn'[w] = t /\ \A v \in Writers \ {w} : txn'[v] = txn[v]
    BY <2>1
  <2>4. nextId \in Nat /\ nextId # NoRow /\ nextId' = nextId + 1 /\ Ids' = Ids
    BY <1>5 DEF ClearAndInsert, Ids, RowId
  <2>5. nextId \in RowId \ Ids /\ nextId < nextId'
    BY <2>4 DEF RowId
  <2>6. \A id \in Ids : id < nextId'
    <3>1. Ids \subseteq Nat
      BY DEF Ids, Row, RowId
    <3> QED BY <2>4, <3>1
  <2>7. \A v \in Writers \ {w} : Inserted(v) => txn[v].id < nextId' /\ txn[v].id # nextId
    BY <2>4 DEF RowId
  <2> QED BY <2>2, <2>3, <2>4, <2>5, <2>6, <2>7
<1>6. ASSUME NEW w \in Writers, SaveStatus(w)
      PROVE  FreshIds'
  BY <1>6 DEF SaveStatus, Ids, Txn
<1>7. ASSUME NEW w \in Writers, AbortDecision(w)
      PROVE  FreshIds'
  BY <1>7 DEF AbortDecision, Ids, NoTxn
<1>8. ASSUME NEW s \in Status, SetStatus(s)
      PROVE  FreshIds'
  BY <1>8 DEF SetStatus, Ids
<1>9. ASSUME NEW w \in Writers, CommitDecision(w)
      PROVE  FreshIds'
  <2>1. /\ Ids' = Ids \cup {txn[w].id} /\ nextId' = nextId
        /\ txn' = [txn EXCEPT ![w] = NoTxn] /\ NoTxn.at = "idle"
    BY <1>9, CommitIds DEF CommitDecision, NoTxn
  <2>2. txn'[w] = NoTxn /\ \A v \in Writers \ {w} : txn'[v] = txn[v]
    BY <2>1
  <2>3. Inserted(w)
    BY <1>9 DEF CommitDecision
  <2>4. \A v \in Writers : Inserted(v)' => v # w /\ Inserted(v)
    BY <2>1, <2>2
  <2>5. \A id \in Ids' : id < nextId'
    BY <2>1, <2>3
  <2>6. \A v \in Writers : Inserted(v)' => txn'[v].id \in RowId \ Ids' /\ txn'[v].id < nextId'
    BY <2>1, <2>2, <2>3, <2>4
  <2>7. \A v, u \in Writers : Inserted(v)' /\ Inserted(u)' /\ v # u => txn'[v].id # txn'[u].id
    BY <2>2, <2>4
  <2> QED BY <2>5, <2>6, <2>7
<1> QED BY <1>1, <1>2, <1>3, <1>4, <1>5, <1>6, <1>7, <1>8, <1>9 DEF AnyStep

(* What a transaction clears stays older than its row. *)
LEMMA ClearsStep ==
  ASSUME DTypeOK, FreshIds, ClearsOlder, AnyStep
  PROVE  ClearsOlder'
<1> USE DEF DTypeOK, ClearsOlder, Inserted
<1>1. ASSUME NEW type \in Types, BeginPersist(type)
      PROVE  ClearsOlder'
  BY <1>1 DEF BeginPersist, Ids, NoTxn, Writers
<1>2. ASSUME NEW r \in Reviewers, NEW type \in Types, AdmitOverride(r, type)
      PROVE  ClearsOlder'
  BY <1>2 DEF AdmitOverride, Ids, NoTxn, Writers
<1>3. ASSUME NEW r \in Reviewers, SelectCurrent(r)
      PROVE  ClearsOlder'
  BY <1>3 DEF SelectCurrent, Ids, Writers, Txn
<1>4. ASSUME NEW w \in Writers, SnapshotCurrent(w)
      PROVE  ClearsOlder'
  BY <1>4 DEF SnapshotCurrent, Ids, Txn
<1>5. ASSUME NEW w \in Writers, ClearAndInsert(w)
      PROVE  ClearsOlder'
  BY <1>5 DEF ClearAndInsert, Ids, Txn, RowId, FreshIds
<1>6. ASSUME NEW w \in Writers, SaveStatus(w)
      PROVE  ClearsOlder'
  BY <1>6 DEF SaveStatus, Ids, Txn
<1>7. ASSUME NEW w \in Writers, AbortDecision(w)
      PROVE  ClearsOlder'
  BY <1>7 DEF AbortDecision, Ids, NoTxn
<1>8. ASSUME NEW s \in Status, SetStatus(s)
      PROVE  ClearsOlder'
  BY <1>8 DEF SetStatus, Ids
<1>9. ASSUME NEW w \in Writers, CommitDecision(w)
      PROVE  ClearsOlder'
  BY <1>9, CommitIds DEF CommitDecision, NoTxn
<1> QED BY <1>1, <1>2, <1>3, <1>4, <1>5, <1>6, <1>7, <1>8, <1>9 DEF AnyStep

(* An override's predecessor stays among what it clears: it can leave       *)
(* current before that, but no commit brings it back.                      *)
LEMMA PrevStep ==
  ASSUME DTypeOK, FreshIds, ClearsOlder, PrevIsCleared, AnyStep
  PROVE  PrevIsCleared'
<1> USE DEF DTypeOK, PrevIsCleared, Inserted
<1>1. ASSUME NEW type \in Types, BeginPersist(type)
      PROVE  PrevIsCleared'
  BY <1>1 DEF BeginPersist, Ids, NoTxn, Writers
<1>2. ASSUME NEW r \in Reviewers, NEW type \in Types, AdmitOverride(r, type)
      PROVE  PrevIsCleared'
  BY <1>2 DEF AdmitOverride, Ids, NoTxn, Writers
<1>3. ASSUME NEW r \in Reviewers, SelectCurrent(r)
      PROVE  PrevIsCleared'
  BY <1>3 DEF SelectCurrent, Ids, Writers, Txn
<1>4. ASSUME NEW w \in Writers, SnapshotCurrent(w)
      PROVE  PrevIsCleared'
  BY <1>4 DEF SnapshotCurrent, Ids, Txn
<1>5. ASSUME NEW w \in Writers, ClearAndInsert(w)
      PROVE  PrevIsCleared'
  BY <1>5 DEF ClearAndInsert, Ids, Txn
<1>6. ASSUME NEW w \in Writers, SaveStatus(w)
      PROVE  PrevIsCleared'
  BY <1>6 DEF SaveStatus, Ids, Txn
<1>7. ASSUME NEW w \in Writers, AbortDecision(w)
      PROVE  PrevIsCleared'
  BY <1>7 DEF AbortDecision, Ids, NoTxn
<1>8. ASSUME NEW s \in Status, SetStatus(s)
      PROVE  PrevIsCleared'
  BY <1>8 DEF SetStatus, Ids
<1>9. ASSUME NEW w \in Writers, CommitDecision(w)
      PROVE  PrevIsCleared'
  <2>1. /\ Ids' = Ids \cup {txn[w].id} /\ txn[w].id \in RowId \ Ids
        /\ current' = (current \ txn[w].cleared) \cup {txn[w].id}
        /\ txn' = [txn EXCEPT ![w] = NoTxn]
    BY <1>9, CommitIds DEF CommitDecision, FreshIds
  <2>2. \A row \in rows' : row.prev \in Ids' \cup {NoRow}
    BY <1>9, <2>1 DEF CommitDecision
  <2>3. NoTxn.prev = NoRow /\ NoTxn.at = "idle" /\ NoRow \notin current'
    BY <2>1 DEF NoTxn, Ids, Row, RowId
  <2>4. \A v \in Writers : txn'[v].prev \in current' => v # w /\ txn[v].prev \in current
    BY <2>1, <2>3 DEF NoRow, RowId
  <2> QED BY <2>1, <2>2, <2>3, <2>4
<1> QED BY <1>1, <1>2, <1>3, <1>4, <1>5, <1>6, <1>7, <1>8, <1>9 DEF AnyStep

(* Only a commit changes the rows and what is current. *)
LEMMA RowsStep ==
  ASSUME AnyStep
  PROVE  (UNCHANGED <<rows, current>>) \/ \E w \in Writers : CommitDecision(w)
  BY DEF AnyStep, BeginPersist, AdmitOverride, SelectCurrent, SnapshotCurrent,
         ClearAndInsert, SaveStatus, AbortDecision, SetStatus

(* The newest row is not among the rows that an older transaction clears.  *)
LEMMA LatestStep ==
  ASSUME DTypeOK, FreshIds, ClearsOlder, LatestRowIsCurrent, AnyStep
  PROVE  LatestRowIsCurrent'
<1>1. CASE UNCHANGED <<rows, current>>
  BY <1>1 DEF LatestRowIsCurrent, Ids, IsNewest
<1>2. ASSUME NEW w \in Writers, CommitDecision(w)
      PROVE  LatestRowIsCurrent'
  <2>1. /\ Ids' = Ids \cup {txn[w].id}
        /\ current' = (current \ txn[w].cleared) \cup {txn[w].id}
    BY <1>2, CommitIds DEF CommitDecision
  <2>2. /\ \A id \in txn[w].cleared : id < txn[w].id
        /\ txn[w].id \in Nat /\ Ids \subseteq Nat
    BY <1>2 DEF ClearsOlder, CommitDecision, Inserted, DTypeOK, FreshIds, RowId, Ids, Row
  <2>3. SUFFICES ASSUME NEW id \in Ids', IsNewest(id, Ids')
                 PROVE  id \in current'
    BY DEF LatestRowIsCurrent
  <2>4. CASE id = txn[w].id
    BY <2>1, <2>4
  <2>5. CASE id # txn[w].id
    <3>1. id \in Ids /\ IsNewest(id, Ids) /\ txn[w].id <= id
      BY <2>1, <2>3, <2>5 DEF IsNewest
    <3>2. id \in current
      BY <3>1 DEF LatestRowIsCurrent
    <3>3. id \notin txn[w].cleared
      BY <2>2, <3>1
    <3> QED BY <2>1, <3>2, <3>3
  <2> QED BY <2>4, <2>5
<1> QED BY <1>1, <1>2, RowsStep

(* A commit clears the predecessor it names, and brings none back. *)
LEMMA SupersededStep ==
  ASSUME DTypeOK, FreshIds, ClearsOlder, PrevIsCleared, SupersededStaysSuperseded, AnyStep
  PROVE  SupersededStaysSuperseded'
<1>1. CASE UNCHANGED <<rows, current>>
  BY <1>1 DEF SupersededStaysSuperseded
<1>2. ASSUME NEW w \in Writers, CommitDecision(w)
      PROVE  SupersededStaysSuperseded'
  <2>1. /\ current' = (current \ txn[w].cleared) \cup {txn[w].id}
        /\ txn[w].id \in RowId \ Ids
        /\ txn[w].prev \in current => txn[w].prev \in txn[w].cleared
        /\ txn[w].prev \in Ids \cup {NoRow}
    BY <1>2 DEF CommitDecision, FreshIds, PrevIsCleared, Inserted
  <2>2. \A row \in rows : row.prev \notin current'
    BY <2>1 DEF PrevIsCleared, SupersededStaysSuperseded, RowId
  <2>3. txn[w].prev \notin current'
    BY <2>1 DEF RowId
  <2> QED BY <1>2, <2>2, <2>3 DEF CommitDecision, SupersededStaysSuperseded
<1> QED BY <1>1, <1>2, RowsStep

(* What is current is only ever replaced, at a commit, so that an admitted   *)
(* override still finds a decision when it looks for it.                   *)
LEMMA FindStep ==
  ASSUME DTypeOK, FreshIds, FindsADecision, AnyStep
  PROVE  FindsADecision'
<1> USE DEF DTypeOK, FindsADecision, Inserted
<1>0. \A r \in Reviewers : r \in Writers /\ r # Worker
  BY ReviewersAssumption DEF Writers
<1>1. ASSUME NEW type \in Types, BeginPersist(type)
      PROVE  FindsADecision'
  BY <1>0, <1>1 DEF BeginPersist, Ids
<1>2. ASSUME NEW r \in Reviewers, NEW type \in Types, AdmitOverride(r, type)
      PROVE  FindsADecision'
  BY <1>0, <1>2 DEF AdmitOverride, Ids, NoTxn
<1>3. ASSUME NEW r \in Reviewers, SelectCurrent(r)
      PROVE  FindsADecision'
  <2>1. txn'[r].at = "snapshot" /\ txn'[r].prev \in current /\ UNCHANGED <<rows, current>>
    BY <1>0, <1>3 DEF SelectCurrent, IsNewest, Txn
  <2> QED BY <1>0, <1>3, <2>1 DEF SelectCurrent, Ids
<1>4. ASSUME NEW w \in Writers, SnapshotCurrent(w)
      PROVE  FindsADecision'
  BY <1>0, <1>4 DEF SnapshotCurrent, Ids, Txn
<1>5. ASSUME NEW w \in Writers, ClearAndInsert(w)
      PROVE  FindsADecision'
  BY <1>0, <1>5 DEF ClearAndInsert, Ids, Txn, FreshIds
<1>6. ASSUME NEW w \in Writers, SaveStatus(w)
      PROVE  FindsADecision'
  BY <1>0, <1>6 DEF SaveStatus, Ids, Txn
<1>7. ASSUME NEW w \in Writers, AbortDecision(w)
      PROVE  FindsADecision'
  BY <1>0, <1>7 DEF AbortDecision, Ids, NoTxn
<1>8. ASSUME NEW s \in Status, SetStatus(s)
      PROVE  FindsADecision'
  BY <1>8 DEF SetStatus, Ids
<1>9. ASSUME NEW w \in Writers, CommitDecision(w)
      PROVE  FindsADecision'
  <2>1. current' # {} /\ Ids \subseteq Ids'
    BY <1>9, CommitIds DEF CommitDecision
  <2>2. txn'[w].at = "idle" /\ \A r \in Reviewers \ {w} : txn'[r] = txn[r]
    BY <1>0, <1>9 DEF CommitDecision, NoTxn
  <2> QED BY <1>0, <2>1, <2>2
<1> QED BY <1>1, <1>2, <1>3, <1>4, <1>5, <1>6, <1>7, <1>8, <1>9 DEF AnyStep

(* A commit of a reviewer names the decision that its transaction has read. *)
LEMMA PredecessorStep ==
  ASSUME DTypeOK, FindsADecision, OverridesHavePredecessors, AnyStep
  PROVE  OverridesHavePredecessors'
<1>1. CASE UNCHANGED <<rows, current>>
  BY <1>1 DEF OverridesHavePredecessors
<1>2. ASSUME NEW w \in Writers, CommitDecision(w)
      PROVE  OverridesHavePredecessors'
  <2> DEFINE new == [id |-> txn[w].id, type |-> txn[w].type,
                     source |-> SourceOf(w), prev |-> txn[w].prev]
  <2>1. rows' = rows \cup {new}
    BY <1>2 DEF CommitDecision
  <2>2. ASSUME new.source = "override"
        PROVE  \E replaced \in rows : replaced.id = new.prev /\ replaced.id < new.id
    <3>1. w \in Reviewers
      BY <2>2 DEF SourceOf, Writers
    <3>2. txn[w].prev \in Ids /\ txn[w].prev < txn[w].id
      BY <1>2, <3>1 DEF CommitDecision, FindsADecision, Inserted
    <3> QED BY <3>2 DEF Ids
  <2> HIDE DEF new
  <2> QED BY <2>1, <2>2 DEF OverridesHavePredecessors
<1> QED BY <1>1, <1>2, RowsStep
-----------------------------------------------------------------------------
(* The initial table satisfies the invariant. *)
LEMMA DInvInit == DInit => DInv
<1> SUFFICES ASSUME DInit PROVE DInv
  OBVIOUS
<1>1. rows = {} /\ Ids = {} /\ current = {} /\ nextId = 1 /\ status = "queued"
  BY DEF DInit, Ids
<1>2. txn = [w \in Writers |-> NoTxn] /\ txn \in [Writers -> Txn]
  BY NoTxnType DEF DInit
<1>3. NoTxn.at = "idle" /\ NoTxn.snap = {} /\ NoTxn.cleared = {} /\ NoTxn.prev = NoRow
  BY DEF NoTxn
<1> QED BY <1>1, <1>2, <1>3
        DEF DInv, DTypeOK, FreshIds, ClearsOlder, PrevIsCleared, LatestRowIsCurrent,
            SupersededStaysSuperseded, FindsADecision, OverridesHavePredecessors,
            Inserted, Status, RowId, NoRow, Writers

(* Every step, and every step of something else, keeps the invariant. *)
LEMMA DInvStep == DInv /\ (AnyStep \/ UNCHANGED dvars) => DInv'
<1>1. ASSUME DInv, AnyStep
      PROVE  DInv'
  BY <1>1, TypeStep, FreshStep, ClearsStep, PrevStep, LatestStep, SupersededStep, FindStep,
     PredecessorStep DEF DInv
<1>2. ASSUME DInv, UNCHANGED dvars
      PROVE  DInv'
  BY <1>2 DEF DInv, dvars, DTypeOK, FreshIds, ClearsOlder, PrevIsCleared, Inserted,
              LatestRowIsCurrent, SupersededStaysSuperseded, FindsADecision,
              OverridesHavePredecessors, Ids
<1> QED BY <1>1, <1>2

(* The steps of DNext are steps of the decision code. *)
LEMMA DNextStep == [DNext]_dvars => AnyStep \/ UNCHANGED dvars
<1> SUFFICES ASSUME DNext PROVE AnyStep
  OBVIOUS
<1>1. Worker \in Writers /\ Reviewers \subseteq Writers /\ {"processing", "failed"} \subseteq Status
  BY DEF Writers, Status
<1> QED BY <1>1 DEF DNext, Persist, Override, AnyStep

LEMMA DInvariant == DSpec => []DInv
  BY DInvInit, DInvStep, DNextStep, PTL DEF DSpec

(* For any number of reviewers and any interleaving of their transactions   *)
(* with the worker's, the newest decision row is flagged current.          *)
THEOREM LatestRow == DSpec => []LatestRowIsCurrent
<1>1. DInv => LatestRowIsCurrent
  BY DEF DInv
<1> QED BY <1>1, DInvariant, PTL

(* For any number of reviewers and any interleaving, a decision named as    *)
(* the predecessor of an override is not current.                          *)
THEOREM Superseded == DSpec => []SupersededStaysSuperseded
<1>1. DInv => SupersededStaysSuperseded
  BY DEF DInv
<1> QED BY <1>1, DInvariant, PTL

(* For any number of reviewers and any interleaving, every override names    *)
(* an older decision as the one it has replaced: the unlocked check of the  *)
(* view is never overtaken by a moment without a current decision.         *)
THEOREM Predecessors == DSpec => []OverridesHavePredecessors
<1>1. DInv => OverridesHavePredecessors
  BY DEF DInv
<1> QED BY <1>1, DInvariant, PTL

(* A decision row is never changed or removed, and one that has been        *)
(* replaced never becomes current again.                                   *)
THEOREM History == DSpec => HistoryIsKept
<1>1. ASSUME DInv, [DNext]_dvars
      PROVE  [rows \subseteq rows' /\ (Ids \ current) \cap current' = {}]_dvars
  <2>1. CASE UNCHANGED <<rows, current>>
    BY <2>1
  <2>2. ASSUME NEW w \in Writers, CommitDecision(w)
        PROVE  rows \subseteq rows' /\ (Ids \ current) \cap current' = {}
    BY <1>1, <2>2 DEF CommitDecision, DInv, FreshIds, Inserted
  <2> QED BY <1>1, <2>1, <2>2, DNextStep, RowsStep
<1> QED BY <1>1, DInvariant, PTL DEF DSpec, HistoryIsKept

(* Every reachable state of the decision table has its types. *)
THEOREM Typing == DSpec => []DTypeOK
<1>1. DInv => DTypeOK
  BY DEF DInv
<1> QED BY <1>1, DInvariant, PTL
=============================================================================
