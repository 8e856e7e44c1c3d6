---------------------------- MODULE IntakeProofs ----------------------------
(***************************************************************************)
(* Proofs about Intake, for any requests, slots and faults.                *)
(***************************************************************************)
EXTENDS Intake, TLAPS

(* Before a request is past its commit it has found or created nothing. *)
Early == {"idle", "lookup", "insert", "broken", "commit"}

EarlyHasNone == \A q \in Requests : at[q] \in Early => app[q] = None /\ q \notin apps

(* What a request has found or created is committed and of its slot. *)
AppIsOfSlot == \A q \in Requests : app[q] # None => app[q] \in apps /\ slot[app[q]] = slot[q]

(* The unique constraint, on committed rows. *)
OnePerSlot ==
  \A a, b \in apps : slot[a] = slot[b] /\ slot[a] # NoKey => a = b

(* The unique index, on rows that are inserted and not committed. *)
InsertedIsFree ==
  \A q \in Requests :
    at[q] = "commit" /\ slot[q] # NoKey =>
      /\ \A a \in apps : slot[a] # slot[q]
      /\ \A p \in Requests \ {q} : ~(at[p] = "commit" /\ slot[p] = slot[q])

(* A chain is published at the end of the request that has committed. *)
PublishedByCreator ==
  /\ \A q \in Requests : at[q] = "enqueue" => app[q] = q /\ published[q] = 0
  /\ \A q \in Requests :
       published[q] # 0 => published[q] = 1 /\ q \in apps /\ at[q] = "answered"

Inv ==
  /\ TypeOK
  /\ EarlyHasNone /\ AppIsOfSlot
  /\ OnePerSlot /\ InsertedIsFree
  /\ PublishedByCreator

-----------------------------------------------------------------------------
LEMMA InvInit == Init => Inv
  BY DEF Init, Inv, TypeOK, Early, EarlyHasNone, AppIsOfSlot, OnePerSlot, InsertedIsFree,
         PublishedByCreator

(* A new request has no row yet, so nothing refers to its slot. *)
LEMMA ReceiveStep ==
  ASSUME Inv, NEW q \in Requests, Receive(q)
  PROVE  Inv'
<1> USE NoneAssumption, SlotsAssumption DEF Inv, Move, Respond, Existing
<1>1. TypeOK'
  BY DEF Receive, TypeOK, EarlyHasNone, Early, AppIsOfSlot, PublishedByCreator
<1>2. EarlyHasNone'
  BY DEF Receive, TypeOK, EarlyHasNone, Early, PublishedByCreator
<1>3. AppIsOfSlot'
  BY DEF Receive, TypeOK, EarlyHasNone, Early, AppIsOfSlot, PublishedByCreator
<1>4. OnePerSlot'
  BY DEF Receive, TypeOK, EarlyHasNone, Early, OnePerSlot, InsertedIsFree
<1>5. InsertedIsFree'
  BY DEF Receive, TypeOK, EarlyHasNone, Early, InsertedIsFree
<1>6. PublishedByCreator'
  BY DEF Receive, TypeOK, EarlyHasNone, Early, PublishedByCreator
<1> QED BY <1>1, <1>2, <1>3, <1>4, <1>5, <1>6

(* What the first query finds is committed. *)
LEMMA LookupStep ==
  ASSUME Inv, NEW q \in Requests, Lookup(q)
  PROVE  Inv'
<1> USE NoneAssumption, SlotsAssumption DEF Inv, Move, Respond, Existing
<1>1. TypeOK'
  BY DEF Lookup, TypeOK, EarlyHasNone, Early, AppIsOfSlot, PublishedByCreator
<1>2. EarlyHasNone'
  BY DEF Lookup, TypeOK, EarlyHasNone, Early, PublishedByCreator
<1>3. AppIsOfSlot'
  BY DEF Lookup, TypeOK, EarlyHasNone, Early, AppIsOfSlot, PublishedByCreator
<1>4. OnePerSlot'
  BY DEF Lookup, TypeOK, EarlyHasNone, Early, OnePerSlot, InsertedIsFree
<1>5. InsertedIsFree'
  BY DEF Lookup, TypeOK, EarlyHasNone, Early, InsertedIsFree
<1>6. PublishedByCreator'
  BY DEF Lookup, TypeOK, EarlyHasNone, Early, PublishedByCreator
<1> QED BY <1>1, <1>2, <1>3, <1>4, <1>5, <1>6

(* The unique index keeps two open transactions off one slot. *)
LEMMA InsertStep ==
  ASSUME Inv, NEW q \in Requests, Insert(q)
  PROVE  Inv'
<1> USE NoneAssumption, SlotsAssumption DEF Inv, Move, Respond, Existing
<1>1. TypeOK'
  BY DEF Insert, IndexIsFree, IsDuplicate, TypeOK, EarlyHasNone, Early, AppIsOfSlot,
         PublishedByCreator
<1>2. EarlyHasNone'
  BY DEF Insert, IndexIsFree, IsDuplicate, TypeOK, EarlyHasNone, Early, PublishedByCreator
<1>3. AppIsOfSlot'
  BY DEF Insert, IndexIsFree, IsDuplicate, TypeOK, EarlyHasNone, Early, AppIsOfSlot,
         PublishedByCreator
<1>4. OnePerSlot'
  BY DEF Insert, IndexIsFree, IsDuplicate, TypeOK, EarlyHasNone, Early, OnePerSlot,
         InsertedIsFree
<1>5. InsertedIsFree'
  BY DEF Insert, IndexIsFree, IsDuplicate, TypeOK, EarlyHasNone, Early, InsertedIsFree
<1>6. PublishedByCreator'
  BY DEF Insert, IndexIsFree, IsDuplicate, TypeOK, EarlyHasNone, Early, PublishedByCreator
<1> QED BY <1>1, <1>2, <1>3, <1>4, <1>5, <1>6

(* The row that is committed is the only one of its slot. *)
LEMMA CommitStep ==
  ASSUME Inv, NEW q \in Requests, Commit(q) \/ CommitInDoubt(q)
  PROVE  Inv'
<1> USE NoneAssumption, SlotsAssumption DEF Inv, Move, Respond, Existing
<1>1. TypeOK'
  BY DEF Commit, CommitInDoubt, TypeOK, EarlyHasNone, Early, AppIsOfSlot,
         PublishedByCreator
<1>2. EarlyHasNone'
  BY DEF Commit, CommitInDoubt, TypeOK, EarlyHasNone, Early, PublishedByCreator
<1>3. AppIsOfSlot'
  BY DEF Commit, CommitInDoubt, TypeOK, EarlyHasNone, Early, AppIsOfSlot,
         PublishedByCreator
<1>4. OnePerSlot'
  BY DEF Commit, CommitInDoubt, TypeOK, EarlyHasNone, Early, OnePerSlot, InsertedIsFree
<1>5. InsertedIsFree'
  BY DEF Commit, CommitInDoubt, TypeOK, EarlyHasNone, Early, InsertedIsFree
<1>6. PublishedByCreator'
  BY DEF Commit, CommitInDoubt, TypeOK, EarlyHasNone, Early, PublishedByCreator
<1> QED BY <1>1, <1>2, <1>3, <1>4, <1>5, <1>6

(* A request publishes its own application, and for the first time. *)
LEMMA EnqueueStep ==
  ASSUME Inv, NEW q \in Requests, Enqueue(q)
  PROVE  Inv'
<1> USE NoneAssumption, SlotsAssumption DEF Inv, Move, Respond, Existing
<1>1. TypeOK'
  BY DEF Enqueue, TypeOK, EarlyHasNone, Early, AppIsOfSlot, PublishedByCreator
<1>2. EarlyHasNone'
  BY DEF Enqueue, TypeOK, EarlyHasNone, Early, PublishedByCreator
<1>3. AppIsOfSlot'
  BY DEF Enqueue, TypeOK, EarlyHasNone, Early, AppIsOfSlot, PublishedByCreator
<1>4. OnePerSlot'
  BY DEF Enqueue, TypeOK, EarlyHasNone, Early, OnePerSlot, InsertedIsFree
<1>5. InsertedIsFree'
  BY DEF Enqueue, TypeOK, EarlyHasNone, Early, InsertedIsFree
<1>6. PublishedByCreator'
  BY DEF Enqueue, TypeOK, EarlyHasNone, Early, PublishedByCreator
<1> QED BY <1>1, <1>2, <1>3, <1>4, <1>5, <1>6

(* A request that fails leaves the rows and the chains as they are. *)
LEMMA OtherStep ==
  ASSUME Inv, NEW q \in Requests,
         \/ DuplicateKey(q) \/ QueryBrokenTransaction(q)
         \/ StatementRaises(q) \/ PublishFails(q) \/ Crash(q)
  PROVE  Inv'
<1> USE NoneAssumption, SlotsAssumption DEF Inv, Move, Respond, Existing
<1>1. TypeOK'
  BY DEF DuplicateKey, QueryBrokenTransaction, StatementRaises, PublishFails, Crash,
         TypeOK, EarlyHasNone, Early, AppIsOfSlot, PublishedByCreator
<1>2. EarlyHasNone'
  BY DEF DuplicateKey, QueryBrokenTransaction, StatementRaises, PublishFails, Crash,
         TypeOK, EarlyHasNone, Early, PublishedByCreator
<1>3. AppIsOfSlot'
  BY DEF DuplicateKey, QueryBrokenTransaction, StatementRaises, PublishFails, Crash,
         TypeOK, EarlyHasNone, Early, AppIsOfSlot, PublishedByCreator
<1>4. OnePerSlot'
  BY DEF DuplicateKey, QueryBrokenTransaction, StatementRaises, PublishFails, Crash,
         TypeOK, EarlyHasNone, Early, OnePerSlot, InsertedIsFree
<1>5. InsertedIsFree'
  BY DEF DuplicateKey, QueryBrokenTransaction, StatementRaises, PublishFails, Crash,
         TypeOK, EarlyHasNone, Early, InsertedIsFree
<1>6. PublishedByCreator'
  BY DEF DuplicateKey, QueryBrokenTransaction, StatementRaises, PublishFails, Crash,
         TypeOK, EarlyHasNone, Early, PublishedByCreator
<1> QED BY <1>1, <1>2, <1>3, <1>4, <1>5, <1>6

(* Each step of a request keeps the invariant, whatever the others do. *)
LEMMA InvStep == Inv /\ [Next]_vars => Inv'
<1> SUFFICES ASSUME Inv, [Next]_vars
             PROVE  Inv'
  OBVIOUS
<1>1. ASSUME NEW q \in Requests,
             \/ Receive(q) \/ Handle(q)
             \/ StatementRaises(q) \/ CommitInDoubt(q) \/ PublishFails(q) \/ Crash(q)
      PROVE  Inv'
  BY <1>1, ReceiveStep, LookupStep, InsertStep, CommitStep, EnqueueStep, OtherStep DEF Handle
<1>2. CASE UNCHANGED vars
  BY <1>2 DEF vars, Inv, TypeOK, EarlyHasNone, AppIsOfSlot, OnePerSlot, InsertedIsFree,
              PublishedByCreator, Existing
<1> QED BY <1>1, <1>2 DEF Next

LEMMA Invariance == Spec => []Inv
BY InvInit, InvStep, PTL DEF Spec

-----------------------------------------------------------------------------
(* The types of Intake, for any requests and keys, under any faults. *)
THEOREM TypesOfIntake == Spec => []TypeOK
<1>1. Inv => TypeOK
  BY DEF Inv
<1> QED BY <1>1, Invariance, PTL

(* However requests with one key and principal overlap, fail and are sent   *)
(* again, they find or create one application: the query sees committed    *)
(* rows only, and the unique index settles what the query misses.          *)
THEOREM OneApplicationPerKey == Spec => []SameKeySameApplication
<1>1. Inv => SameKeySameApplication
  BY DEF Inv, AppIsOfSlot, OnePerSlot, SameKeySameApplication
<1> QED BY <1>1, Invariance, PTL

(* The chain of an application is published at most once and never before   *)
(* its commit, under any faults and any number of repetitions.             *)
THEOREM OneChainPerApplication == Spec => []QueuedOnceAndCommitted
<1>1. Inv => QueuedOnceAndCommitted
  BY DEF Inv, TypeOK, PublishedByCreator, QueuedOnceAndCommitted
<1> QED BY <1>1, Invariance, PTL
=============================================================================
