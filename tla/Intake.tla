------------------------------- MODULE Intake -------------------------------
(***************************************************************************)
(* POST /api/v1/applications: ApplicationViewSet.create calls              *)
(* ApplicationService.submit, one database transaction, and after its      *)
(* commit publishes the Celery chain.  Requests run concurrently; clients  *)
(* that got an error or no answer send the same key again, which is just   *)
(* another request here.                                                   *)
(*                                                                         *)
(* A slot is what the unique constraint of Application identifies: an      *)
(* idempotency key together with its principal.  A request creates at most *)
(* one application, so the application is named by the request.            *)
(***************************************************************************)
EXTENDS Naturals

CONSTANTS
  Requests,   \* the HTTP requests
  Slots,      \* the (idempotency key, principal) pairs
  NoKey,      \* the slot of a request without an Idempotency-Key
  None,       \* no application
  Faults      \* what may go wrong, a subset of Fault

(* error:   a statement of the transaction raises                           *)
(* indoubt: the commit takes effect but the view gets an error              *)
(* publish: the broker refuses the chain                                    *)
(* crash:   the web process is killed                                       *)
Fault == {"error", "indoubt", "publish", "crash"}

ASSUME SlotsAssumption    == NoKey \notin Slots
ASSUME NoneAssumption     == None \notin Requests
ASSUME FaultsAssumption   == Faults \subseteq Fault

VARIABLES
  at,         \* where each request is
  slot,       \* its key and principal
  app,        \* the application it has created or found
  answer,     \* its response: 201, 200 or an error
  apps,       \* the committed applications
  published   \* how many chains have been published for each application

vars == <<at, slot, app, answer, apps, published>>

Init ==
  /\ at = [q \in Requests |-> "idle"]
  /\ slot = [q \in Requests |-> NoKey]
  /\ app = [q \in Requests |-> None]
  /\ answer = [q \in Requests |-> "none"]
  /\ apps = {}
  /\ published = [q \in Requests |-> 0]

-----------------------------------------------------------------------------
Move(q, from, to) == at[q] = from /\ at' = [at EXCEPT ![q] = to]
Respond(q, code)  == answer' = [answer EXCEPT ![q] = code]

Existing(q) == {a \in apps : slot[a] = slot[q]}

Receive(q) ==
  /\ \E s \in Slots \cup {NoKey} :
       /\ slot' = [slot EXCEPT ![q] = s]
       /\ Move(q, "idle", IF s = NoKey THEN "insert" ELSE "lookup")
  /\ UNCHANGED <<app, answer, apps, published>>

(* Bug variant: the view publishes a chain for a duplicate, too. *)
LookupAndEnqueue(q) ==
  \/ /\ \E a \in Existing(q) : app' = [app EXCEPT ![q] = a]
     /\ Move(q, "lookup", "enqueue")
     /\ UNCHANGED <<answer, slot, apps, published>>
  \/ /\ Existing(q) = {}
     /\ Move(q, "lookup", "insert")
     /\ UNCHANGED <<slot, app, answer, apps, published>>

(* The first query of submit: committed applications of the same slot. *)
Lookup(q) ==
  \/ /\ \E a \in Existing(q) : app' = [app EXCEPT ![q] = a]
     /\ Move(q, "lookup", "answered")
     /\ Respond(q, "existing")
     /\ UNCHANGED <<slot, apps, published>>
  \/ /\ Existing(q) = {}
     /\ Move(q, "lookup", "insert")
     /\ UNCHANGED <<slot, app, answer, apps, published>>

(* The unique index makes an INSERT wait for the transaction that has       *)
(* inserted the same slot and not ended.                                   *)
IndexIsFree(q) ==
  slot[q] # NoKey => \A p \in Requests \ {q} : ~(at[p] = "commit" /\ slot[p] = slot[q])

IsDuplicate(q) == slot[q] # NoKey /\ Existing(q) # {}

(* Bug variant: the table has no unique constraint. *)
InsertUnconstrained(q) ==
  /\ Move(q, "insert", "commit")
  /\ UNCHANGED <<slot, app, answer, apps, published>>

(* Bug variant: the chain is published inside the transaction. *)
InsertAndPublish(q) ==
  /\ IndexIsFree(q) /\ ~IsDuplicate(q)
  /\ Move(q, "insert", "commit")
  /\ app' = [app EXCEPT ![q] = q]
  /\ published' = [published EXCEPT ![q] = 1]
  /\ UNCHANGED <<slot, answer, apps>>

(* The application and its application.submitted audit row are inserted. *)
Insert(q) ==
  /\ IndexIsFree(q) /\ ~IsDuplicate(q)
  /\ Move(q, "insert", "commit")
  /\ UNCHANGED <<slot, app, answer, apps, published>>

DuplicateKey(q) ==
  /\ IndexIsFree(q) /\ IsDuplicate(q)
  /\ Move(q, "insert", "broken")
  /\ UNCHANGED <<slot, app, answer, apps, published>>

(* Bug variant: the insert is tried again and again. *)
InsertAgain(q) ==
  /\ Move(q, "broken", "insert")
  /\ UNCHANGED <<slot, app, answer, apps, published>>

(* The query in the except branch runs in the transaction that the          *)
(* IntegrityError has broken: it raises TransactionManagementError.        *)
QueryBrokenTransaction(q) ==
  /\ Move(q, "broken", "answered")
  /\ Respond(q, "error")
  /\ UNCHANGED <<slot, app, apps, published>>

(* Bug variant: the view answers without publishing the chain. *)
CommitAndAnswer(q) ==
  /\ Move(q, "commit", "answered")
  /\ Respond(q, "created")
  /\ apps' = apps \cup {q}
  /\ app' = [app EXCEPT ![q] = q]
  /\ UNCHANGED <<slot, published>>

Commit(q) ==
  /\ Move(q, "commit", "enqueue")
  /\ apps' = apps \cup {q}
  /\ app' = [app EXCEPT ![q] = q]
  /\ UNCHANGED <<slot, answer, published>>

(* enqueue_pipeline(app.id), then the response *)
Enqueue(q) ==
  /\ Move(q, "enqueue", "answered")
  /\ Respond(q, "created")
  /\ published' = [published EXCEPT ![app[q]] = @ + 1]
  /\ UNCHANGED <<slot, app, apps>>

-----------------------------------------------------------------------------
StatementRaises(q) ==
  /\ "error" \in Faults
  /\ \E from \in {"lookup", "insert", "commit"} : Move(q, from, "answered")
  /\ Respond(q, "error")
  /\ UNCHANGED <<slot, app, apps, published>>

CommitInDoubt(q) ==
  /\ "indoubt" \in Faults
  /\ Move(q, "commit", "answered")
  /\ Respond(q, "error")
  /\ apps' = apps \cup {q}
  /\ UNCHANGED <<slot, app, published>>

PublishFails(q) ==
  /\ "publish" \in Faults
  /\ Move(q, "enqueue", "answered")
  /\ Respond(q, "error")
  /\ UNCHANGED <<slot, app, apps, published>>

Crash(q) ==
  /\ "crash" \in Faults
  /\ \E from \in {"lookup", "insert", "broken", "commit", "enqueue"} : Move(q, from, "dead")
  /\ UNCHANGED <<slot, app, answer, apps, published>>

-----------------------------------------------------------------------------
Handle(q) ==
  \/ Lookup(q) \/ Insert(q) \/ DuplicateKey(q) \/ QueryBrokenTransaction(q)
  \/ Commit(q) \/ Enqueue(q)

Next ==
  \E q \in Requests :
    \/ Receive(q) \/ Handle(q)
    \/ StatementRaises(q) \/ CommitInDoubt(q) \/ PublishFails(q) \/ Crash(q)

Spec     == Init /\ [][Next]_vars
FairSpec == Spec /\ \A q \in Requests : WF_vars(Handle(q))

-----------------------------------------------------------------------------
TypeOK ==
  /\ at \in [Requests -> {"idle", "lookup", "insert", "broken", "commit", "enqueue",
                          "answered", "dead"}]
  /\ slot \in [Requests -> Slots \cup {NoKey}]
  /\ app \in [Requests -> apps \cup {None}]
  /\ answer \in [Requests -> {"none", "created", "existing", "error"}]
  /\ apps \subseteq Requests
  /\ published \in [Requests -> Nat]

Accepted(q) == answer[q] \in {"created", "existing"}

(* However requests with one key and principal overlap, fail and are sent   *)
(* again, the answers they get and the row they create are one application. *)
SameKeySameApplication ==
  \A p, q \in Requests :
    slot[p] = slot[q] /\ slot[p] # NoKey /\ app[p] # None /\ app[q] # None
      => app[p] = app[q]

(* No application runs through the pipeline twice, however often its         *)
(* submission is repeated, and a worker never gets the id of an application *)
(* that is not committed or was rolled back.                               *)
QueuedOnceAndCommitted ==
  \A a \in Requests : published[a] <= 1 /\ (published[a] = 1 => a \in apps)

(* Requests wait for each other's transactions, but each is answered while  *)
(* the web process lives.                                                  *)
RequestsAreAnswered ==
  \A q \in Requests : at[q] # "idle" ~> at[q] \in {"answered", "dead"}

(* README.md: a submission enqueues the chain.  Once a client has been told *)
(* that its application exists, the chain of that application is published. *)
AcceptedIsQueued ==
  \A q \in Requests : Accepted(q) ~> (app[q] # None /\ published[app[q]] > 0)

(* Under every fault, an application that a client has been told of gets     *)
(* its chain, unless the request that created it failed or was killed: the *)
(* repetitions of a request never enqueue, so nobody else will.            *)
AcceptedIsQueuedByItsCreator ==
  \A q \in Requests :
    Accepted(q) ~> \E a \in apps :
                     /\ a = app[q]
                     /\ published[a] > 0 \/ at[a] = "dead" \/ answer[a] = "error"

(* submit's docstring: idempotent when a key is provided for the same        *)
(* principal.  A request is not refused because another one was first.     *)
DuplicatesAreIdempotent ==
  \A q \in Requests : at[q] = "answered" => Accepted(q)
=============================================================================
