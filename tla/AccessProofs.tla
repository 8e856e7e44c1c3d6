---------------------------- MODULE AccessProofs ----------------------------
(***************************************************************************)
(* Proofs about Access, for any number of requests and any addresses.      *)
(***************************************************************************)
EXTENDS Access, TLAPS

Uses == {"submit", "logout", "create_key", "revoke"}
Endings == {"revoke", "logout"}
Final == {"ok", "refused", "failed"}

(* The phases of a request, by what it asks for. *)
Course(op) ==
  CASE op = "none" -> {"idle"}
    [] op \in {"password", "google"} ->
         Final \cup {"find", "create", "issue", "reject", "audit", "respond"}
    [] op = "submit" -> Final \cup {"authenticate", "touch"}
    [] op = "create_key" -> Final \cup {"authenticate", "touch", "insert", "audit"}
    [] op \in Endings -> Final \cup {"authenticate", "touch", "load", "end", "audit"}
    [] OTHER -> {"deactivate", "ok", "failed"}

HasJob(q) ==
  /\ job[q].op \in {"none", "password", "google", "deactivate"} \cup Uses
  /\ at[q] \in Course(job[q].op)
  /\ IsLogin(q) => /\ job[q].by \in {Anonymous("token"), Anonymous("session")}
                   /\ job[q].on \in Addresses
  /\ job[q].op \in Uses => job[q].by \in creds
  /\ job[q].op \in Endings => job[q].on \in creds
  /\ job[q].op = "revoke" => job[q].on.kind = "key"
  /\ job[q].op = "deactivate" => job[q].on \in DOMAIN address

Jobs == DOMAIN job = Requests /\ \A q \in Requests : HasJob(q)

(* Accounts: the two given ones are never removed, a request adds one at    *)
(* most, addresses are unique, and a login acts for the account of its     *)
(* address.                                                                *)
Accounts ==
  /\ {Root, Client} \subseteq DOMAIN address
  /\ \A q \in Requests : at[q] \in {"idle", "find", "create"} => q \notin DOMAIN address
  /\ \A a, b \in DOMAIN address : address[a] = address[b] => a = b
  /\ \A q \in Requests :
       /\ at[q] \in {"idle", "find", "create", "authenticate", "deactivate"} =>
            user[q] = None
       /\ at[q] \in {"issue", "respond"} => user[q] # None
       /\ at[q] = "audit" /\ IsLogin(q) => user[q] # None
       /\ IsLogin(q) /\ user[q] # None => address[user[q]] = job[q].on
       /\ job[q].op = "deactivate" => user[q] = None

(* What a request that was answered with success has done stays done. *)
Done ==
  /\ \A q \in Requests :
       job[q].op \in Endings /\ at[q] \in {"audit", "ok"} => job[q].on \in ended
  /\ \A q \in Requests :
       job[q].op = "deactivate" /\ at[q] = "ok" => job[q].on \notin active
  /\ \A p, q \in Requests : p \in before[q] => at[p] = "ok" /\ at[q] # "idle"

(* A session is stored by a request that is audited. *)
RespondsAudited == \A q \in Requests : at[q] = "respond" => q \in audited

(* What is ended is refused. *)
Refusals == RevokedKeyIsRefused /\ DeactivatedUserIsRefused /\ EndedIsNotEndedAgain

Inv ==
  /\ TypeOK /\ Jobs /\ Accounts /\ Done /\ RespondsAudited
  /\ Refusals /\ EffectIsAudited

-----------------------------------------------------------------------------
(* Before any request has come, the two given accounts satisfy the invariant. *)
LEMMA InvInit == Init => Inv
<1> SUFFICES ASSUME Init
             PROVE  Inv
  OBVIOUS
<1> USE NamesAssumption, NoneAssumption DEF Init, Job, Anonymous, Credential, Ids
<1>1. TypeOK
  BY DEF TypeOK, Phases
<1>2. Jobs
  BY DEF Jobs, HasJob, Course, Uses, Endings, IsLogin
<1>3. Accounts
  BY DEF Accounts
<1>4. Done /\ RespondsAudited
  BY DEF Done, RespondsAudited
<1>5. Refusals
  BY DEF Refusals, RevokedKeyIsRefused, DeactivatedUserIsRefused, EndedIsNotEndedAgain
<1>6. EffectIsAudited
  BY DEF EffectIsAudited
<1> QED BY <1>1, <1>2, <1>3, <1>4, <1>5, <1>6 DEF Inv

(* A new request asks for one of three kinds of things. *)
Received(q, j) ==
  \/ /\ at' = [at EXCEPT ![q] = "find"]
     /\ j.op \in {"password", "google"}
     /\ j.by \in {Anonymous("token"), Anonymous("session")} /\ j.on \in Addresses
  \/ /\ at' = [at EXCEPT ![q] = "authenticate"]
     /\ j.op \in Uses /\ j.by \in creds
     /\ j.op \in Endings => j.on \in creds
     /\ j.op = "revoke" => j.on.kind = "key"
  \/ /\ at' = [at EXCEPT ![q] = "deactivate"]
     /\ j.op = "deactivate" /\ j.on \in DOMAIN address /\ j.by = Anonymous("session")

(* The requests that Receive enumerates are of these kinds. *)
LEMMA ReceivedJob ==
  ASSUME Inv, NEW q \in Requests, Receive(q)
  PROVE  at[q] = "idle" /\ \E j : Received(q, j) /\ job' = [job EXCEPT ![q] = j]
<1>0. at[q] = "idle"
  BY DEF Receive, Begin, Move
<1>1. CASE Begin(q, Logins, "find")
  <2>1. PICK j \in Logins : job' = [job EXCEPT ![q] = j]
    BY <1>1 DEF Begin
  <2>2. /\ j.op \in {"password", "google"} /\ j.on \in Addresses
        /\ j.by \in {Anonymous("token"), Anonymous("session")}
    BY DEF Logins, Job
  <2> QED BY <1>1, <2>1, <2>2 DEF Begin, Move, Received
<1>2. CASE Begin(q, Authenticated, "authenticate")
  <2>1. PICK j \in Authenticated : job' = [job EXCEPT ![q] = j]
    BY <1>2 DEF Begin
  <2>2. j.op \in Uses /\ j.by \in creds
    <3>1. Held \subseteq creds
      BY DEF Held
    <3> QED BY <3>1 DEF Authenticated, Job, Uses
  <2>3. j.op \in Endings => j.on \in creds
    BY DEF Authenticated, Job, Keys, Tokens, Held, Endings
  <2>4. j.op = "revoke" => j.on.kind = "key"
    BY DEF Authenticated, Job, Keys
  <2> QED BY <1>2, <2>1, <2>2, <2>3, <2>4 DEF Begin, Move, Received
<1>3. CASE Begin(q, Deactivations, "deactivate")
  BY <1>3 DEF Begin, Move, Deactivations, Job, Received
<1> QED BY <1>1, <1>2, <1>3 DEF Receive

(* A request that comes has done nothing yet. *)
LEMMA ReceiveStep ==
  ASSUME Inv, NEW q \in Requests, Receive(q)
  PROVE  Inv'
<1> USE NamesAssumption, NoneAssumption DEF Inv, Move, store, IsLogin
<1>0. PICK j : Received(q, j) /\ at[q] = "idle" /\ job' = [job EXCEPT ![q] = j]
  BY ReceivedJob
<1>1. TypeOK'
  BY <1>0 DEF Receive, Received, TypeOK, Phases
<1>2. Jobs'
  <2> SUFFICES ASSUME NEW p \in Requests
               PROVE  HasJob(p)'
    BY <1>0 DEF Jobs
  <2>1. CASE p = q
    BY <1>0 DEF Received, Receive, Jobs, HasJob, TypeOK, Course, Uses, Endings
  <2>2. CASE p # q
    BY <1>0, <2>2 DEF Received, Receive, Jobs, HasJob, TypeOK
  <2> QED BY <2>1, <2>2
<1>3. Accounts'
  BY <1>0 DEF Receive, Received, Accounts, TypeOK
<1>4. Done' /\ RespondsAudited'
  BY <1>0 DEF Receive, Received, Done, RespondsAudited, TypeOK
<1>5. Refusals'
  <2>1. \A p \in Requests : p # q => job'[p] = job[p] /\ at'[p] = at[p]
    BY <1>0 DEF Received, TypeOK
  <2>2. RevokedKeyIsRefused'
    <3> SUFFICES ASSUME NEW p \in Requests, NEW r \in Requests,
                        job'[p].op = "revoke", p \in before'[r], job'[r].by = job'[p].on
                 PROVE  at'[r] \in {"authenticate", "refused", "failed"}
      BY DEF RevokedKeyIsRefused
    <3>1. p # q /\ job'[p] = job[p]
      BY <1>0 DEF Receive, Done
    <3>2. CASE r = q
      <4>1. job[p].on \in creds
        BY <3>1 DEF Jobs, HasJob, Endings
      <4>2. job[p].on.id # None
        BY <4>1 DEF TypeOK, Ids
      <4>3. j.by # Anonymous("token") /\ j.by # Anonymous("session")
        BY <1>0, <3>1, <3>2, <4>2 DEF Anonymous, Credential, Jobs
      <4> QED BY <1>0, <3>2, <4>3 DEF Received, TypeOK
    <3>3. CASE r # q
      BY <2>1, <3>1, <3>3 DEF Receive, Refusals, RevokedKeyIsRefused
    <3> QED BY <3>2, <3>3
  <2>3. DeactivatedUserIsRefused'
    <3> SUFFICES ASSUME NEW p \in Requests, NEW r \in Requests,
                        job'[p].op = "deactivate", p \in before'[r], user'[r] = job'[p].on
                 PROVE  DeactivatedUserIsRefused!(p, r)!2'
      BY DEF DeactivatedUserIsRefused
    <3>1. p # q /\ job'[p] = job[p] /\ user' = user
      BY <1>0 DEF Receive, Done
    <3>2. r # q
      <4>1. job[p].on # None
        BY <3>1 DEF Jobs, HasJob, TypeOK, Ids
      <4> QED BY <1>0, <3>1, <4>1 DEF Accounts
    <3> QED BY <2>1, <3>1, <3>2 DEF Receive, Refusals, DeactivatedUserIsRefused
  <2>4. EndedIsNotEndedAgain'
    BY <1>0 DEF Received, Receive, Refusals, EndedIsNotEndedAgain, Jobs, TypeOK, Done
  <2> QED BY <2>2, <2>3, <2>4 DEF Refusals
<1>6. EffectIsAudited'
  BY <1>0 DEF Receive, Received, EffectIsAudited, Jobs, HasJob, TypeOK, Course, Final
<1> QED BY <1>1, <1>2, <1>3, <1>4, <1>5, <1>6

(* A login finds the account of its address. *)
LEMMA CheckStep ==
  ASSUME Inv, NEW q \in Requests,
         CheckPassword(q) \/ RejectClaims(q) \/ RefuseClaims(q) \/ FindAccount(q)
  PROVE  Inv'
<1> USE NamesAssumption, NoneAssumption DEF Inv, Move, store, IsLogin
<1>1. TypeOK'
  BY DEF CheckPassword, RejectClaims, RefuseClaims, FindAccount, ActFor, AccountsOf,
         Issuing, TypeOK, Phases
<1>2. Jobs'
  BY DEF CheckPassword, RejectClaims, RefuseClaims, FindAccount, Issuing, Jobs, HasJob,
         TypeOK, Course, Final
<1>3. Accounts'
  <2>1. CASE CheckPassword(q)
    BY <2>1 DEF CheckPassword, Ids, ActFor, AccountsOf, Issuing, Accounts, TypeOK
  <2>2. CASE FindAccount(q)
    BY <2>2 DEF FindAccount, Ids, ActFor, AccountsOf, Issuing, Accounts, TypeOK
  <2>3. CASE RejectClaims(q) \/ RefuseClaims(q)
    BY <2>3 DEF RejectClaims, RefuseClaims, Accounts, TypeOK
  <2> QED BY <2>1, <2>2, <2>3
<1>4. Done' /\ RespondsAudited'
  BY DEF CheckPassword, RejectClaims, RefuseClaims, FindAccount, Issuing, Done,
         RespondsAudited, Jobs, HasJob, TypeOK, Course, Final
<1>5. Refusals'
  BY DEF CheckPassword, RejectClaims, RefuseClaims, FindAccount, ActFor, Refusals,
         RevokedKeyIsRefused, DeactivatedUserIsRefused, EndedIsNotEndedAgain, Done, TypeOK
<1>6. EffectIsAudited'
  BY DEF CheckPassword, RejectClaims, RefuseClaims, FindAccount, Issuing, EffectIsAudited,
         TypeOK
<1> QED BY <1>1, <1>2, <1>3, <1>4, <1>5, <1>6

(* The account is made only if no other has its address. *)
LEMMA CreateStep ==
  ASSUME Inv, NEW q \in Requests, CreateAccount(q)
  PROVE  Inv'
<1> USE NamesAssumption, NoneAssumption DEF Inv, Move, store, IsLogin
<1>1. TypeOK'
  <2>1. CASE UNCHANGED store
    BY <2>1 DEF CreateAccount, AddAccount, Accounts, TypeOK, Phases
  <2>2. CASE AddAccount(q) /\ Move(q, "create", Issuing(q))
    <3>1. DOMAIN address \subseteq DOMAIN address' /\ DOMAIN address' \subseteq Ids
      BY <2>2 DEF AddAccount, TypeOK, Ids
    <3>2. creds' \subseteq
            [kind : {"token", "session", "key"}, id : Ids, user : DOMAIN address']
      BY <2>2 DEF AddAccount, TypeOK
    <3>3. user' \in [Requests -> DOMAIN address' \cup {None}]
      BY <2>2 DEF AddAccount, ActFor, TypeOK
    <3>4. \A account \in DOMAIN address' :
            address'[account] \in Addresses \cup {Root, Client}
      BY <2>2 DEF AddAccount, Jobs, HasJob, TypeOK, Course, Final
    <3> QED BY <2>2, <3>1, <3>2, <3>3, <3>4 DEF AddAccount, Issuing, TypeOK, Phases
  <2> QED BY <2>1, <2>2 DEF CreateAccount
<1>2. Jobs'
  BY DEF CreateAccount, AddAccount, Issuing, Jobs, HasJob, TypeOK, Course,
         Final
<1>3. Accounts'
  BY DEF CreateAccount, AddAccount, ActFor, AccountsOf, Issuing, Accounts, Jobs, HasJob,
         TypeOK, Course, Final
<1>4. Done' /\ RespondsAudited'
  BY DEF CreateAccount, AddAccount, Issuing, Done, RespondsAudited, Accounts, Jobs,
         HasJob, TypeOK, Course, Final
<1>5. Refusals'
  BY DEF CreateAccount, AddAccount, ActFor, Issuing, Refusals, RevokedKeyIsRefused,
         DeactivatedUserIsRefused, EndedIsNotEndedAgain, Done, Accounts, Jobs, HasJob,
         TypeOK
<1>6. EffectIsAudited'
  BY DEF CreateAccount, AddAccount, Issuing, EffectIsAudited, TypeOK
<1> QED BY <1>1, <1>2, <1>3, <1>4, <1>5, <1>6

(* A token is stored for the account before anyone is told of it. *)
LEMMA IssueStep ==
  ASSUME Inv, NEW q \in Requests, Issue(q)
  PROVE  Inv'
<1> USE NamesAssumption, NoneAssumption DEF Inv, Move, store, IsLogin
<1>1. TypeOK'
  BY DEF Issue, Credential, TypeOK, Phases, Ids, Accounts
<1>2. Jobs'
  BY DEF Issue, Jobs, HasJob, Course, Final
<1>3. Accounts'
  BY DEF Issue, Accounts
<1>4. Done' /\ RespondsAudited'
  BY DEF Issue, Done, RespondsAudited, Jobs, HasJob, Course, Final
<1>5. Refusals'
  BY DEF Issue, Refusals, RevokedKeyIsRefused, DeactivatedUserIsRefused,
         EndedIsNotEndedAgain
<1>6. EffectIsAudited'
  BY DEF Issue, Credential, EffectIsAudited, TypeOK
<1> QED BY <1>1, <1>2, <1>3, <1>4, <1>5, <1>6

(* A refused login is audited. *)
LEMMA RejectStep ==
  ASSUME Inv, NEW q \in Requests, Reject(q)
  PROVE  Inv'
<1> USE NamesAssumption, NoneAssumption DEF Inv, Move, store, IsLogin
<1>1. TypeOK'
  BY DEF Reject, TypeOK, Phases
<1>2. Jobs'
  BY DEF Reject, Jobs, HasJob, Course, Final
<1>3. Accounts'
  BY DEF Reject, Accounts
<1>4. Done' /\ RespondsAudited'
  BY DEF Reject, Done, RespondsAudited
<1>5. Refusals'
  BY DEF Reject, Refusals, RevokedKeyIsRefused, DeactivatedUserIsRefused,
         EndedIsNotEndedAgain
<1>6. EffectIsAudited'
  BY DEF Reject, EffectIsAudited
<1> QED BY <1>1, <1>2, <1>3, <1>4, <1>5, <1>6

(* A session is stored by a request whose audit row is written. *)
LEMMA RespondStep ==
  ASSUME Inv, NEW q \in Requests, StoreSession(q)
  PROVE  Inv'
<1> USE NamesAssumption, NoneAssumption DEF Inv, Move, store, IsLogin
<1>1. TypeOK'
  BY DEF StoreSession, Credential, TypeOK, Phases, Ids, Accounts
<1>2. Jobs'
  BY DEF StoreSession, Jobs, HasJob, Course, Final
<1>3. Accounts'
  BY DEF StoreSession, Accounts
<1>4. Done' /\ RespondsAudited'
  BY DEF StoreSession, Done, RespondsAudited, Jobs, HasJob, Course, Final
<1>5. Refusals'
  BY DEF StoreSession, Refusals, RevokedKeyIsRefused, DeactivatedUserIsRefused,
         EndedIsNotEndedAgain
<1>6. EffectIsAudited'
  BY DEF StoreSession, Credential, EffectIsAudited, RespondsAudited
<1> QED BY <1>1, <1>2, <1>3, <1>4, <1>5, <1>6

(* What a credential is worth is settled here: by the user's row for a token or
   a session, by the key's own row for a key. *)
LEMMA AuthenticateStep ==
  ASSUME Inv, NEW q \in Requests, AuthenticateUser(q) \/ LookupKey(q) \/ TouchKey(q)
  PROVE  Inv'
<1> USE NamesAssumption, NoneAssumption DEF Inv, Move, store, IsLogin
<1>1. TypeOK'
  BY DEF AuthenticateUser, LookupKey, TouchKey, ActFor, ViewOf, TypeOK, Phases, Jobs,
         HasJob, Course, Final, Endings
<1>2. Jobs'
  BY DEF AuthenticateUser, LookupKey, TouchKey, ViewOf, Jobs, HasJob, TypeOK,
         Course, Final, Endings
<1>3. Accounts'
  BY DEF AuthenticateUser, LookupKey, TouchKey, ActFor, ViewOf, Accounts, Jobs, HasJob,
         TypeOK, Course, Final, Endings
<1>4. Done' /\ RespondsAudited'
  BY DEF AuthenticateUser, LookupKey, TouchKey, ViewOf, Done, RespondsAudited, TypeOK,
         Endings
<1>5. Refusals'
  BY DEF AuthenticateUser, LookupKey, TouchKey, ActFor, ViewOf, Refusals,
         RevokedKeyIsRefused, DeactivatedUserIsRefused, EndedIsNotEndedAgain, Done,
         Accounts, Jobs, HasJob, TypeOK, Course, Final, Endings
<1>6. EffectIsAudited'
  BY DEF AuthenticateUser, LookupKey, TouchKey, ViewOf, EffectIsAudited, TypeOK
<1> QED BY <1>1, <1>2, <1>3, <1>4, <1>5, <1>6

(* A new key is stored before its audit row. *)
LEMMA InsertKeyStep ==
  ASSUME Inv, NEW q \in Requests, InsertKey(q)
  PROVE  Inv'
<1> USE NamesAssumption, NoneAssumption DEF Inv, Move, store, IsLogin
<1>1. TypeOK'
  BY DEF InsertKey, Credential, TypeOK, Phases, Ids, Accounts
<1>2. Jobs'
  BY DEF InsertKey, Jobs, HasJob, Course, Final
<1>3. Accounts'
  BY DEF InsertKey, Accounts, Jobs, HasJob, Course, Final
<1>4. Done' /\ RespondsAudited'
  BY DEF InsertKey, Done, RespondsAudited, Jobs, HasJob, Course, Final
<1>5. Refusals'
  BY DEF InsertKey, Refusals, RevokedKeyIsRefused, DeactivatedUserIsRefused,
         EndedIsNotEndedAgain
<1>6. EffectIsAudited'
  BY DEF InsertKey, Credential, EffectIsAudited, TypeOK
<1> QED BY <1>1, <1>2, <1>3, <1>4, <1>5, <1>6

(* A credential that has been ended is not ended again by a later request. *)
LEMMA LoadStep ==
  ASSUME Inv, NEW q \in Requests, LoadTarget(q)
  PROVE  Inv'
<1> USE NamesAssumption, NoneAssumption DEF Inv, Move, store, IsLogin
<1>1. TypeOK'
  BY DEF LoadTarget, TypeOK, Phases
<1>2. Jobs'
  BY DEF LoadTarget, Jobs, HasJob, Course, Final
<1>3. Accounts'
  BY DEF LoadTarget, Accounts
<1>4. Done' /\ RespondsAudited'
  BY DEF LoadTarget, Done, RespondsAudited
<1>5. Refusals'
  <2>1. RevokedKeyIsRefused' /\ DeactivatedUserIsRefused'
    BY DEF LoadTarget, Refusals, RevokedKeyIsRefused, DeactivatedUserIsRefused, Jobs,
           HasJob, Course
  <2>2. EndedIsNotEndedAgain'
    <3> SUFFICES ASSUME NEW p \in Requests, NEW r \in Requests, p \in before[r],
                        job[p].op \in Endings, job[r].op \in Endings,
                        job[p].on = job[r].on
                 PROVE  at'[r] \in {"authenticate", "touch", "load", "refused", "failed"}
      BY DEF LoadTarget, EndedIsNotEndedAgain, Endings
    <3>1. CASE r = q
      <4>1. job[q].on \in ended
        BY <3>1 DEF Done
      <4> QED BY <3>1, <4>1 DEF LoadTarget, TypeOK
    <3>2. CASE r # q
      BY <3>2 DEF LoadTarget, Refusals, EndedIsNotEndedAgain, Endings, TypeOK
    <3> QED BY <3>1, <3>2
  <2> QED BY <2>1, <2>2 DEF Refusals
<1>6. EffectIsAudited'
  BY DEF LoadTarget, EffectIsAudited
<1> QED BY <1>1, <1>2, <1>3, <1>4, <1>5, <1>6

(* Ending a credential is stored before its audit row; nothing revives it. *)
LEMMA EndStep ==
  ASSUME Inv, NEW q \in Requests, End(q)
  PROVE  Inv'
<1> USE NamesAssumption, NoneAssumption DEF Inv, Move, store, IsLogin
<1>1. TypeOK'
  BY DEF End, TypeOK, Phases, Jobs, HasJob, Course, Final
<1>2. Jobs'
  BY DEF End, Jobs, HasJob, Course, Final
<1>3. Accounts'
  BY DEF End, Accounts, Jobs, HasJob, Course, Final, Endings
<1>4. Done' /\ RespondsAudited'
  BY DEF End, Done, RespondsAudited
<1>5. Refusals'
  BY DEF End, Refusals, RevokedKeyIsRefused, DeactivatedUserIsRefused, EndedIsNotEndedAgain
<1>6. EffectIsAudited'
  BY DEF End, EffectIsAudited, Jobs, HasJob, TypeOK, Course, Final, Endings
<1> QED BY <1>1, <1>2, <1>3, <1>4, <1>5, <1>6

(* A success is answered, or a session stored, only after its audit row. *)
LEMMA AuditStep ==
  ASSUME Inv, NEW q \in Requests, Audit(q)
  PROVE  Inv'
<1> USE NamesAssumption, NoneAssumption DEF Inv, Move, store, IsLogin
<1>1. TypeOK'
  BY DEF Audit, TypeOK, Phases
<1>2. Jobs'
  BY DEF Audit, Jobs, HasJob, Course, Final, Endings
<1>3. Accounts'
  BY DEF Audit, Accounts
<1>4. Done' /\ RespondsAudited'
  BY DEF Audit, Done, RespondsAudited, Jobs, HasJob, Course, Endings
<1>5. Refusals'
  BY DEF Audit, Refusals, RevokedKeyIsRefused, DeactivatedUserIsRefused,
         EndedIsNotEndedAgain
<1>6. EffectIsAudited'
  BY DEF Audit, EffectIsAudited
<1> QED BY <1>1, <1>2, <1>3, <1>4, <1>5, <1>6

(* No step makes an account active that existed before. *)
LEMMA DeactivateStep ==
  ASSUME Inv, NEW q \in Requests, Deactivate(q)
  PROVE  Inv'
<1> USE NamesAssumption, NoneAssumption DEF Inv, Move, store, IsLogin
<1>1. TypeOK'
  BY DEF Deactivate, TypeOK, Phases
<1>2. Jobs'
  BY DEF Deactivate, Jobs, HasJob, Course, Final
<1>3. Accounts'
  BY DEF Deactivate, Accounts
<1>4. Done' /\ RespondsAudited'
  BY DEF Deactivate, Done, RespondsAudited, Jobs, HasJob, Course, Final
<1>5. Refusals'
  BY DEF Deactivate, Refusals, RevokedKeyIsRefused, DeactivatedUserIsRefused,
         EndedIsNotEndedAgain
<1>6. EffectIsAudited'
  BY DEF Deactivate, EffectIsAudited, Jobs, HasJob, Course, Final, Uses, Endings
<1> QED BY <1>1, <1>2, <1>3, <1>4, <1>5, <1>6

(* A request that fails leaves what it has committed. *)
LEMMA FailStep ==
  ASSUME Inv, NEW q \in Requests, Fail(q)
  PROVE  Inv'
<1> USE NamesAssumption, NoneAssumption DEF Inv, Move, store, IsLogin
<1>1. TypeOK'
  BY DEF Fail, TypeOK, Phases
<1>2. Jobs'
  BY DEF Fail, Jobs, HasJob, Course, Final
<1>3. Accounts'
  BY DEF Fail, Accounts
<1>4. Done' /\ RespondsAudited'
  BY DEF Fail, Done, RespondsAudited
<1>5. Refusals'
  BY DEF Fail, Refusals, RevokedKeyIsRefused, DeactivatedUserIsRefused, EndedIsNotEndedAgain
<1>6. EffectIsAudited'
  BY DEF Fail, EffectIsAudited
<1> QED BY <1>1, <1>2, <1>3, <1>4, <1>5, <1>6

(* Each step of a request keeps the invariant, whatever the others do. *)
LEMMA InvStep == Inv /\ [Next]_vars => Inv'
<1> SUFFICES ASSUME Inv, [Next]_vars
             PROVE  Inv'
  OBVIOUS
<1>1. CASE Next
  <2> PICK q \in Requests : Next!(q)
    BY <1>1 DEF Next
  <2> QED
    BY ReceiveStep, CheckStep, CreateStep, IssueStep, RejectStep, RespondStep,
       AuthenticateStep, InsertKeyStep, LoadStep, EndStep, AuditStep, DeactivateStep,
       FailStep
<1>2. CASE UNCHANGED vars
  <2> USE <1>2 DEF vars, Inv, store
  <2>1. TypeOK' /\ Jobs' /\ Accounts'
    BY DEF TypeOK, Jobs, HasJob, IsLogin, Accounts
  <2>2. Done' /\ RespondsAudited' /\ Refusals'
    BY DEF Done, RespondsAudited, Refusals, RevokedKeyIsRefused, DeactivatedUserIsRefused,
           EndedIsNotEndedAgain, IsLogin
  <2>3. EffectIsAudited'
    BY DEF EffectIsAudited
  <2> QED BY <2>1, <2>2, <2>3
<1> QED BY <1>1, <1>2

LEMMA Invariance == Spec => []Inv
BY InvInit, InvStep, PTL DEF Spec

-----------------------------------------------------------------------------
(* The types of Access, for any requests and addresses. *)
THEOREM TypesOfAccess == Spec => []TypeOK
<1>1. Inv => TypeOK
  BY DEF Inv
<1> QED BY <1>1, Invariance, PTL

(* Once the revocation of a key is answered, no later request with the key   *)
(* gets past its authentication, although requests that read the key before *)
(* may still save it: they save last_used_at alone.                        *)
THEOREM RevocationIsFinal == Spec => []RevokedKeyIsRefused
<1>1. Inv => RevokedKeyIsRefused
  BY DEF Inv, Refusals
<1> QED BY <1>1, Invariance, PTL

(* Once an account is deactivated, none of its tokens and sessions is        *)
(* accepted and no login made, not even with a token issued by a login that *)
(* overlapped the deactivation: every request reads the user's row.        *)
THEOREM DeactivationIsFinal == Spec => []DeactivatedUserIsRefused
<1>1. Inv => DeactivatedUserIsRefused
  BY DEF Inv, Refusals
<1> QED BY <1>1, Invariance, PTL

(* A credential that is known to be ended is not ended again: a refresh       *)
(* token is not accepted once its logout is answered, and of two            *)
(* revocations of a key that both succeed neither came after the other.     *)
THEOREM EndingIsFinal == Spec => []EndedIsNotEndedAgain
<1>1. Inv => EndedIsNotEndedAgain
  BY DEF Inv, Refusals
<1> QED BY <1>1, Invariance, PTL

(* However many first logins with one address overlap, they act for one      *)
(* account: an account is added only under an address that no other has.   *)
THEOREM LoginsShareTheAccount == Spec => []OneAccountPerAddress
<1>1. Inv => OneAccountPerAddress
  BY DEF Inv, TypeOK, Accounts, OneAccountPerAddress
<1> QED BY <1>1, Invariance, PTL

(* No client is told of a success whose audit row is missing, and what is    *)
(* stored without its row belongs to a request that is about to write it or *)
(* has failed.                                                             *)
THEOREM AuditPrecedesAnswer == Spec => []EffectIsAudited
<1>1. Inv => EffectIsAudited
  BY DEF Inv
<1> QED BY <1>1, Invariance, PTL
=============================================================================
