------------------------------- MODULE Access -------------------------------
(***************************************************************************)
(* Accounts, logins, API keys and permissions: how requests obtain         *)
(* credentials, use them, and end them.                                    *)
(* Every statement is a commit of its own; there is no transaction around  *)
(* a request.  The id of what a request creates (an account, a token, a    *)
(* session, a key) is the request.                                         *)
(*                                                                         *)
(* A credential is a pair of JSON web tokens, a session or an API key.     *)
(* Tokens expire and keys do not; time is left out, so that what is        *)
(* refused here is refused for the reasons below.  An address is what      *)
(* normalize_email makes of it.                                            *)
(***************************************************************************)
EXTENDS Naturals, FiniteSets

CONSTANTS
  Requests,   \* the HTTP requests
  Root,       \* the first account, an administrator that holds a token
  Client,     \* an api_client account that holds an API key
  Addresses,  \* the addresses of logins; Root and Client are also addresses
  None        \* no account, no credential

ASSUME NamesAssumption == Root # Client /\ {Root, Client} \cap Requests = {}
ASSUME NoneAssumption == None \notin Requests \cup {Root, Client}

VARIABLES
  at,         \* where each request is
  job,        \* what it asks for
  user,       \* the account it acts for
  address,    \* auth_user: the address of each account
  active,     \* the accounts whose is_active is set
  creds,      \* the stored credentials: outstanding tokens, sessions, API keys
  ended,      \* those whose key is revoked or whose refresh token blacklisted
  audited,    \* the requests whose audit row is written
  before      \* history: the requests that had succeeded when each one came

store == <<address, active, creds, ended>>
vars  == <<at, job, user, address, active, creds, ended, audited, before>>

Ids == Requests \cup {Root, Client}

Role(account) ==
  IF account = Root THEN "admin" ELSE IF account = Client THEN "api_client" ELSE "analyst"

Credential(kind, id, account) == [kind |-> kind, id |-> id, user |-> account]
Anonymous(kind) == Credential(kind, None, None)
Job(op, by, on) == [op |-> op, by |-> by, on |-> on]

Init ==
  /\ at = [q \in Requests |-> "idle"]
  /\ job = [q \in Requests |-> Job("none", Anonymous("none"), None)]
  /\ user = [q \in Requests |-> None]
  /\ address = [account \in {Root, Client} |-> account]
  /\ active = {Root, Client}
  /\ creds = {Credential("token", Root, Root), Credential("key", Client, Client)}
  /\ ended = {} /\ audited = {}
  /\ before = [q \in Requests |-> {}]

-----------------------------------------------------------------------------
Move(q, from, to) == at[q] = from /\ at' = [at EXCEPT ![q] = to]

(* The credentials that clients have been given. *)
Held == {c \in creds : c.id \in {Root, Client} \/ at[c.id] = "ok"}
Keys(set) == {c \in set : c.kind = "key"}
Tokens(set) == {c \in set : c.kind = "token"}

(* A login asks for tokens (the API) or a session (the browser); the admin  *)
(* site is here only to deactivate accounts.                               *)
Logins == {Job(how, Anonymous(kind), a) : how \in {"password", "google"},
                                          kind \in {"token", "session"}, a \in Addresses}
Authenticated ==
  {Job("submit", c, None) : c \in Held}
    \cup {Job("logout", c, t) : c \in {d \in Held : d.kind # "session"}, t \in Tokens(Held)}
    \cup {Job("create_key", c, None) : c \in Held}
    \cup {Job("revoke", c, k) : c \in Held, k \in Keys(creds)}
Deactivations ==
  {Job("deactivate", Anonymous("session"), account) : account \in DOMAIN address}

IsLogin(q) == job[q].op \in {"password", "google"}

Begin(q, jobs, to) ==
  /\ Move(q, "idle", to)
  /\ \E j \in jobs : job' = [job EXCEPT ![q] = j]

Receive(q) ==
  /\ \/ Begin(q, Logins, "find")
     \/ Begin(q, Authenticated, "authenticate")
     \/ Begin(q, Deactivations, "deactivate")
  /\ before' = [before EXCEPT ![q] = {p \in Requests : at[p] = "ok"}]
  /\ UNCHANGED <<user, store, audited>>

-----------------------------------------------------------------------------
(* The account of the address, if it has one. *)
AccountsOf(a) == {account \in DOMAIN address : address[account] = a}

(* What follows the check of the account: RefreshToken.for_user stores the  *)
(* token before the audit row; a session is stored with the response.      *)
Issuing(q) == IF job[q].by.kind = "token" THEN "issue" ELSE "audit"
ActFor(q, account) == user' = [user EXCEPT ![q] = account]

(* authenticate() returns the account of the address if the password is     *)
(* right and the account active.                                           *)
CheckPassword(q) ==
  /\ job[q].op = "password"
  /\ \/ Move(q, "find", "reject") /\ UNCHANGED user
     \/ \E account \in AccountsOf(job[q].on) \cap active :
          Move(q, "find", Issuing(q)) /\ ActFor(q, account)
  /\ UNCHANGED <<job, store, audited, before>>

(* verify_google_id_token refuses the token, or the address is missing or    *)
(* not verified; the API audits that.                                      *)
RejectClaims(q) ==
  /\ job[q].op = "google"
  /\ Move(q, "find", "reject")
  /\ UNCHANGED <<job, user, store, audited, before>>

(* The browser view audits only a token that is not valid: without a         *)
(* credential or a verified address it answers at once.                    *)
RefuseClaims(q) ==
  /\ job[q].op = "google" /\ job[q].by.kind = "session"
  /\ Move(q, "find", "refused")
  /\ UNCHANGED <<job, user, store, audited, before>>

(* user_for_google_oauth_email: get, otherwise create. *)
FindAccount(q) ==
  /\ job[q].op = "google"
  /\ \/ \E account \in AccountsOf(job[q].on) :
          /\ Move(q, "find", IF account \in active THEN Issuing(q) ELSE "reject")
          /\ ActFor(q, account)
     \/ AccountsOf(job[q].on) = {} /\ Move(q, "find", "create") /\ UNCHANGED user
  /\ UNCHANGED <<job, store, audited, before>>

AddAccount(q) ==
  /\ address' = [account \in DOMAIN address \cup {q} |->
                   IF account = q THEN job[q].on ELSE address[account]]
  /\ active' = active \cup {q}
  /\ ActFor(q, q)
  /\ UNCHANGED <<job, creds, ended, audited, before>>

(* Bug variant: the address is not unique. *)
CreateAnyAccount(q) == Move(q, "create", Issuing(q)) /\ AddAccount(q)

(* The address is unique: a request that loses the race to create the       *)
(* account gets IntegrityError and is answered 500.                        *)
CreateAccount(q) ==
  \/ AccountsOf(job[q].on) = {} /\ Move(q, "create", Issuing(q)) /\ AddAccount(q)
  \/ /\ AccountsOf(job[q].on) # {} /\ Move(q, "create", "failed")
     /\ UNCHANGED <<job, user, store, audited, before>>

(* Bug variant: the token is made for the address instead of the account. *)
IssueForAddress(q) ==
  /\ Move(q, "issue", "audit")
  /\ creds' = creds \cup {Credential("token", q, job[q].on)}
  /\ UNCHANGED <<job, user, address, active, ended, audited, before>>

Issue(q) ==
  /\ Move(q, "issue", "audit")
  /\ creds' = creds \cup {Credential("token", q, user[q])}
  /\ UNCHANGED <<job, user, address, active, ended, audited, before>>

Reject(q) ==
  /\ Move(q, "reject", "refused")
  /\ audited' = audited \cup {q}
  /\ UNCHANGED <<job, user, store, before>>

(* SessionMiddleware saves the session unless the response is an error. *)
StoreSession(q) ==
  /\ Move(q, "respond", "ok")
  /\ creds' = creds \cup {Credential("session", q, user[q])}
  /\ UNCHANGED <<job, user, address, active, ended, audited, before>>

-----------------------------------------------------------------------------
(* The permission classes of the views. *)
CanSubmitApplication(role) == role \in {"admin", "analyst", "api_client"}
CanManageApiKeys(role)     == role = "admin"

Permitted(q) ==
  LET role == Role(job[q].by.user)
  IN /\ job[q].op = "submit" => CanSubmitApplication(role)
     /\ job[q].op \in {"create_key", "revoke"} => CanManageApiKeys(role)

(* Where the view of a request begins.  A submission, whose steps are those  *)
(* of module Intake, stands for what an authenticated request may do.      *)
ViewOf(q) ==
  IF ~Permitted(q) THEN "refused"
  ELSE CASE job[q].op = "submit"     -> "ok"
         [] job[q].op = "create_key" -> "insert"
         [] OTHER                    -> "load"

(* Bug variant: the claims of the token are trusted without the user's row. *)
AuthenticateByClaims(q) ==
  /\ job[q].by.kind # "key"
  /\ Move(q, "authenticate", ViewOf(q))
  /\ ActFor(q, job[q].by.user)
  /\ UNCHANGED <<job, store, audited, before>>

(* JWTAuthentication and ModelBackend read the user and require is_active.  *)
(* A refresh token on the blacklist does not end its access token.         *)
AuthenticateUser(q) ==
  /\ job[q].by.kind # "key"
  /\ Move(q, "authenticate", IF job[q].by.user \in active THEN ViewOf(q) ELSE "refused")
  /\ ActFor(q, job[q].by.user)
  /\ UNCHANGED <<job, store, audited, before>>

(* Of an API key its own row counts: the candidates are not revoked. *)
LookupKey(q) ==
  /\ job[q].by.kind = "key"
  /\ Move(q, "authenticate", IF job[q].by \in ended THEN "refused" ELSE "touch")
  /\ ActFor(q, job[q].by.user)
  /\ UNCHANGED <<job, store, audited, before>>

(* Bug variant: all fields of the key are saved, revoked_at as it was read. *)
TouchSavingAll(q) ==
  /\ Move(q, "touch", ViewOf(q))
  /\ ended' = ended \ {job[q].by}
  /\ UNCHANGED <<job, user, address, active, creds, audited, before>>

(* last_used_at alone is saved; it is not part of the model. *)
TouchKey(q) ==
  /\ Move(q, "touch", ViewOf(q))
  /\ UNCHANGED <<job, user, store, audited, before>>

-----------------------------------------------------------------------------
InsertKey(q) ==
  /\ Move(q, "insert", "audit")
  /\ creds' = creds \cup {Credential("key", q, Client)}
  /\ UNCHANGED <<job, user, address, active, ended, audited, before>>

(* Bug variant: the blacklist is not looked at, nor revoked_at. *)
LoadUnchecked(q) ==
  /\ Move(q, "load", "end")
  /\ UNCHANGED <<job, user, store, audited, before>>

(* A key is revoked, a refresh token blacklisted: the request is refused if *)
(* that has been done before (400, 401).                                   *)
LoadTarget(q) ==
  /\ Move(q, "load", IF job[q].on \in ended THEN "refused" ELSE "end")
  /\ UNCHANGED <<job, user, store, audited, before>>

(* Bug variant: the response is sent without an audit row. *)
EndUnaudited(q) ==
  /\ Move(q, "end", "ok")
  /\ ended' = ended \cup {job[q].on}
  /\ UNCHANGED <<job, user, address, active, creds, audited, before>>

(* key.save(update_fields = ["revoked_at"]), or get_or_create of the        *)
(* BlacklistedToken; another request may have done it since.               *)
End(q) ==
  /\ Move(q, "end", "audit")
  /\ ended' = ended \cup {job[q].on}
  /\ UNCHANGED <<job, user, address, active, creds, audited, before>>

(* AuditService.record of a success. *)
Audit(q) ==
  /\ Move(q, "audit", IF IsLogin(q) /\ job[q].by.kind = "session" THEN "respond" ELSE "ok")
  /\ audited' = audited \cup {q}
  /\ UNCHANGED <<job, user, store, before>>

Deactivate(q) ==
  /\ Move(q, "deactivate", "ok")
  /\ active' = active \ {job[q].on}
  /\ UNCHANGED <<job, user, address, creds, ended, audited, before>>

-----------------------------------------------------------------------------
(* A statement raises or the web process is killed.  What is committed       *)
(* stays; a commit whose acknowledgement is lost is a step before this.    *)
Fail(q) ==
  /\ at[q] \notin {"idle", "ok", "refused", "failed"}
  /\ at' = [at EXCEPT ![q] = "failed"]
  /\ UNCHANGED <<job, user, store, audited, before>>

Next ==
  \E q \in Requests :
    \/ Receive(q)
    \/ CheckPassword(q) \/ RejectClaims(q) \/ RefuseClaims(q)
    \/ FindAccount(q) \/ CreateAccount(q) \/ Issue(q) \/ Reject(q) \/ StoreSession(q)
    \/ AuthenticateUser(q) \/ LookupKey(q) \/ TouchKey(q)
    \/ InsertKey(q) \/ LoadTarget(q) \/ End(q) \/ Audit(q)
    \/ Deactivate(q) \/ Fail(q)

Spec == Init /\ [][Next]_vars

-----------------------------------------------------------------------------
Phases == {"idle", "find", "create", "issue", "reject", "respond", "authenticate", "touch",
           "insert", "load", "end", "audit", "deactivate", "ok", "refused", "failed"}

TypeOK ==
  /\ at \in [Requests -> Phases]
  /\ user \in [Requests -> DOMAIN address \cup {None}]
  /\ DOMAIN address \subseteq Ids
  /\ \A account \in DOMAIN address : address[account] \in Addresses \cup {Root, Client}
  /\ active \subseteq DOMAIN address
  /\ creds \subseteq [kind : {"token", "session", "key"}, id : Ids, user : DOMAIN address]
  /\ ended \subseteq creds
  /\ audited \subseteq Requests
  /\ before \in [Requests -> SUBSET Requests]

(* A request with a key that comes after a revocation of that key was        *)
(* confirmed is refused, even if other requests had read the key before it  *)
(* was revoked and save it afterwards.                                     *)
RevokedKeyIsRefused ==
  \A p, q \in Requests :
    job[p].op = "revoke" /\ p \in before[q] /\ job[q].by = job[p].on
      => at[q] \in {"authenticate", "refused", "failed"}

(* Once an account is deactivated, no later request with its tokens or       *)
(* sessions is authenticated and no later login succeeds, whenever those    *)
(* tokens were issued, also by logins that overlapped the deactivation.    *)
DeactivatedUserIsRefused ==
  \A p, q \in Requests :
    job[p].op = "deactivate" /\ p \in before[q] /\ user[q] = job[p].on
      => \/ at[q] \in {"reject", "refused", "failed"}
         \/ ~IsLogin(q) /\ job[q].by.kind = "key"

(* A credential is not ended again once a client has been told that it is:    *)
(* a later logout with a blacklisted refresh token, or a later revocation   *)
(* of a revoked key, is refused.  The checks are made before the credential *)
(* is ended and by different statements, so that two requests that overlap  *)
(* may both succeed; never two that follow one another.                     *)
EndedIsNotEndedAgain ==
  \A p, q \in Requests :
    /\ job[p].op \in {"logout", "revoke"} /\ job[q].op \in {"logout", "revoke"}
    /\ p \in before[q] /\ job[p].on = job[q].on
    => at[q] \in {"authenticate", "touch", "load", "refused", "failed"}

(* Concurrent first logins with one Google address make one account, and    *)
(* all that succeed act for it.                                            *)
OneAccountPerAddress ==
  \A p, q \in Requests :
    /\ IsLogin(p) /\ IsLogin(q) /\ user[p] # None /\ user[q] # None
    /\ job[p].on = job[q].on
    => user[p] = user[q]

(* The audit row comes after the credential or the end of one, as another    *)
(* commit, but before the answer: what is stored without it belongs to a    *)
(* request that is about to write it or has failed, and no client knows of *)
(* a success that is not audited.  A session is not even stored.           *)
EffectIsAudited ==
  LET pending == {q \in Requests : at[q] \in {"audit", "failed"}}
  IN /\ \A c \in creds :
          c.id \in {Root, Client} \cup audited \/ (c.id \in pending /\ c.kind # "session")
     /\ \A c \in ended :
          \E q \in audited \cup pending : job[q].op \in {"revoke", "logout"} /\ job[q].on = c
     /\ \A q \in Requests :
          at[q] = "ok" => q \in audited \/ job[q].op \in {"submit", "deactivate"}
=============================================================================
