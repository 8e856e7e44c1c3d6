----------------------------- MODULE PolicyTable -----------------------------
(***************************************************************************)
(* The policy_rule table while administrators create, update and delete    *)
(* rules (PolicyRuleViewSet), seed_policy_rules runs, perhaps several at   *)
(* once, and evaluate_rules reads it.  There is no transaction around a    *)
(* request: the change of the rule and its audit row are two commits.  Of  *)
(* the seed command every update_or_create is a transaction of its own,    *)
(* and it writes no audit row.                                             *)
(***************************************************************************)
EXTENDS PolicyRules

CONSTANTS
  Requests,    \* the requests of administrators
  Seeds,       \* the runs of seed_policy_rules
  None,        \* no rule
  RequestIds,  \* the ids of the rules that requests create
  SeedIds,     \* the ids of the rules that seeds create
  Defaults,    \* the rules that a seed puts into the table, a sequence
  Additions,   \* the rules that requests may create
  Patches,     \* the changes that requests may ask for: fields with values
  Contexts     \* the applications that may be evaluated

ASSUME ProcessAssumption == Requests \cap Seeds = {}

(* Random UUIDs: a seed does not make the id of a request's rule. *)
ASSUME IdsAssumption ==
  RequestIds \cup SeedIds \subseteq Nat /\ RequestIds \cap SeedIds = {}

(* What the serializer and the columns accept; the id is read-only. *)
ASSUME RulesAssumption ==
  \A rule \in Additions \cup {Defaults[k] : k \in DOMAIN Defaults} :
    rule.priority \in Int /\ rule.outcome \in Outcomes
ASSUME PatchesAssumption ==
  \A patch \in Patches :
    /\ "id" \notin DOMAIN patch
    /\ "priority" \in DOMAIN patch => patch.priority \in Int
    /\ "outcome" \in DOMAIN patch => patch.outcome \in Outcomes

(* The names of the defaults tell them apart. *)
ASSUME DefaultsAssumption ==
  /\ Len(Defaults) \in Nat \ {0} /\ DOMAIN Defaults = 1 .. Len(Defaults)
  /\ \A j, k \in DOMAIN Defaults : Defaults[j].name = Defaults[k].name => j = k

VARIABLES
  rules,      \* the table, a set of rows
  used,       \* the ids that rows have had
  audited,    \* the audit rows: pairs of an event and the id of a rule
  at,         \* where each request and each seed is
  op,         \* the event of each request
  held,       \* the PolicyRule instance in each request's memory
  row,        \* the index of the default that each seed is at
  overtaken   \* history: the seeds during which a request has written

table == <<rules, used, overtaken>>
vars  == <<rules, used, audited, at, op, held, row, overtaken>>

Processes == Requests \cup Seeds

Init ==
  /\ rules = {} /\ used = {} /\ audited = {} /\ overtaken = {}
  /\ at = [p \in Processes |-> "idle"]
  /\ op = [q \in Requests |-> "none"]
  /\ held = [q \in Requests |-> None]
  /\ row = [s \in Seeds |-> 1]

-----------------------------------------------------------------------------
Move(p, from, to) == at[p] = from /\ at' = [at EXCEPT ![p] = to]

IdsOf(rows) == {r.id : r \in rows}
HeldIds     == IdsOf({held[q] : q \in {p \in Requests : op[p] # "none"}})
Except(id)  == {r \in rules : r.id # id}

(* A request commits a change of the table. *)
Write(rows) ==
  /\ rules' = rows
  /\ used' = used \cup IdsOf(rows)
  /\ overtaken' = overtaken \cup {s \in Seeds : at[s] \in {"get", "create"}}

(* What a request has in memory before its first commit. *)
Begin(q, event, to, instance) ==
  /\ Move(q, "idle", to)
  /\ op' = [op EXCEPT ![q] = event]
  /\ held' = [held EXCEPT ![q] = instance]
  /\ UNCHANGED <<table, audited, row>>

Create(q) ==
  \E rule \in Additions, id \in RequestIds \ (used \cup HeldIds) :
    Begin(q, "created", "save", Row(id, rule))

(* get_object, then the serializer sets the fields of the request. *)
Patched(r, patch) ==
  [field \in DOMAIN r |-> IF field \in DOMAIN patch THEN patch[field] ELSE r[field]]

Update(q) ==
  \E r \in rules, patch \in Patches : Begin(q, "updated", "save", Patched(r, patch))

Destroy(q) == \E r \in rules : Begin(q, "deleted", "audit", r)

(* Bug variant: the instance is saved beside the row it was read from. *)
SaveBeside(q) ==
  /\ Move(q, "save", "audit")
  /\ Write(rules \cup {held[q]})
  /\ UNCHANGED <<audited, op, held, row>>

(* serializer.save() writes every field of the instance.  A row that has    *)
(* been deleted in the meantime is inserted again.                         *)
Save(q) ==
  /\ Move(q, "save", "audit")
  /\ Write(Except(held[q].id) \cup {held[q]})
  /\ UNCHANGED <<audited, op, held, row>>

(* Bug variant: the audit row of a deletion is written after it. *)
AuditLast(q) ==
  /\ Move(q, "audit", IF op[q] = "deleted" THEN "delete" ELSE "answered")
  /\ audited' = audited \cup IF op[q] = "deleted" THEN {} ELSE {<<op[q], held[q].id>>}
  /\ UNCHANGED <<table, op, held, row>>

(* perform_destroy records the deletion before it deletes. *)
Audit(q) ==
  /\ Move(q, "audit", IF op[q] = "deleted" THEN "delete" ELSE "answered")
  /\ audited' = audited \cup {<<op[q], held[q].id>>}
  /\ UNCHANGED <<table, op, held, row>>

Delete(q) ==
  /\ Move(q, "delete", "answered")
  /\ Write(Except(held[q].id))
  /\ UNCHANGED <<audited, op, held, row>>

-----------------------------------------------------------------------------
Start(s) ==
  /\ Move(s, "idle", "get")
  /\ UNCHANGED <<table, audited, op, held, row>>

Advance(s, from) ==
  /\ Move(s, from, IF row[s] = Len(Defaults) THEN "done" ELSE "get")
  /\ row' = [row EXCEPT ![s] = @ + 1]

Named(s) == {r \in rules : r.name = Defaults[row[s]].name}

(* Bug variant: get_or_create instead of update_or_create. *)
GetDefault(s) ==
  /\ at[s] = "get"
  /\ \/ Named(s) = {}          /\ Move(s, "get", "create") /\ UNCHANGED row
     \/ Cardinality(Named(s)) = 1 /\ Advance(s, "get")
     \/ Cardinality(Named(s)) > 1 /\ Move(s, "get", "raised") /\ UNCHANGED row
  /\ UNCHANGED <<table, audited, op, held>>

(* update_or_create(name = ...): the row of that name is locked and         *)
(* written in one transaction.  Without one the row is created by another  *)
(* statement; with several, get() raises MultipleObjectsReturned.          *)
UpdateDefault(s) ==
  /\ at[s] = "get"
  /\ \/ Named(s) = {} /\ Move(s, "get", "create") /\ UNCHANGED <<rules, row>>
     \/ \E r \in rules :
          /\ Named(s) = {r}
          /\ rules' = Except(r.id) \cup {Row(r.id, Defaults[row[s]])}
          /\ Advance(s, "get")
     \/ Cardinality(Named(s)) > 1 /\ Move(s, "get", "raised") /\ UNCHANGED <<rules, row>>
  /\ UNCHANGED <<used, overtaken, audited, op, held>>

(* The smallest id stands for any: only ids of rules of one priority are    *)
(* compared, and of a seed's rules those are two copies of one default.    *)
NewId(ids) == CHOOSE id \in ids : \A other \in ids : id <= other

Insert(s, rule) ==
  LET id == NewId(SeedIds \ used)
  IN rules' = rules \cup {Row(id, rule)} /\ used' = used \cup {id}

(* Bug variant: the row is created with its name and outcome, and the other *)
(* fields are set by the next statement.                                   *)
CreateBareDefault(s) ==
  /\ at[s] = "create" /\ SeedIds \ used # {}
  /\ Insert(s, [Defaults[row[s]] EXCEPT !.condition = NoCondition, !.priority = 0])
  /\ Move(s, "create", "get")
  /\ UNCHANGED <<row, overtaken, audited, op, held>>

CreateDefault(s) ==
  /\ at[s] = "create" /\ SeedIds \ used # {}
  /\ Insert(s, Defaults[row[s]])
  /\ Advance(s, "create")
  /\ UNCHANGED <<overtaken, audited, op, held>>

-----------------------------------------------------------------------------
(* A statement raises, or the process is killed; what it has committed      *)
(* stays.  A commit whose acknowledgement is lost is a step before this.   *)
Fail(p) ==
  /\ \E from \in {"save", "audit", "delete", "get", "create"} : Move(p, from, "failed")
  /\ UNCHANGED <<table, audited, op, held, row>>

Next ==
  \/ \E q \in Requests :
       Create(q) \/ Update(q) \/ Destroy(q) \/ Save(q) \/ Audit(q) \/ Delete(q)
  \/ \E s \in Seeds : Start(s) \/ UpdateDefault(s) \/ CreateDefault(s)
  \/ \E p \in Processes : Fail(p)

Spec == Init /\ [][Next]_vars

-----------------------------------------------------------------------------
Events == {"created", "updated", "deleted"}
Phases == {"idle", "save", "audit", "delete", "answered",
           "get", "create", "done", "raised", "failed"}

TypeOK ==
  /\ \A r, s \in rules : r.id = s.id => r = s
  /\ IdsOf(rules) \subseteq used
  /\ used \subseteq RequestIds \cup SeedIds
  /\ audited \subseteq Events \X (RequestIds \cup SeedIds)
  /\ at \in [Processes -> Phases]
  /\ op \in [Requests -> Events \cup {"none"}]
  /\ row \in [Seeds -> 1 .. Len(Defaults) + 1]
  /\ overtaken \subseteq Seeds

(* Whatever the edits and the seeds have made of the table, with ties in     *)
(* priority, duplicates, inactive and unreadable rules, RuleEngine.evaluate *)
(* gives the outcome of the first matching rule by priority and id.        *)
FirstMatchDecides ==
  \A ctx \in Contexts : FirstMatch(rules, ctx, Evaluate(rules, ctx))

(* The audit log explains the table although rule and audit row are two      *)
(* commits: a rule that is gone has its rule_deleted row; a rule that a      *)
(* request has created has its rule_created row, unless that request is not *)
(* yet there or has failed; and a rule that is still in the table after its *)
(* rule_deleted row is about to be deleted, the deletion has failed, or an  *)
(* update that had read it before has brought it back.                     *)
LogExplainsTable ==
  /\ \A id \in used \ IdsOf(rules) : <<"deleted", id>> \in audited
  /\ \A q \in Requests :
       op[q] = "created" /\ held[q].id \in used
         => <<"created", held[q].id>> \in audited \/ at[q] \in {"audit", "failed"}
  /\ \A id \in IdsOf(rules) :
       <<"deleted", id>> \in audited
         => \E q \in Requests :
              /\ op[q] # "none" /\ held[q].id = id
              /\ \/ op[q] = "deleted" /\ at[q] \in {"delete", "failed"}
                 \/ op[q] = "updated" /\ at[q] \in {"audit", "failed", "answered"}

DefaultTable == {Row(k, Defaults[k]) : k \in DOMAIN Defaults}

(* Until administrators edit it, the table never decides otherwise than the  *)
(* full set of defaults, except that it may ask for a manual review: an      *)
(* application that is evaluated while seeds run, after some have crashed  *)
(* or beside duplicates of a rule is not approved or declined by mistake.   *)
(* Once a seed has succeeded, it decides as the defaults do.               *)
SeedingIsCautious ==
  (\A q \in Requests : at[q] = "idle") =>
    \A ctx \in Contexts :
      LET outcome == Evaluate(DefaultTable, ctx)
      IN /\ Evaluate(rules, ctx) \in {outcome, "manual_review"}
         /\ (\E s \in Seeds : at[s] = "done") => Evaluate(rules, ctx) = outcome

(* A seed that succeeds has put every default back, whatever administrators  *)
(* had made of it before and whichever other seeds run, as long as none      *)
(* commits a change while it runs.                                         *)
SeedRestoresDefaults ==
  [][\A s \in Seeds \ overtaken :
       at[s] # "done" /\ at'[s] = "done" =>
         \A k \in DOMAIN Defaults : \E r \in rules' : r = Row(r.id, Defaults[k])]_vars

(* The help of seed_policy_rules: idempotent by name.  A seed is not refused *)
(* because others have run.                                                *)
SeedIsIdempotent == \A s \in Seeds : at[s] # "raised"
=============================================================================
