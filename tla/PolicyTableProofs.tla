------------------------- MODULE PolicyTableProofs -------------------------
(***************************************************************************)
(* Proofs about PolicyTable, for any administrators, seeds and rules.      *)
(***************************************************************************)
EXTENDS PolicyTable, PolicyRulesProofs, WellFoundedInduction

Ids == RequestIds \cup SeedIds

(* What evaluate relies on of a row, and what an update keeps. *)
IsRow(r) ==
  /\ {"id", "priority", "outcome"} \subseteq DOMAIN r
  /\ r.id \in Ids /\ r.priority \in Int /\ r.outcome \in Outcomes

Rows ==
  /\ IsFiniteSet(rules)
  /\ \A r \in rules : IsRow(r)

(* A request: what it holds in memory is in the table, or has been, or is a  *)
(* rule of its own whose id nobody else has.                               *)
IsFresh(q) ==
  /\ held[q].id \notin used
  /\ \A p \in Requests \ {q} : op[p] # "none" => held[p].id # held[q].id

Request(q) ==
  /\ at[q] \in {"idle", "save", "audit", "delete", "answered", "failed"}
  /\ at[q] = "idle" <=> op[q] = "none"
  /\ op[q] # "none" => IsRow(held[q])
  /\ op[q] = "created" => held[q].id \in RequestIds
  /\ op[q] \in {"updated", "deleted"} => held[q].id \in used
  /\ at[q] = "save" => op[q] \in {"created", "updated"}
  /\ op[q] = "created" /\ at[q] = "save" => IsFresh(q)
  /\ at[q] = "delete" => op[q] = "deleted" /\ <<"deleted", held[q].id>> \in audited

Memory == DOMAIN held = Requests /\ \A q \in Requests : Request(q)

(* A deletion is recorded of rules that have been in the table only. *)
Deletions == \A id \in Ids : <<"deleted", id>> \in audited => id \in used

(* The defaults that the table holds, under whatever ids. *)
Holds(k) == HasCopy(rules, Defaults[k])

(* A seed at its k-th default has put back those before, unless a request    *)
(* has written since it began.                                             *)
Seed(s) ==
  /\ at[s] \in {"idle", "get", "create", "done", "raised", "failed"}
  /\ at[s] \in {"idle", "get", "create"} => row[s] <= Len(Defaults)
  /\ at[s] = "idle" => row[s] = 1
  /\ s \notin overtaken /\ at[s] \in {"get", "create"} =>
       \A k \in 1 .. row[s] - 1 : Holds(k)

Progress == \A s \in Seeds : Seed(s)

(* As long as there are seeds only, the table holds copies of defaults only, *)
(* and all of them once a seed has succeeded.                              *)
Unedited ==
  (\A q \in Requests : at[q] = "idle") =>
    /\ overtaken = {}
    /\ \A r \in rules : \E k \in DOMAIN Defaults : r = Row(r.id, Defaults[k])
    /\ \A s \in Seeds : at[s] = "done" => \A k \in DOMAIN Defaults : Holds(k)

Inv ==
  /\ TypeOK /\ Rows /\ Memory /\ Deletions /\ Progress /\ Unedited
  /\ LogExplainsTable

-----------------------------------------------------------------------------
(* An empty table before anything has begun satisfies the invariant. *)
LEMMA InvInit == Init => Inv
<1> SUFFICES ASSUME Init
             PROVE  Inv
  OBVIOUS
<1> USE ProcessAssumption, DefaultsAssumption DEF Init, Processes
<1>1. TypeOK
  BY DEF TypeOK, Phases, IdsOf
<1>2. Rows
  BY FS_EmptySet DEF Rows
<1>3. Memory
  BY DEF Memory, Request
<1>4. Deletions /\ Progress /\ Unedited
  BY DEF Deletions, Progress, Seed, Unedited
<1>5. LogExplainsTable
  BY DEF LogExplainsTable, IdsOf
<1> QED BY <1>1, <1>2, <1>3, <1>4, <1>5 DEF Inv

-----------------------------------------------------------------------------
(* A request reads or makes up a row. *)
LEMMA BeginStep ==
  ASSUME Inv, NEW q \in Requests, NEW event \in Events, NEW to, NEW r, IsRow(r),
         Begin(q, event, to, r),
         to = IF event = "deleted" THEN "audit" ELSE "save",
         event # "created" => r.id \in used,
         event = "created" => r.id \in RequestIds \ (used \cup HeldIds)
  PROVE  Inv'
<1> USE ProcessAssumption DEF Inv, Begin, Move, table, Processes
<1>1. TypeOK' /\ Rows'
  BY DEF TypeOK, Phases, Rows, Events
<1>2. Memory'
  BY DEF TypeOK, Memory, Request, Events, IsFresh, HeldIds, IdsOf
<1>3. Deletions' /\ Progress' /\ Unedited'
  BY DEF TypeOK, Deletions, Progress, Seed, Unedited, Holds
<1>4. LogExplainsTable'
  BY DEF TypeOK, LogExplainsTable, Memory, Request, Events
<1> QED BY <1>1, <1>2, <1>3, <1>4

(* What a request holds, the table has had, or it is a rule of its own. *)
LEMMA ReadStep ==
  ASSUME Inv, NEW q \in Requests, Create(q) \/ Update(q) \/ Destroy(q)
  PROVE  Inv'
<1>1. CASE Create(q)
  <2>1. PICK rule \in Additions, id \in RequestIds \ (used \cup HeldIds) :
          Begin(q, "created", "save", Row(id, rule))
    BY <1>1 DEF Create
  <2>2. IsRow(Row(id, rule)) /\ Row(id, rule).id = id
    BY RulesAssumption DEF IsRow, Row, Ids
  <2> QED BY <2>1, <2>2, IdsAssumption, BeginStep DEF Events
<1>2. CASE Update(q)
  <2>1. PICK r \in rules, patch \in Patches :
           Begin(q, "updated", "save", Patched(r, patch))
    BY <1>2 DEF Update
  <2>2. IsRow(Patched(r, patch)) /\ Patched(r, patch).id = r.id /\ r.id \in used
    BY PatchesAssumption DEF IsRow, Patched, Inv, Rows, TypeOK, IdsOf
  <2> QED BY <2>1, <2>2, BeginStep DEF Events
<1>3. CASE Destroy(q)
  <2>1. PICK r \in rules : Begin(q, "deleted", "audit", r)
    BY <1>3 DEF Destroy
  <2>2. IsRow(r) /\ r.id \in used
    BY DEF Inv, Rows, TypeOK, IdsOf
  <2> QED BY <2>1, <2>2, BeginStep DEF Events
<1> QED BY <1>1, <1>2, <1>3

(* The row is written whole; seeds that run are overtaken. *)
LEMMA SaveStep ==
  ASSUME Inv, NEW q \in Requests, Save(q)
  PROVE  Inv'
<1> USE ProcessAssumption DEF Inv, Save, Write, Move, Processes
<1>1. IsRow(held[q]) /\ op[q] \in {"created", "updated"}
  BY DEF Memory, Request
<1>2. Rows'
  <2>1. IsFiniteSet(Except(held[q].id)) /\ Except(held[q].id) \subseteq rules
    BY FS_Subset DEF Rows, Except
  <2>2. IsFiniteSet(rules')
    BY <2>1, FS_AddElement
  <2> QED BY <1>1, <2>1, <2>2 DEF Rows
<1>3. IdsOf(rules') = IdsOf(rules) \cup {held[q].id} /\ used' = used \cup {held[q].id}
  <2>1. IdsOf(rules') = IdsOf(rules) \cup {held[q].id}
    BY DEF IdsOf, Except
  <2> QED BY <2>1 DEF TypeOK
<1>4. TypeOK'
  BY <1>1, <1>3 DEF TypeOK, Phases, Except, IsRow, Ids
<1>5. Memory'
  <2> SUFFICES ASSUME NEW p \in Requests
               PROVE  Request(p)'
    BY DEF Memory
  <2>1. CASE p = q
    BY <1>1, <1>3, <2>1 DEF TypeOK, Memory, Request
  <2>2. CASE p # q
    <3>1. at'[p] = at[p] /\ op'[p] = op[p] /\ held'[p] = held[p]
      BY <2>2 DEF TypeOK
    <3>2. op[p] = "created" /\ at[p] = "save" => IsFresh(p)'
      BY <1>1, <1>3, <2>2 DEF Memory, Request, IsFresh
    <3> QED BY <1>3, <3>1, <3>2 DEF Memory, Request
  <2> QED BY <2>1, <2>2
<1>6. Deletions' /\ Progress' /\ Unedited'
  BY <1>3 DEF TypeOK, Deletions, Progress, Seed, Unedited
<1>7. LogExplainsTable'
  <2>1. \A id \in used' \ IdsOf(rules') : <<"deleted", id>> \in audited
    BY <1>3 DEF LogExplainsTable
  <2>2. \A p \in Requests :
          op[p] = "created" /\ held[p].id \in used'
            => <<"created", held[p].id>> \in audited \/ at'[p] \in {"audit", "failed"}
    <3>1. \A p \in Requests \ {q} :
             op[p] = "created" /\ held[p].id \in used' => held[p].id \in used
      BY <1>1, <1>3 DEF Memory, Request, IsFresh
    <3> QED BY <3>1 DEF TypeOK, LogExplainsTable
  <2>3. ASSUME NEW id \in IdsOf(rules'), <<"deleted", id>> \in audited
        PROVE  \E p \in Requests :
                 /\ op[p] # "none" /\ held[p].id = id
                 /\ \/ op[p] = "deleted" /\ at'[p] \in {"delete", "failed"}
                    \/ op[p] = "updated" /\ at'[p] \in {"audit", "failed", "answered"}
    <3>1. CASE id = held[q].id
      BY <1>1, <2>3, <3>1 DEF TypeOK, Memory, Request, IsFresh, Deletions, IsRow
    <3>2. CASE id # held[q].id
      BY <1>3, <2>3, <3>2 DEF TypeOK, LogExplainsTable
    <3> QED BY <3>1, <3>2
  <2> QED BY <2>1, <2>2, <2>3 DEF LogExplainsTable
<1> QED BY <1>2, <1>4, <1>5, <1>6, <1>7

(* The audit row is written, of a deletion before it. *)
LEMMA AuditStep ==
  ASSUME Inv, NEW q \in Requests, Audit(q)
  PROVE  Inv'
<1> USE ProcessAssumption DEF Inv, Audit, Move, table, Processes
<1>1. IsRow(held[q]) /\ op[q] \in Events
  BY DEF Memory, Request, TypeOK
<1>2. TypeOK' /\ Rows'
  BY <1>1 DEF TypeOK, Phases, Rows, IsRow, Ids
<1>3. Memory'
  BY DEF TypeOK, Memory, Request, IsFresh
<1>4. Deletions' /\ Progress' /\ Unedited'
  BY <1>1 DEF TypeOK, Deletions, Progress, Seed, Unedited, Holds, Memory, Request, Events
<1>5. LogExplainsTable'
  BY <1>1 DEF TypeOK, LogExplainsTable, Memory, Request, Events
<1> QED BY <1>2, <1>3, <1>4, <1>5

(* A deletion removes a rule whose id stays used and audited. *)
LEMMA DeleteStep ==
  ASSUME Inv, NEW q \in Requests, Delete(q)
  PROVE  Inv'
<1> USE ProcessAssumption DEF Inv, Delete, Write, Move, Processes
<1>1. IsRow(held[q]) /\ op[q] = "deleted" /\ <<"deleted", held[q].id>> \in audited
  BY DEF Memory, Request
<1>2. Rows'
  BY FS_Subset DEF Rows, Except
<1>3. IdsOf(rules') = IdsOf(rules) \ {held[q].id} /\ used' = used
  BY DEF IdsOf, Except, TypeOK
<1>4. TypeOK'
  BY <1>3 DEF TypeOK, Phases, Except
<1>5. Memory'
  BY <1>3 DEF TypeOK, Memory, Request, IsFresh
<1>6. Deletions' /\ Progress' /\ Unedited'
  BY <1>3 DEF TypeOK, Deletions, Progress, Seed, Unedited
<1>7. LogExplainsTable'
  BY <1>1, <1>3 DEF TypeOK, LogExplainsTable, Memory, Request
<1> QED BY <1>2, <1>4, <1>5, <1>6, <1>7

(* A process fails; no request is idle again. *)
LEMMA FailStep ==
  ASSUME Inv, NEW p \in Processes, Fail(p)
  PROVE  Inv'
<1> USE ProcessAssumption DEF Inv, Fail, Move, table, Processes
<1>1. TypeOK' /\ Rows'
  BY DEF TypeOK, Phases, Rows
<1>2. Memory'
  BY DEF TypeOK, Memory, Request, IsFresh
<1>3. Deletions' /\ Progress' /\ Unedited'
  BY DEF TypeOK, Deletions, Progress, Seed, Unedited, Holds
<1>4. LogExplainsTable'
  BY DEF TypeOK, LogExplainsTable, Memory, Request
<1> QED BY <1>1, <1>2, <1>3, <1>4

-----------------------------------------------------------------------------
(* The id that a seed's row gets is one of the free ones. *)
LEMMA NewIdIsNew ==
  ASSUME NEW ids \in SUBSET Nat, ids # {}
  PROVE  NewId(ids) \in ids
<1> DEFINE less == OpToRel(<, Nat)
<1>2. \A x, y \in Nat : x < y => <<x, y>> \in less
  BY DEF OpToRel
<1>0. IsWellFoundedOn(less, Nat)
  BY NatLessThanWellFounded
<1> HIDE DEF less
<1>1. \E id \in ids : \A other \in ids : <<other, id>> \notin less
  BY <1>0, WFMin
<1>3. \E id \in ids : \A other \in ids : id <= other
  <2>1. \A x, y \in Nat : ~(x < y) => y <= x
    OBVIOUS
  <2> QED BY <1>1, <1>2, <2>1
<1> QED BY <1>3 DEF NewId

(* A row made from a default is one that evaluate can read. *)
LEMMA RowOfDefault ==
  ASSUME NEW id \in Ids, NEW k \in DOMAIN Defaults
  PROVE  /\ IsRow(Row(id, Defaults[k]))
         /\ Row(id, Defaults[k]).id = id /\ Row(id, Defaults[k]).name = Defaults[k].name
BY RulesAssumption DEF IsRow, Row

(* What every step of a seed leaves alone. *)
SeedOnly(s) ==
  /\ \A p \in Processes \ {s} : at'[p] = at[p]
  /\ DOMAIN at' = Processes
  /\ UNCHANGED <<overtaken, audited, op, held>>

(* A seed loses no default that another has put back. *)
Keeps == \A k \in DOMAIN Defaults : Holds(k) => Holds(k)'

(* A seed that no request has overtaken leaves no default out. *)
Completes(s) ==
  s \notin overtaken /\ at[s] # "done" /\ at'[s] = "done" =>
    \A k \in DOMAIN Defaults : Holds(k)'

(* A seed's step keeps, of every seed, what it has put back. *)
LEMMA SeedsProgress ==
  ASSUME Inv, NEW s \in Seeds, SeedOnly(s), Keeps,
         at[s] \in {"idle", "get", "create"},
         \A r \in rules' \ rules : r = Row(r.id, Defaults[row[s]]),
         \/ /\ at'[s] \in {"get", "create", "raised"} /\ UNCHANGED row
         \/ /\ HasCopy(rules', Defaults[row[s]]) /\ row' = [row EXCEPT ![s] = @ + 1]
            /\ at'[s] = IF row[s] = Len(Defaults) THEN "done" ELSE "get"
  PROVE  Progress' /\ Unedited' /\ Completes(s)
<1> USE ProcessAssumption, DefaultsAssumption DEF Inv, SeedOnly, Processes
<1>1. row[s] \in 1 .. Len(Defaults)
  BY DEF TypeOK, Progress, Seed
<1>2. s \notin overtaken => \A k \in 1 .. row[s] - 1 : Holds(k)'
  BY <1>1 DEF Progress, Seed, Keeps
<1>3. s \notin overtaken /\ HasCopy(rules', Defaults[row[s]]) =>
        \A k \in 1 .. row[s] : Holds(k)'
  <2> SUFFICES ASSUME s \notin overtaken, HasCopy(rules', Defaults[row[s]]),
                      NEW k \in 1 .. row[s]
               PROVE  Holds(k)'
    OBVIOUS
  <2>1. CASE k = row[s]
    BY <2>1 DEF Holds
  <2>2. CASE k # row[s]
    BY <1>1, <1>2, <2>2
  <2> QED BY <2>1, <2>2
<1>4. Progress'
  <2> SUFFICES ASSUME NEW t \in Seeds
               PROVE  Seed(t)'
    BY DEF Progress
  <2>1. CASE t # s
    <3>1. at'[t] = at[t] /\ row'[t] = row[t]
      BY <2>1 DEF TypeOK
    <3>2. row[t] - 1 <= Len(Defaults) /\ row[t] \in Nat
      BY DEF TypeOK
    <3> QED BY <3>1, <3>2 DEF Progress, Seed, Keeps
  <2>2. CASE t = s /\ UNCHANGED row
    BY <1>2, <2>2 DEF Progress, Seed
  <2>3. CASE t = s /\ row' = [row EXCEPT ![s] = @ + 1]
    <3>1. row'[s] = row[s] + 1
      BY <2>3 DEF TypeOK
    <3> QED BY <1>1, <1>3, <2>3, <3>1 DEF Seed
  <2> QED BY <2>1, <2>2, <2>3
<1>5. Unedited'
  <2> SUFFICES ASSUME \A q \in Requests : at'[q] = "idle"
               PROVE  Unedited!2'
    BY DEF Unedited
  <2>1. /\ overtaken = {}
        /\ \A r \in rules : \E k \in DOMAIN Defaults : r = Row(r.id, Defaults[k])
        /\ \A t \in Seeds : at[t] = "done" => \A k \in DOMAIN Defaults : Holds(k)
    BY DEF Unedited
  <2>2. \A r \in rules' : \E k \in DOMAIN Defaults : r = Row(r.id, Defaults[k])
    BY <1>1, <2>1
  <2>3. ASSUME NEW t \in Seeds, at'[t] = "done", NEW k \in DOMAIN Defaults
        PROVE  Holds(k)'
    <3>1. CASE t # s
      BY <2>1, <2>3, <3>1 DEF Keeps
    <3>2. CASE t = s
      BY <1>3, <2>1, <2>3, <3>2
    <3> QED BY <3>1, <3>2
  <2> QED BY <2>1, <2>2, <2>3
<1> QED BY <1>1, <1>3, <1>4, <1>5 DEF Completes

(* A seed that starts has put nothing back yet. *)
LEMMA StartStep ==
  ASSUME Inv, NEW s \in Seeds, Start(s)
  PROVE  Inv'
<1> USE ProcessAssumption DEF Inv, Start, Move, table, Processes
<1>1. TypeOK' /\ Rows'
  BY DEF TypeOK, Phases, Rows
<1>2. Memory' /\ Deletions' /\ LogExplainsTable'
  BY DEF TypeOK, Memory, Request, IsFresh, Deletions, LogExplainsTable
<1>3. SeedOnly(s) /\ Keeps
  BY DEF SeedOnly, Keeps, Holds, TypeOK
<1>4. Progress' /\ Unedited'
  BY <1>3, SeedsProgress DEF TypeOK
<1> QED BY <1>1, <1>2, <1>4

(* update_or_create on one row of the name puts that default back. *)
LEMMA UpdateDefaultStep ==
  ASSUME Inv, NEW s \in Seeds, UpdateDefault(s)
  PROVE  Inv' /\ Completes(s)
<1> USE ProcessAssumption DEF Inv, UpdateDefault, Advance, Move, Processes
<1>0. row[s] \in DOMAIN Defaults /\ at[s] = "get"
  BY DefaultsAssumption DEF TypeOK, Progress, Seed
<1>1. SeedOnly(s)
  BY DEF SeedOnly, TypeOK
<1>2. CASE UNCHANGED <<rules, row>>
  <2>1. TypeOK' /\ Rows'
    BY <1>2 DEF TypeOK, Phases, Rows
  <2>2. Memory' /\ Deletions' /\ LogExplainsTable'
    BY <1>2 DEF TypeOK, Memory, Request, IsFresh, Deletions, LogExplainsTable
  <2>3. Keeps /\ at'[s] \in {"create", "raised"}
    BY <1>2 DEF Keeps, Holds, TypeOK
  <2>4. Progress' /\ Unedited' /\ Completes(s)
    BY <1>0, <1>1, <1>2, <2>3, SeedsProgress
  <2> QED BY <2>1, <2>2, <2>4
<1>3. ASSUME NEW r \in rules, Named(s) = {r}, Advance(s, "get"),
             rules' = Except(r.id) \cup {Row(r.id, Defaults[row[s]])}
      PROVE  Inv' /\ Completes(s)
  <2> DEFINE new == Row(r.id, Defaults[row[s]])
  <2>1. IsRow(new) /\ new.id = r.id /\ r.name = Defaults[row[s]].name
    BY <1>0, <1>3, RowOfDefault DEF Rows, IsRow, Named
  <2> HIDE DEF new
  <2>2. Rows'
    <3>1. IsFiniteSet(Except(r.id)) /\ Except(r.id) \subseteq rules
      BY FS_Subset DEF Rows, Except
    <3>2. IsFiniteSet(rules')
      BY <1>3, <3>1, FS_AddElement
    <3> QED BY <1>3, <2>1, <3>1, <3>2 DEF Rows, new
  <2>3. IdsOf(rules') = IdsOf(rules)
    BY <1>3, <2>1 DEF IdsOf, Except, new
  <2>4. TypeOK'
    <3>1. \A c, d \in rules' : c.id = d.id => c = d
      BY <1>3, <2>1 DEF TypeOK, Except, new
    <3>2. at' \in [Processes -> Phases] /\ row' \in [Seeds -> 1 .. Len(Defaults) + 1]
      BY <1>0, <1>3, DefaultsAssumption DEF TypeOK, Phases
    <3> QED BY <2>3, <3>1, <3>2 DEF TypeOK
  <2>5. Memory' /\ Deletions' /\ LogExplainsTable'
    <3>1. Memory'
      BY <1>1 DEF SeedOnly, TypeOK, Memory, Request, IsFresh
    <3>2. Deletions' /\ LogExplainsTable'
      BY <1>1, <2>3 DEF SeedOnly, TypeOK, Deletions, LogExplainsTable
    <3> QED BY <3>1, <3>2
  <2>6. Keeps /\ HasCopy(rules', Defaults[row[s]])
    <3>1. HasCopy(rules', Defaults[row[s]])
      BY <1>3, <2>1 DEF Holds, HasCopy, new
    <3>2. ASSUME NEW k \in DOMAIN Defaults, NEW c \in rules, c = Row(c.id, Defaults[k])
          PROVE  Holds(k)'
      <4>1. CASE c.id = r.id
        <5>1. c = r /\ c.name = Defaults[k].name
          BY <3>2, <4>1 DEF TypeOK, Row
        <5>2. k = row[s]
          BY <1>0, <2>1, <5>1, DefaultsAssumption
        <5> QED BY <3>1, <5>2 DEF Holds
      <4>2. CASE c.id # r.id
        BY <1>3, <3>2, <4>2 DEF Except, Holds, HasCopy
      <4> QED BY <4>1, <4>2
    <3> QED BY <3>1, <3>2 DEF Keeps, Holds, HasCopy
  <2>7. Progress' /\ Unedited' /\ Completes(s)
    <3>1. \A c \in rules' \ rules : c = Row(c.id, Defaults[row[s]])
      BY <1>3, <2>1 DEF Except, new
    <3> QED BY <1>0, <1>1, <1>3, <2>6, <3>1, SeedsProgress DEF TypeOK
  <2> QED BY <2>2, <2>4, <2>5, <2>7
<1> QED BY <1>2, <1>3

(* Without such a row, the default is inserted under a new id. *)
LEMMA CreateDefaultStep ==
  ASSUME Inv, NEW s \in Seeds, CreateDefault(s)
  PROVE  Inv' /\ Completes(s)
<1> USE ProcessAssumption DEF Inv, CreateDefault, Advance, Move, Processes
<1>0. row[s] \in DOMAIN Defaults /\ at[s] = "create"
  BY DefaultsAssumption DEF TypeOK, Progress, Seed
<1>1. SeedOnly(s)
  BY DEF SeedOnly, TypeOK
<1>2. PICK id \in SeedIds \ used :
        /\ rules' = rules \cup {Row(id, Defaults[row[s]])} /\ used' = used \cup {id}
  BY NewIdIsNew, IdsAssumption DEF Insert
<1> DEFINE new == Row(id, Defaults[row[s]])
<1>3. IsRow(new) /\ new.id = id
  BY <1>0, RowOfDefault DEF Ids
<1> HIDE DEF new
<1>4. Rows'
  <2>1. IsFiniteSet(rules')
    BY <1>2, FS_AddElement DEF Rows
  <2> QED BY <1>2, <1>3, <2>1 DEF Rows, new
<1>5. IdsOf(rules') = IdsOf(rules) \cup {id}
  BY <1>2, <1>3 DEF IdsOf, new
<1>6. TypeOK'
  <2>1. \A c, d \in rules' : c.id = d.id => c = d
    BY <1>2, <1>3 DEF TypeOK, IdsOf, new
  <2>2. at' \in [Processes -> Phases] /\ row' \in [Seeds -> 1 .. Len(Defaults) + 1]
    BY <1>0, DefaultsAssumption DEF TypeOK, Phases
  <2> QED BY <1>2, <1>5, <2>1, <2>2 DEF TypeOK
<1>7. Memory' /\ Deletions'
  BY <1>1, <1>2, <1>5, IdsAssumption
     DEF SeedOnly, TypeOK, Memory, Request, IsFresh, Deletions
<1>8. LogExplainsTable'
  <2>1. \A q \in Requests : at'[q] = at[q]
    BY <1>1 DEF SeedOnly
  <2>2. \A q \in Requests : op[q] = "created" => held[q].id # id
    BY <1>2, IdsAssumption DEF Memory, Request
  <2>3. <<"deleted", id>> \notin audited
    BY <1>2 DEF Deletions, Ids
  <2>4. \A i \in used' \ IdsOf(rules') : <<"deleted", i>> \in audited
    BY <1>2, <1>5 DEF LogExplainsTable
  <2>5. \A q \in Requests :
          op[q] = "created" /\ held[q].id \in used'
            => <<"created", held[q].id>> \in audited \/ at[q] \in {"audit", "failed"}
    BY <1>2, <2>2 DEF LogExplainsTable
  <2>6. \A i \in IdsOf(rules') : <<"deleted", i>> \in audited => i \in IdsOf(rules)
    BY <1>5, <2>3
  <2> QED BY <1>1, <2>1, <2>4, <2>5, <2>6 DEF SeedOnly, LogExplainsTable
<1>9. Progress' /\ Unedited' /\ Completes(s)
  <2>1. Keeps /\ HasCopy(rules', Defaults[row[s]])
    BY <1>2, <1>3 DEF Keeps, Holds, HasCopy, new
  <2>2. \A c \in rules' \ rules : c = Row(c.id, Defaults[row[s]])
    BY <1>2, <1>3 DEF new
  <2> QED BY <1>0, <1>1, <2>1, <2>2, SeedsProgress DEF TypeOK
<1> QED BY <1>4, <1>6, <1>7, <1>8, <1>9

-----------------------------------------------------------------------------
(* Every step keeps the invariant. *)
LEMMA InvStep == Inv /\ [Next]_vars => Inv'
<1> SUFFICES ASSUME Inv, [Next]_vars
             PROVE  Inv'
  OBVIOUS
<1>1. CASE Next
  BY <1>1, ReadStep, SaveStep, AuditStep, DeleteStep, StartStep, UpdateDefaultStep,
     CreateDefaultStep, FailStep DEF Next
<1>2. CASE UNCHANGED vars
  <2> USE <1>2 DEF vars, Inv
  <2>1. TypeOK' /\ Rows' /\ Memory' /\ Deletions'
    BY DEF TypeOK, Phases, Rows, Memory, Request, IsFresh, Deletions
  <2>2. Progress' /\ Unedited' /\ LogExplainsTable'
    BY DEF Progress, Seed, Unedited, Holds, LogExplainsTable
  <2> QED BY <2>1, <2>2
<1> QED BY <1>1, <1>2

LEMMA Invariance == Spec => []Inv
BY InvInit, InvStep, PTL DEF Spec

-----------------------------------------------------------------------------
(* The types of PolicyTable, for any processes, rules and patches. *)
THEOREM TypesOfPolicyTable == Spec => []TypeOK
<1>1. Inv => TypeOK
  BY DEF Inv
<1> QED BY <1>1, Invariance, PTL

(* Whatever requests and seeds have made of the table, it is one that         *)
(* RuleEngine.evaluate decides by the first match.                          *)
THEOREM TableIsDecidedByFirstMatch == Spec => []FirstMatchDecides
<1>1. Inv => IsTable(rules)
  BY IdsAssumption DEF Inv, TypeOK, Rows, IsRow, Ids, IsTable
<1>2. Inv => FirstMatchDecides
  BY <1>1, EvaluateIsFirstMatch DEF FirstMatchDecides
<1> QED BY <1>2, Invariance, PTL

(* Rule and audit row are two commits, in this order for a creation or an    *)
(* update and in the other for a deletion: what the log does not explain   *)
(* belongs to a request on its way or failed.                              *)
THEOREM LogExplains == Spec => []LogExplainsTable
<1>1. Inv => LogExplainsTable
  BY DEF Inv
<1> QED BY <1>1, Invariance, PTL

(* A seed that succeeds has put every default back, whichever seeds run      *)
(* beside it, if no request has written since it began: seeds write copies *)
(* of defaults only, and two defaults do not share a name.                 *)
THEOREM SeedsRestoreDefaults == Spec => SeedRestoresDefaults
<1> DEFINE Restores == \A s \in Seeds \ overtaken :
                         at[s] # "done" /\ at'[s] = "done" =>
                           \A k \in DOMAIN Defaults :
                             \E r \in rules' : r = Row(r.id, Defaults[k])
<1>1. Inv /\ [Next]_vars => [Restores]_vars
  <2> SUFFICES ASSUME Inv, Next,
                      NEW s \in Seeds \ overtaken, at[s] # "done", at'[s] = "done"
               PROVE  \A k \in DOMAIN Defaults :
                        \E r \in rules' : r = Row(r.id, Defaults[k])
    OBVIOUS
  <2>1. UpdateDefault(s) \/ CreateDefault(s)
    <3> USE ProcessAssumption DEF Inv, TypeOK, Processes, Move
    <3>1. ASSUME NEW q \in Requests, Create(q) \/ Update(q) \/ Destroy(q)
          PROVE  FALSE
      BY <3>1 DEF Create, Update, Destroy, Begin
    <3>2. ASSUME NEW q \in Requests, Save(q) \/ Audit(q) \/ Delete(q)
          PROVE  FALSE
      BY <3>2 DEF Save, Audit, Delete
    <3>3. ASSUME NEW p \in Processes, Fail(p)
          PROVE  FALSE
      BY <3>3 DEF Fail
    <3>4. ASSUME NEW t \in Seeds, Start(t) \/ UpdateDefault(t) \/ CreateDefault(t)
          PROVE  t = s /\ ~Start(t)
      BY <3>4 DEF Start, UpdateDefault, CreateDefault, Advance
    <3> QED BY <3>1, <3>2, <3>3, <3>4 DEF Next
  <2>2. Completes(s)
    BY <2>1, UpdateDefaultStep, CreateDefaultStep
  <2> QED BY <2>2 DEF Completes, Holds, HasCopy
<1> QED BY <1>1, Invariance, PTL DEF Spec, SeedRestoresDefaults

(* With the seeded rules, and applications whose band is low only below 85   *)
(* (BandDecides), the table decides while seeds run, crash or repeat each   *)
(* other as the full set of defaults does, or asks for a manual review.     *)
THEOREM SeedingNeverMisleads ==
  ASSUME Defaults = DefaultRules,
         \A ctx \in Contexts :
           ctx.score \in Int /\ (ctx.risk_band = "low" => ctx.score < 8500)
  PROVE  Spec => []SeedingIsCautious
<1>1. DOMAIN DefaultRules = 1 .. 4
  BY DEF DefaultRules
<1>2. ASSUME Inv, \A q \in Requests : at[q] = "idle", NEW ctx \in Contexts
      PROVE  LET outcome == Evaluate(DefaultTable, ctx)
             IN /\ Evaluate(rules, ctx) \in {outcome, "manual_review"}
                /\ (\E s \in Seeds : at[s] = "done") => Evaluate(rules, ctx) = outcome
  <2>1. IsTable(rules)
    BY <1>2, IdsAssumption DEF Inv, TypeOK, Rows, IsRow, Ids, IsTable
  <2>2. \A r \in rules : \E k \in 1 .. 4 : r = Row(r.id, DefaultRules[k])
    BY <1>1, <1>2 DEF Inv, Unedited
  <2>3. (\E s \in Seeds : at[s] = "done") =>
          HasCopy(rules, HighBand) /\ HasCopy(rules, HighScore) /\ HasCopy(rules, LowBand)
    <3>1. (\E s \in Seeds : at[s] = "done") =>
            \A k \in 1 .. 4 : HasCopy(rules, DefaultRules[k])
      BY <1>1, <1>2 DEF Inv, Unedited, Holds
    <3> QED BY <3>1 DEF DefaultRules
  <2>4. /\ IsTable(DefaultTable)
        /\ \A r \in DefaultTable : \E k \in 1 .. 4 : r = Row(r.id, DefaultRules[k])
        /\ HasCopy(DefaultTable, HighBand) /\ HasCopy(DefaultTable, HighScore)
        /\ HasCopy(DefaultTable, LowBand)
    BY SeededTable DEF DefaultTable
  <2> QED BY <2>1, <2>2, <2>3, <2>4, DefaultsDecide
<1>3. Inv => SeedingIsCautious
  BY <1>2 DEF SeedingIsCautious
<1> QED BY <1>3, Invariance, PTL
=============================================================================
