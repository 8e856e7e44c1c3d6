--------------------------- MODULE DecisionLedger ---------------------------
(***************************************************************************)
(* What an application promises about its decision, without statements,    *)
(* transactions, tasks or retries: one decision by the pipeline, then any  *)
(* number of overrides, each of which replaces the decision in force and   *)
(* names it as its predecessor, so that the decisions form one chain.      *)
(***************************************************************************)
EXTENDS Naturals

CONSTANTS Stamps,   \* the numbers that order the rows by creation
          Types     \* the decision types

VARIABLES ledger,   \* the decisions taken
          head,     \* the one in force, 0 before the first
          verdict   \* its type, as the application shows it

lvars == <<ledger, head, verdict>>

LInit == ledger = {} /\ head = 0 /\ verdict = "none"

Enter(source) ==
  /\ head' \in Stamps
  /\ \A row \in ledger : row.id < head'
  /\ verdict' \in Types
  /\ ledger' = ledger \cup {[id |-> head', type |-> verdict', source |-> source,
                             prev |-> head]}

Decide   == ledger = {} /\ Enter("pipeline")
Override == ledger # {} /\ Enter("override")

LNext == Decide \/ Override
LSpec == LInit /\ [][LNext]_lvars
=============================================================================
