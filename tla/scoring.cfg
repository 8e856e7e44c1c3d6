CONSTANTS
  Absent = Absent
  Text = Text
  Payloads <- AllPayloads
SPECIFICATION Spec
INVARIANTS ScoreHasItsBand RiskIsMonotone SeededOutcome
\* An unreadable payload is never scored.
CHECK_DEADLOCK FALSE
