CONSTANTS
  q1 = q1
  q2 = q2
  q3 = q3
  s1 = s1
  s2 = s2
  NoKey = NoKey
  None = None
  Requests <- TwoRequests
  Slots <- OneSlot
  Faults <- NoFaults
SPECIFICATION FairSpec
INVARIANTS DuplicatesAreIdempotent
\* Every request is answered once.
CHECK_DEADLOCK FALSE
