CONSTANTS
  q1 = q1
  q2 = q2
  q3 = q3
  s1 = s1
  s2 = s2
  NoKey = NoKey
  None = None
  Requests <- ThreeRequests
  Slots <- TwoSlots
  Faults <- EveryFault
SPECIFICATION FairSpec
INVARIANTS TypeOK SameKeySameApplication QueuedOnceAndCommitted
PROPERTIES RequestsAreAnswered AcceptedIsQueuedByItsCreator
\* Every request is answered once.
CHECK_DEADLOCK FALSE
