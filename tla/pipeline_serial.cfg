CONSTANTS
  r1 = r1
  r2 = r2
  Reviewers <- OneReviewer
  Types <- TwoTypes
  Faults <- Crashes
  MaxRows = 3
  MaxRetries = 3
  WebhookMaxRetries = 2
SPECIFICATION FairSpec
INVARIANTS TypeOK StatusAgreesWithDecision
PROPERTIES ImplementsLedger ChainEnds
\* The chain ends and the overrides are bounded.
CHECK_DEADLOCK FALSE
