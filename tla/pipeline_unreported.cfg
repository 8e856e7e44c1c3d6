CONSTANTS
  r1 = r1
  r2 = r2
  Reviewers <- OneReviewer
  Types <- TwoTypes
  Faults <- BadHandlers
  MaxRows = 1
  MaxRetries = 3
  WebhookMaxRetries = 2
SPECIFICATION FairSpec
INVARIANTS FailureIsReported
\* The chain ends and the overrides are bounded.
CHECK_DEADLOCK FALSE
