CONSTANTS
  r1 = r1
  r2 = r2
  Reviewers <- TwoReviewers
  Types <- TwoTypes
  Faults <- Anything
  MaxRows = 2
  MaxRetries = 1
  WebhookMaxRetries = 1
SPECIFICATION FairSpec
INVARIANTS DecisionIsTraceable WebhookReportsADecision
\* The chain ends and the overrides are bounded.
CHECK_DEADLOCK FALSE
