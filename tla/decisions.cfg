\* Two reviewers and the worker on one application. No transaction is admitted
\* once three rows have been inserted; the two others may still add theirs.
CONSTANTS
  r1 = r1
  r2 = r2
  Reviewers <- MCReviewers
  Types <- MCTypes
  MaxRows = 3
SPECIFICATION DFairSpec
INVARIANTS DTypeOK LatestRowIsCurrent SupersededStaysSuperseded
INVARIANTS OverridesHavePredecessors
PROPERTIES TransactionsEnd HistoryIsKept
\* The bound on rows stops the system.
CHECK_DEADLOCK FALSE
