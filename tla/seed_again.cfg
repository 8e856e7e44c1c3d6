CONSTANTS
  q1 = q1
  q2 = q2
  s1 = s1
  s2 = s2
  s3 = s3
  None = None
  Absent = Absent
  Text = Text
  Requests <- NoRequests
  Seeds <- ThreeSeeds
  RequestIds <- MCRequestIds
  SeedIds <- ManySeedIds
  Defaults <- DefaultRules
  Additions <- MCAdditions
  Patches <- MCPatches
  Contexts <- MCContexts
SPECIFICATION Spec
INVARIANTS SeedIsIdempotent
\* Every seed ends once.
CHECK_DEADLOCK FALSE
