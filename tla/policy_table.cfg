CONSTANTS
  q1 = q1
  q2 = q2
  s1 = s1
  s2 = s2
  s3 = s3
  None = None
  Absent = Absent
  Text = Text
  Requests <- TwoRequests
  Seeds <- TwoSeeds
  RequestIds <- MCRequestIds
  SeedIds <- MCSeedIds
  Defaults <- ThreeDefaults
  Additions <- MCAdditions
  Patches <- MCPatches
  Contexts <- MCContexts
SYMMETRY Interchangeable
SPECIFICATION Spec
INVARIANTS TypeOK FirstMatchDecides LogExplainsTable SeedingIsCautious
PROPERTIES SeedRestoresDefaults
\* Every request and every seed ends once.
CHECK_DEADLOCK FALSE
