CONSTANTS
  q1 = q1
  q2 = q2
  q3 = q3
  Newcomer = Newcomer
  Root = Root
  Client = Client
  None = None
  Requests <- ThreeRequests
  Addresses <- OldAndNew
SYMMETRY Interchangeable
SPECIFICATION Spec
INVARIANTS TypeOK RevokedKeyIsRefused DeactivatedUserIsRefused EndedIsNotEndedAgain
INVARIANTS OneAccountPerAddress EffectIsAudited
\* Every request is answered once.
CHECK_DEADLOCK FALSE
