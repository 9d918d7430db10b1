\* Two requests, two sessions, one reset and one code: every interleaving of
\* sign-in, rotation, sign-out and reset.
CONSTANTS
  q1 = q1
  q2 = q2
  s1 = s1
  s2 = s2
  l1 = l1
  l2 = l2
  l3 = l3
  k1 = k1
  NoSession = NoSession
  NoLink = NoLink
  NoReset = NoReset
  Reqs <- TwoReqs
  Sessions <- TwoSessions
  Links <- ThreeLinks
  Resets <- OneReset
  MaxCodes = 1
  OtpMax = 1
SPECIFICATION Spec
INVARIANTS
  TypeOK
  OneLiveLink
  LiveSessionCanRenew
  OneSessionPerCode
  ResetEndsEarlierSessions
  TokensDieWithThePassword
  TriesAreBounded
PROPERTIES
  DeadSessionsSpendNothing
SYMMETRY RowSymmetry
