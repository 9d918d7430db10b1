\* A reassignment to a courier whose ceiling is full.
CONSTANTS
  o1 = o1
  o2 = o2
  r1 = r1
  r2 = r2
  NoRider = NoRider
  NoCode = NoCode
  Orders <- TwoOrders
  Riders <- TwoRiders
  Codes <- MCCodes
  HandoverCode <- MCHandoverCode
  Total = 1
  OtpMax = 1
  HandoverMax = 1
  Kinds <- CashOnly
  Refunds <- SomeRefunds
  DeskRights <- FullDesk
  InZone <- MCInZone
  Rank <- MCRank
  CashLimit <- MCCashLimit
  Opening = 1
  Autopilot = FALSE
SPECIFICATION Spec
PROPERTIES
  RefusedReassignmentIsHarmless
CHECK_DEADLOCK FALSE
