\* A cancellation that arrives after the kitchen has started.
CONSTANTS
  o1 = o1
  o2 = o2
  r1 = r1
  r2 = r2
  NoRider = NoRider
  NoCode = NoCode
  Orders <- OneOrder
  Riders <- TwoRiders
  Codes <- MCCodes
  HandoverCode <- MCHandoverCode
  Total = 1
  OtpMax = 1
  HandoverMax = 1
  Kinds <- AllKinds
  Refunds <- MCRefunds
  DeskRights <- FullDesk
  InZone <- MCInZone
  Rank <- MCRank
  CashLimit <- MCCashLimit
  Opening = 1
  Autopilot = FALSE
SPECIFICATION Spec
PROPERTIES
  CancelledInsideTheWindow
CHECK_DEADLOCK FALSE
