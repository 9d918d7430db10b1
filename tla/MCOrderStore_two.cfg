\* Two cash deliveries and two couriers, alike but for who carries what, over any
\* number of days.  One cash order fills a courier's ceiling.
CONSTANTS
  o1 = o1
  o2 = o2
  r1 = r1
  r2 = r2
  NoRider = NoRider
  NoCode = NoCode
  Orders <- TwoOrders
  Riders <- TwoRiders
  Codes <- TheCode
  HandoverCode <- SameCode
  Total = 1
  OtpMax = 1
  HandoverMax = 1
  Kinds <- CashOnly
  Refunds <- SomeRefunds
  DeskRights <- OrdersDesk
  InZone <- OneZone
  Rank <- SameRank
  CashLimit <- MCCashLimit
  Opening = 1
  Autopilot = FALSE
SPECIFICATION Spec
INVARIANTS
  OneOrderPerRider
  CashWithinCeiling
CONSTRAINT FewAfterthoughts
SYMMETRY Alike
CHECK_DEADLOCK FALSE
