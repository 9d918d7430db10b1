\* One order of every kind, every actor, the real attempt limits: what one
\* order and its ledger keep true.  An order that has ended may stop.
CONSTANTS
  o1 = o1
  o2 = o2
  r1 = r1
  r2 = r2
  NoRider = NoRider
  NoCode = NoCode
  Orders <- OneOrder
  Riders <- TwoRiders
  Codes <- MCCodes
  HandoverCode <- MCHandoverCode
  Total = 2
  OtpMax = 3
  HandoverMax = 3
  Kinds <- AllKinds
  Refunds <- MCRefunds
  DeskRights <- FullDesk
  InZone <- MCInZone
  Rank <- MCRank
  CashLimit <- MCCashLimit
  Opening = 2
  Autopilot = TRUE
SPECIFICATION Spec
INVARIANTS
  TypeOK
  CustodyIsVerified
  RefundFollowsPayment
  WalletRefundedOnce
  WalletRefundNeverWaits
  CashIsTakenAtTheDoor
PROPERTIES
  SettledMoneyIsFinal
  LostJobsAreRemembered
  AlongTheGraph
  BadEndOwesMoney
  KeepsItsPromise
CHECK_DEADLOCK FALSE
