\* Two prepaid orders left to the autopilot, couriers who come and go, and a
\* wallet that covers one of the orders.
CONSTANTS
  o1 = o1
  o2 = o2
  r1 = r1
  r2 = r2
  NoRider = NoRider
  NoCode = NoCode
  Orders <- TwoOrders
  Riders <- TwoRiders
  Codes <- MCCodes
  HandoverCode <- MCHandoverCode
  Total = 1
  OtpMax = 1
  HandoverMax = 1
  Kinds <- Prepaid
  Refunds <- MCRefunds
  DeskRights <- FullDesk
  InZone <- MCInZone
  Rank <- MCRank
  CashLimit <- MCCashLimit
  Opening = 1
  Autopilot = TRUE
SPECIFICATION UnattendedSpec
INVARIANTS
  WalletNotOverdrawn
PROPERTIES
  AutopilotFinishes
CHECK_DEADLOCK FALSE
