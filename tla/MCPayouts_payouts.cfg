\* Two windows of the desk, two orders, two weeks.
CONSTANTS
  w1 = w1
  w2 = w2
  o1 = o1
  o2 = o2
  v = v
  r = r
  NoRider = NoRider
  Windows <- TwoWindows
  Desk <- TwoWindows
  Orders <- TwoOrders
  Vendors <- OneVendor
  Riders <- OneRider
  VendorOf <- MCVendorOf
  RiderOf <- MCRiderOf
  VendorNet <- MCVendorNet
  RiderNet <- MCRiderNet
  Amounts <- MCAmounts
  LastWeek = 2
  MaxWrites = 2
  MaxResets = 1
SPECIFICATION Spec
INVARIANTS
  TypeOK
  OnePayoutPerPeriod
  NoCorrectionAfterThePayout
  PaidWeeksAreFinal
  WindowsAgree
SYMMETRY RowSymmetry
