\* Two requests at a time on the baskets of two restaurants.
CONSTANTS
  q1 = q1
  q2 = q2
  v1 = v1
  v2 = v2
  d1 = d1
  d2 = d2
  d3 = d3
  d4 = d4
  NoVendor = NoVendor
  NoDish = NoDish
  Reqs <- TwoReqs
  Vendors <- TwoVendors
  Dishes <- FourDishes
  VendorOf <- MCVendorOf
  Stock <- MCStock
  MaxQuantity = 2
  MaxLines = 2
SPECIFICATION Spec
INVARIANTS
  TypeOK
  LinesWithinCaps
  OneBasketWhenCalm
PROPERTIES
  ConflictNeedsConsent
  AddIsAllOrNothing
SYMMETRY RowSymmetry
