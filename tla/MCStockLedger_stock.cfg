\* Two terminals, a row that is written four times after it was created.
CONSTANTS
  q1 = q1
  q2 = q2
  Reqs <- TwoReqs
  Counts <- MCCounts
  Deltas <- MCDeltas
  MaxVersion = 4
SPECIFICATION Spec
INVARIANTS
  TypeOK
  LedgerAddsUp
PROPERTIES
  TrackedNeverFallsBelowZero
  ServedOneByOne
SYMMETRY RowSymmetry
