\* Two editors, two menus, three options, at most two choices.
CONSTANTS
  q1 = q1
  q2 = q2
  lunch = lunch
  dinner = dinner
  rice = rice
  naan = naan
  salad = salad
  Reqs <- TwoReqs
  Menus <- TwoMenus
  Options <- ThreeOptions
  MaxChoices = 2
SPECIFICATION Spec
INVARIANTS
  TypeOK
  OneDefaultWhenQuiet
  ADishCanBeOrdered
SYMMETRY BoardSymmetry
