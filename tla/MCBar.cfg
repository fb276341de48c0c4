CONSTANTS
  c1 = c1
  c2 = c2
  b1 = b1
  b2 = b2
  NONE = NONE
  Customer = {c1, c2}
  Bartender = {b1, b2}
  NGlasses = 2
  Rounds = 2
  NBottles = 3
  Drink <- MCDrink
SPECIFICATION Spec
SYMMETRY Symmetry
INVARIANTS NoFault RightDrink GlassExclusive DosesExact
CHECK_DEADLOCK FALSE
