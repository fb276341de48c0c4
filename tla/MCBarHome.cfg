CONSTANTS
  c1 = c1
  c2 = c2
  b1 = b1
  b2 = b2
  NONE = NONE
  Customer = {c1, c2}
  Bartender = {b1, b2}
  NGlasses = 1
  Rounds = 1
  NBottles = 3
  Drink <- MCDrink
SPECIFICATION FairSpec
PROPERTY AllGoHome
CHECK_DEADLOCK FALSE
