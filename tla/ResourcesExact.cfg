SPECIFICATION ResourcesSpec
CONSTANTS
  Offers = {x1, x2}
  Staff = {y1, y2}
  MaxQuantity = 2
INVARIANTS AppliesExactlyOnce
CHECK_DEADLOCK FALSE
