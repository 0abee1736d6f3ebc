SPECIFICATION ResourcesSpec
CONSTANTS
  Offers = {x1, x2}
  Staff = {y1, y2}
  MaxQuantity = 2
PROPERTIES CancelledIsSticky
CHECK_DEADLOCK FALSE
