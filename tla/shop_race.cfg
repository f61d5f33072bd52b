SPECIFICATION Spec
CONSTANTS
  Customers = {c1, c2}
  Products = {p1}
  MaxQty = 2
  MaxAdd = 2
  MaxItems = 1
  MaxTaps = 2
  MaxUpsets = 0
SYMMETRY Symmetry
INVARIANTS
  StockAccounted
  TakesOnlyWhatItOrdered
CHECK_DEADLOCK FALSE
