SPECIFICATION Spec
CONSTANTS
  Customers = {c1}
  Products = {p1, p2}
  MaxQty = 1
  MaxAdd = 1
  MaxItems = 2
  MaxTaps = 3
  MaxUpsets = 1
SYMMETRY Symmetry
INVARIANTS
  TypeOK
  StockAccounted
  SoldOutHidden
  TakesOnlyWhatItOrdered
  EmptiedCartShowsNothing
PROPERTIES
  HiddenForGood
  FailureOnlyAfterReload
CHECK_DEADLOCK FALSE
