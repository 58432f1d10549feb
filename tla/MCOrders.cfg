SPECIFICATION Spec
CONSTANTS
  Ids = {o1}
  Customers = {c1, c2}
  Guest = Guest
  Workers = {w1, w2}
  Asked = {"processing", "shipped", "cancelled", "paid", "fulfilled"}
  MaxRequests = 3
  MaxQuantity = 2
  Missing = Missing
INVARIANTS
  HistoryTells
  OneCart
PROPERTIES
  CancelledInTime
SYMMETRY Symmetry
CHECK_DEADLOCK FALSE
