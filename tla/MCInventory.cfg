SPECIFICATION Spec
CONSTANTS
  Items = {i1, i2}
  Reservations = {r1, r2}
  NoReservation = NoReservation
  Workers = {w1, w2}
  Quantities <- MCOne
  Requests <- MCAllRequests
  MaxRequests = 3
  InitialStock = 2
  ReorderLevel = 1
  MaxLevel = 2
  MayCrash = TRUE
INVARIANTS
  UndisturbedBalance
  UndisturbedAlerts
PROPERTIES
  SettledOnce
SYMMETRY MCSymmetry
CHECK_DEADLOCK FALSE
