SPECIFICATION Spec
CONSTANTS
  Orders = {o1}
  Drivers = {d1,d2}
  NoOrder = NoOrder
  NoDriver = NoDriver
  NoRow = NoRow
  Farmer = farmer
  DriverLen = 1
  Countdown = 0
  MaxPolls = 1
  MaxTaps = 1
  MaxFaults = 0
SYMMETRY DriverSymmetry
INVARIANTS
  DriverTookOrder
