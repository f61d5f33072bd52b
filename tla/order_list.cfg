SPECIFICATION Spec
CONSTANTS
  Orders = {o1,o2}
  Drivers = {d1}
  NoOrder = NoOrder
  NoDriver = NoDriver
  NoRow = NoRow
  Farmer = farmer
  DriverLen = 1
  Countdown = 0
  MaxPolls = 1
  MaxTaps = 1
  MaxFaults = 0
INVARIANTS
  DeliveryNeedsAcceptance
SYMMETRY OrderSymmetry
