SPECIFICATION Spec
CONSTANTS
  Orders = {o1,o2}
  Drivers = {}
  NoOrder = NoOrder
  NoDriver = NoDriver
  NoRow = NoRow
  Farmer = farmer
  DriverLen = 1
  Countdown = 2
  MaxPolls = 2
  MaxTaps = 1
  MaxFaults = 0
SYMMETRY OrderSymmetry
INVARIANTS
  RejectionHasCause
  TimerHasPage
  CountdownUntilAnswer
