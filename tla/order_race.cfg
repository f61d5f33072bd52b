SPECIFICATION Spec
CONSTANTS
  Orders = {o1}
  Drivers = {d1}
  NoOrder = NoOrder
  NoDriver = NoDriver
  NoRow = NoRow
  Farmer = farmer
  DriverLen = 2
  Countdown = 0
  MaxPolls = 1
  MaxTaps = 2
  MaxFaults = 0
PROPERTIES
  RegressOnlyFromStaleCopy
  KeepsContract
