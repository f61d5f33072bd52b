SPECIFICATION FairSpec
CONSTANTS
  Orders = {o1}
  Drivers = {}
  NoOrder = NoOrder
  NoDriver = NoDriver
  NoRow = NoRow
  Farmer = farmer
  DriverLen = 1
  Countdown = 1
  MaxPolls = 1
  MaxTaps = 1
  MaxFaults = 0
PROPERTIES
  TimeoutMeansNoResponse
