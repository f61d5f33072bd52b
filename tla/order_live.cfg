SPECIFICATION FairSpec
CONSTANTS
  Orders = {o1}
  Drivers = {d1}
  NoOrder = NoOrder
  NoDriver = NoDriver
  NoRow = NoRow
  Farmer = farmer
  DriverLen = 1
  Countdown = 2
  MaxPolls = 2
  MaxTaps = 1
  MaxFaults = 1
INVARIANTS
  TypeOK
  IdlessUntouched
  PollVerdictTrue
  TimeoutVerdictTrue
PROPERTIES
  AnswerOrLeave
