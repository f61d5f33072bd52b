SPECIFICATION Spec
CONSTANTS
  Events = {e1}
  NoEvent = NoEvent
  Customers = {c1}
  NoCustomer = NoCustomer
  Bookings = {b1}
  Capacities = {1, 2}
  MaxSaves = 1
  MaxFaults = 1
SYMMETRY Symmetry
INVARIANTS
  TypeOK
  NoTicketLost
  WithinCapacity
PROPERTIES
  KeepsContract
