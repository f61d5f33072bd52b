SPECIFICATION Spec
CONSTANTS
  Events = {e1}
  NoEvent = NoEvent
  Customers = {c1, c2}
  NoCustomer = NoCustomer
  Bookings = {b1, b2}
  Capacities = {1}
  MaxSaves = 0
  MaxFaults = 0
SYMMETRY Symmetry
INVARIANTS
  NoOversell
