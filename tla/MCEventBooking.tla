--------------------------- MODULE MCEventBooking ---------------------------
(***************************************************************************)
(* Instances of EventBooking for TLC.                                      *)
(***************************************************************************)
EXTENDS EventBooking, TLC

\* Customers and calls are interchangeable: only identity is ever compared.
Symmetry == Permutations(Customers) \cup Permutations(Bookings)

=============================================================================
