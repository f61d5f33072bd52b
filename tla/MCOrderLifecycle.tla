-------------------------- MODULE MCOrderLifecycle --------------------------
(***************************************************************************)
(* Symmetry sets for the instances of OrderLifecycle that TLC checks.      *)
(***************************************************************************)
EXTENDS OrderLifecycle, TLC

\* Drivers are interchangeable: only their identity is ever compared.
DriverSymmetry == Permutations(Drivers)

\* So are orders: no document id is compared but for equality.
OrderSymmetry == Permutations(Orders)

=============================================================================
