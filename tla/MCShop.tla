------------------------------- MODULE MCShop -------------------------------
(***************************************************************************)
(* Instances of Shop for TLC.                                              *)
(***************************************************************************)
EXTENDS Shop, TLC

\* Customers and products are interchangeable: only identity is compared.
Symmetry == Permutations(Customers) \cup Permutations(Products)

=============================================================================
