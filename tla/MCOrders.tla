------------------------------ MODULE MCOrders ------------------------------
(* Order ids are interchangeable. *)
EXTENDS Orders, TLC

Symmetry == Permutations(Ids)
=============================================================================
