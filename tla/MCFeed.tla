------------------------------- MODULE MCFeed -------------------------------
(* Instruments are interchangeable. *)
EXTENDS Feed, TLC

Symmetry == Permutations(Instruments)
=============================================================================
