------------------------------ MODULE MCHandler ------------------------------
(* Handler for TLC: clients are interchangeable model values. *)
EXTENDS HandlerQueue, TLC

Symmetry == Permutations(Clients)
=============================================================================
