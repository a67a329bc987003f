------------------------------ MODULE MCOperations ------------------------------
(* Two clients of one core, each calling again and again. *)
EXTENDS Operations, TLC
MCSymmetry == Permutations(Clients)
=================================================================================
