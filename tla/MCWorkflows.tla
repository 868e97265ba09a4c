------------------------------ MODULE MCWorkflows ------------------------------
(* Small instances of the small services; calls are interchangeable. *)
EXTENDS Workflows, TLC

Symmetry == Permutations(Slot)
=============================================================================
