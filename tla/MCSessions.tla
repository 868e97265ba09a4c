----------------------------- MODULE MCSessions -----------------------------
(* TLC instances of Sessions. *)
EXTENDS Sessions, TLC

MCSymmetry == Permutations(Slot)
=============================================================================
