-------------------------- MODULE MCSponsoredListing --------------------------
(* TLC instances of SponsoredListing. *)
EXTENDS SponsoredListing, TLC

MCSymmetry == Permutations(Slot) \cup Permutations(Worker) \cup Permutations(Tenant)
=============================================================================
