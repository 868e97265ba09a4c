---------------------------- MODULE MCPaidRequests ----------------------------
(* TLC instances of PaidRequests. *)
EXTENDS PaidRequests, TLC

MCSymmetry == Permutations(Slot) \cup Permutations(Worker) \cup Permutations(Tenant)
=============================================================================
