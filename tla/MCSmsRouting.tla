---------------------------- MODULE MCSmsRouting ----------------------------
(* TLC instances of SmsRouting: tenant t has conversations c1 and c2 with     *)
(* landlord l through number k1, and c3 (when there is one) through k2.       *)
EXTENDS SmsRouting

CONSTANTS t, l, k1, k2, c3, ask, ask2, ask3, pick, pick2

MCTenant == [c \in Conv |-> t]
MCLandlord == [c \in Conv |-> l]
MCRelayOf == [c \in Conv |-> IF c = c3 THEN k2 ELSE k1]
\* ask and ask2 are ordinary texts to k1, ask3 one to k2; pick and pick2 say "1" and "2".
MCText == [p \in Inbound |-> [conv |-> CHOOSE c \in Conv : TRUE, user |-> t, content |-> "clean"]]
MCSentTo == [p \in Inbound |-> IF p = ask3 THEN k2 ELSE k1]
MCPick == [p \in Inbound |-> CASE p = pick -> 1 [] p = pick2 -> 2 [] OTHER -> 0]

MCSlotSymmetry == Permutations(Slot)
=============================================================================
