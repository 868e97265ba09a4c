----------------------------- MODULE MCMessaging -----------------------------
(* TLC instances of Messaging: every conversation is between tenant t and     *)
(* landlord l; p1 and p2 are the carrier ids of two inbound texts.            *)
EXTENDS Messaging, TLC

CONSTANTS t, l, p1, p2

MCTenant == [c \in Conv |-> t]
MCLandlord == [c \in Conv |-> l]

FirstConv == CHOOSE c \in Conv : TRUE
ByText(u, k) == [conv |-> FirstConv, user |-> u, content |-> k]
\* The landlord answers by text; the tenant texts a phone number.
MCText == [p \in Inbound |-> IF p = p1 THEN ByText(l, "clean") ELSE ByText(t, "contact")]

MCSlotSymmetry == Permutations(Slot)
=============================================================================
