-------------------------------- MODULE Upgrades --------------------------------
(***************************************************************************)
(* SubscriptionsService and the listing boosts of PropertiesService, for   *)
(* one landlord and one property.  Each row keeps one order at a time: a   *)
(* checkout replaces the order of the one before, and the provider's       *)
(* events are matched by order.  Any event of a paid order may be          *)
(* delivered any number of times, to both services.                        *)
(***************************************************************************)
EXTENDS ApiCalls

CONSTANT MaxCheckouts \* bound: checkouts at the provider

VARIABLES
    upgrades, \* LandlordSubscription, and the boost columns of Property
    checkouts \* orders at the payment provider

upgradeVars == <<upgrades, checkouts, call>>

Product == {"subscription", "boost"}
Tier == [subscription |-> {"PRO", "UNLIMITED"}, boost |-> {"BOOSTED"}]
AnyTier == {"PRO", "UNLIMITED", "BOOSTED"}
Unpaid == "none"
\* A boost has no column for what is pending: it is what is sold.  order 0 is null.
UpgradeRow == [tier : AnyTier \cup {Unpaid}, pending : AnyTier \cup {Unpaid}, order : Nat]
CheckoutRow == [product : Product, tier : AnyTier, paid : BOOLEAN]
UpgradeCall == [step : {"checkout"}, product : Product, tier : AnyTier]
               \cup [step : {"save"}, product : Product, tier : AnyTier, order : Nat]
               \cup [step : {"apply"}, product : Product, tier : AnyTier]

ASSUME UpgradesAssumption == MaxCheckouts \in Nat

UpgradesInit ==
    /\ upgrades = [p \in Product |-> [tier |-> Unpaid, order |-> 0,
                      pending |-> IF p = "boost" THEN "BOOSTED" ELSE Unpaid]]
    /\ checkouts = <<>>
    /\ call = NoCalls

\* createCheckout and purchaseBoost: nothing that is pending or in force is
\* looked at.
BeginPurchase(r, p, t) ==
    /\ Begin(r, [step |-> "checkout", product |-> p, tier |-> t])
    /\ UNCHANGED <<upgrades, checkouts>>

CreateCheckout(r) ==
    LET c == call[r] IN
    /\ At(r, "checkout") /\ Len(checkouts) < MaxCheckouts
    /\ checkouts' = Append(checkouts, [product |-> c.product, tier |-> c.tier, paid |-> FALSE])
    /\ call' = [call EXCEPT ![r] = [step |-> "save", product |-> c.product, tier |-> c.tier,
                                    order |-> Len(checkouts) + 1]]
    /\ UNCHANGED upgrades

SaveOrder(r) ==
    LET c == call[r] IN
    /\ At(r, "save")
    /\ upgrades' = [upgrades EXCEPT ![c.product].pending = c.tier, ![c.product].order = c.order]
    /\ Return(r)
    /\ UNCHANGED checkouts

PayCheckout(o) ==
    /\ ~checkouts[o].paid
    /\ checkouts' = [checkouts EXCEPT ![o].paid = TRUE]
    /\ UNCHANGED <<upgrades, call>>

\* The row with this order and something pending, as read: an order that was
\* replaced finds nothing.
BeginEvent(r, p, o) ==
    /\ checkouts[o].paid
    /\ upgrades[p].order = o /\ upgrades[p].pending # Unpaid
    /\ Begin(r, [step |-> "apply", product |-> p, tier |-> upgrades[p].pending])
    /\ UNCHANGED <<upgrades, checkouts>>

\* Mutant: what is pending by now is put in force.
ApplyPending(r) ==
    LET p == call[r].product IN
    /\ At(r, "apply")
    /\ upgrades' = [upgrades EXCEPT ![p] =
           IF p = "boost" THEN [@ EXCEPT !.tier = "BOOSTED", !.order = 0]
           ELSE [@ EXCEPT !.tier = upgrades[p].pending, !.pending = Unpaid]]
    /\ Return(r)
    /\ UNCHANGED checkouts

\* The tier that was pending when the row was read is put in force; a
\* subscription clears what is pending, a boost its order, whatever they are now.
ApplyEvent(r) ==
    LET p == call[r].product IN
    /\ At(r, "apply")
    /\ upgrades' = [upgrades EXCEPT ![p] =
           IF p = "boost" THEN [@ EXCEPT !.tier = "BOOSTED", !.order = 0]
           ELSE [@ EXCEPT !.tier = call[r].tier, !.pending = Unpaid]]
    /\ Return(r)
    /\ UNCHANGED checkouts

AbortUpgrade(r) == Abort(r) /\ UNCHANGED <<upgrades, checkouts>>

UpgradesNext ==
    \/ \E r \in Slot :
          \/ \E p \in Product : \/ \E t \in Tier[p] : BeginPurchase(r, p, t)
                                \/ \E o \in DOMAIN checkouts : BeginEvent(r, p, o)
          \/ CreateCheckout(r) \/ SaveOrder(r) \/ ApplyEvent(r) \/ AbortUpgrade(r)
    \/ \E o \in DOMAIN checkouts : PayCheckout(o)

UpgradesSpec == UpgradesInit /\ [][UpgradesNext]_upgradeVars

-----------------------------------------------------------------------------
(* Properties *)

\* Rows, orders and calls have their shape.
UpgradesTypeOK ==
    /\ upgrades \in [Product -> UpgradeRow]
    /\ checkouts \in Seq(CheckoutRow)
    /\ \A r \in Slot : call[r] \in {Free} \cup UpgradeCall

\* However checkouts overlap with each other and with late, repeated events: the
\* tier in force is one the landlord paid for, never the one of a checkout that
\* was opened since and not paid.
TierPaidFor ==
    \A p \in Product : upgrades[p].tier # Unpaid =>
        \E o \in DOMAIN checkouts : /\ checkouts[o].product = p /\ checkouts[o].paid
                                    /\ checkouts[o].tier = upgrades[p].tier

=============================================================================
