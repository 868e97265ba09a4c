--------------------------- MODULE SponsoredListing ---------------------------
(***************************************************************************)
(* JobReferralsService, the sponsored side: one employer's prepaid listing,*)
(* its checkouts, the payment webhooks and the clicks billed against its   *)
(* budget.  API requests run in Slot, webhook deliveries in Worker; each   *)
(* is a chain of separate statements.  The payment provider delivers the   *)
(* event of a paid order any number of times.                              *)
(*                                                                         *)
(* Organic referrals (create, close) carry no money and are the case of a  *)
(* listing without orders.  Time: today for clickDate, month for           *)
(* currentPeriodEnd, which an update sets as an absolute date.             *)
(***************************************************************************)
EXTENDS Integers, Sequences, FiniteSets

CONSTANTS
    Slot,          \* API requests served at the same time
    Worker,        \* webhook deliveries handled at the same time
    Tenant,
    Cost,          \* costPerClickCents
    InitialBudget, \* dto.initialBudgetCents
    TopUpBudget,   \* dto.additionalBudgetCents
    MaxOrders,     \* bound: checkouts created
    MaxDay,        \* bound: days on which tenants click
    MaxMonth,      \* bound: billing periods that pass
    Faults         \* TRUE: a request may die between two statements

VARIABLES
    listing, \* the JobReferral row
    orders,  \* checkouts at the payment provider
    clicks,  \* JobReferralClick rows
    today, month,
    job,     \* per slot and worker, the request being served
    credited, \* history: budget the webhooks have credited
    served,   \* history: months the listing stood ACTIVE within its period
    raced,    \* history: orders with two deliveries in progress at the same time
    overtaken \* history: orders saved while another call was about to write the row

vars == <<listing, orders, clicks, today, month, job, credited, served, raced, overtaken>>

None == "none"
Op == {"ACTIVATE", "TOPUP", "RENEW"}
ListingStatus == {"absent", "PENDING_PAYMENT", "ACTIVE", "CLOSED"}
ListingRow == [status : ListingStatus, budget : Nat, clickCount : Nat, periodEnd : Nat,
               pending : Op \cup {None}, pendingBudget : Nat, order : Nat]
\* offered: the poster was shown the checkout; applied is history.
OrderRow == [op : Op, paid : BOOLEAN, offered : BOOLEAN, applied : Nat]

Idle == [step |-> "idle"]
ApiJob == [step : {"checkout"}, op : Op, budget : Nat]
          \cup [step : {"saveCheckout"}, op : Op, budget : Nat, order : Nat]
          \cup [step : {"insertClick"}, tenant : Tenant]
          \cup [step : {"bill"}]
WebhookJob == [step : {"apply"}, snap : ListingRow]

\* An initial budget covers at least one click.
ASSUME ListingAssumption ==
    /\ Slot \cap Worker = {}
    /\ Cost \in Nat \ {0} /\ InitialBudget \in Nat /\ InitialBudget >= Cost
    /\ TopUpBudget \in Nat
    /\ MaxOrders \in Nat /\ MaxDay \in Nat /\ MaxMonth \in Nat /\ Faults \in BOOLEAN

At(r, s) == job[r].step = s
Done(r) == job' = [job EXCEPT ![r] = Idle]
Begin(r, j) == At(r, "idle") /\ job' = [job EXCEPT ![r] = j]

\* Bound: a checkout starts only while its order would still fit.
RoomForOrder == Len(orders) + Cardinality({r \in Slot : At(r, "checkout")}) < MaxOrders

BudgetOf(op) == CASE op = "ACTIVATE" -> InitialBudget
                  [] op = "TOPUP" -> TopUpBudget
                  [] OTHER -> 0

\* Mutant: the day the period ends still counts.
BillableAtEnd == listing.status = "ACTIVE" /\ listing.periodEnd >= month

\* What tenants are shown and may click: an open listing within its period.
Billable == listing.status = "ACTIVE" /\ listing.periodEnd > month

Init ==
    /\ listing = [status |-> "absent", budget |-> 0, clickCount |-> 0, periodEnd |-> 0,
                  pending |-> None, pendingBudget |-> 0, order |-> 0]
    /\ orders = <<>>
    /\ clicks = {}
    /\ today = 1 /\ month = 1
    /\ job = [r \in Slot \cup Worker |-> Idle]
    /\ credited = 0 /\ served = 0 /\ raced = {} /\ overtaken = {}

-----------------------------------------------------------------------------
(* Checkouts *)

CreateSponsored(r) ==
    /\ listing.status = "absent" /\ RoomForOrder
    /\ listing' = [listing EXCEPT !.status = "PENDING_PAYMENT", !.pending = "ACTIVATE",
                                  !.pendingBudget = InitialBudget]
    /\ Begin(r, [step |-> "checkout", op |-> "ACTIVATE", budget |-> InitialBudget])
    /\ UNCHANGED <<orders, clicks, today, month, credited, served, raced, overtaken>>

\* Mutant: a payment in progress is not looked at.
BeginCheckoutAnyTime(r, op) ==
    /\ listing.status \in {"PENDING_PAYMENT", "ACTIVE"}
    /\ RoomForOrder
    /\ Begin(r, [step |-> "checkout", op |-> op, budget |-> BudgetOf(op)])
    /\ UNCHANGED <<listing, orders, clicks, today, month, credited, served, raced, overtaken>>

\* topUp and renew, once requireOwnSponsoredListing has read the row.
BeginCheckout(r, op) ==
    /\ listing.status \in {"PENDING_PAYMENT", "ACTIVE"}
    /\ listing.pending = None
    /\ RoomForOrder
    /\ Begin(r, [step |-> "checkout", op |-> op, budget |-> BudgetOf(op)])
    /\ UNCHANGED <<listing, orders, clicks, today, month, credited, served, raced, overtaken>>

\* createCheckout at the provider.
Checkout(r) ==
    /\ At(r, "checkout")
    /\ orders' = Append(orders, [op |-> job[r].op, paid |-> FALSE, offered |-> FALSE,
                                 applied |-> 0])
    /\ job' = [job EXCEPT ![r] = [step |-> "saveCheckout", op |-> job[r].op,
                                  budget |-> job[r].budget, order |-> Len(orders) + 1]]
    /\ UNCHANGED <<listing, clicks, today, month, credited, served, raced, overtaken>>

\* Between its read of the row and its write: a checkout or a delivery.
AboutToWrite(r) == job[r].step \in {"checkout", "saveCheckout", "apply"}

\* The row takes over the new order, whatever it holds by now; the poster gets
\* the checkout link.
SaveCheckout(r) ==
    LET j == job[r] IN
    /\ At(r, "saveCheckout")
    /\ listing' = IF j.op = "ACTIVATE" THEN [listing EXCEPT !.order = j.order]
                  ELSE [listing EXCEPT !.order = j.order, !.pending = j.op,
                                       !.pendingBudget = j.budget]
    /\ orders' = [orders EXCEPT ![j.order].offered = TRUE]
    /\ overtaken' = overtaken \cup
           {o \in {j.order} : \E s \in (Slot \cup Worker) \ {r} : AboutToWrite(s)}
    /\ Done(r)
    /\ UNCHANGED <<clicks, today, month, credited, served, raced>>

Close ==
    /\ listing.status \in {"PENDING_PAYMENT", "ACTIVE"}
    /\ listing' = [listing EXCEPT !.status = "CLOSED"]
    /\ UNCHANGED <<orders, clicks, today, month, job, credited, served, raced, overtaken>>

-----------------------------------------------------------------------------
(* Payment webhooks *)

\* The poster pays at the provider's page.
Pay(o) ==
    /\ orders[o].offered /\ ~orders[o].paid
    /\ orders' = [orders EXCEPT ![o].paid = TRUE]
    /\ UNCHANGED <<listing, clicks, today, month, job, credited, served, raced, overtaken>>

Applying(w, o) == At(w, "apply") /\ job[w].snap.order = o

\* Mutant: an event is taken for a payment whatever its status.
BeginWebhookUnpaid(w, o) ==
    /\ listing.order = o /\ listing.pending # None
    /\ Begin(w, [step |-> "apply", snap |-> listing])
    /\ raced' = raced \cup {p \in {o} : \E v \in Worker : Applying(v, p)}
    /\ UNCHANGED <<listing, orders, clicks, today, month, credited, served, overtaken>>

\* The event of a paid order finds the listing by its order, with an operation
\* still pending; any other event changes nothing.
BeginWebhook(w, o) ==
    /\ orders[o].paid
    /\ listing.order = o /\ listing.pending # None
    /\ Begin(w, [step |-> "apply", snap |-> listing])
    /\ raced' = raced \cup {p \in {o} : \E v \in Worker : Applying(v, p)}
    /\ UNCHANGED <<listing, orders, clicks, today, month, credited, served, overtaken>>

\* Mutant: a top-up sets the budget.
ApplySetsBudget(w) ==
    LET snap == job[w].snap
        op == snap.pending
        base == IF op = "RENEW" /\ snap.periodEnd > month THEN snap.periodEnd ELSE month
    IN
    /\ At(w, "apply")
    /\ snap.status # "CLOSED"
    /\ listing' = [listing EXCEPT !.pending = None, !.pendingBudget = 0,
           !.budget = IF op = "RENEW" THEN @ ELSE snap.pendingBudget,
           !.status = IF op = "TOPUP" THEN @ ELSE "ACTIVE",
           !.periodEnd = IF op = "TOPUP" THEN @ ELSE base + 1]
    /\ credited' = credited + snap.pendingBudget
    /\ orders' = [orders EXCEPT ![snap.order].applied = @ + 1]
    /\ Done(w)
    /\ UNCHANGED <<clicks, today, month, served, raced, overtaken>>

\* Mutant: the pending operation is left in place.
ApplyKeepsPending(w) ==
    LET snap == job[w].snap
        op == snap.pending
        base == IF op = "RENEW" /\ snap.periodEnd > month THEN snap.periodEnd ELSE month
    IN
    /\ At(w, "apply")
    /\ snap.status # "CLOSED"
    /\ listing' = [listing EXCEPT
           !.budget = CASE op = "ACTIVATE" -> snap.pendingBudget
                        [] op = "TOPUP" -> @ + snap.pendingBudget
                        [] OTHER -> @,
           !.status = IF op = "TOPUP" THEN @ ELSE "ACTIVE",
           !.periodEnd = IF op = "TOPUP" THEN @ ELSE base + 1]
    /\ credited' = credited + snap.pendingBudget
    /\ orders' = [orders EXCEPT ![snap.order].applied = @ + 1]
    /\ Done(w)
    /\ UNCHANGED <<clicks, today, month, served, raced, overtaken>>

\* The payment of a listing closed before the lookup is only acknowledged.
Acknowledge(w) ==
    /\ At(w, "apply")
    /\ job[w].snap.status = "CLOSED"
    /\ listing' = [listing EXCEPT !.pending = None, !.pendingBudget = 0]
    /\ Done(w)
    /\ UNCHANGED <<orders, clicks, today, month, credited, served, raced, overtaken>>

\* The operation the lookup found is applied to the row as it is now: a budget
\* is set or incremented, a period end is computed from the row as it was.
ApplyPayment(w) ==
    LET snap == job[w].snap
        op == snap.pending
        base == IF op = "RENEW" /\ snap.periodEnd > month THEN snap.periodEnd ELSE month
    IN
    /\ At(w, "apply")
    /\ snap.status # "CLOSED"
    /\ listing' = [listing EXCEPT !.pending = None, !.pendingBudget = 0,
           !.budget = CASE op = "ACTIVATE" -> snap.pendingBudget
                        [] op = "TOPUP" -> @ + snap.pendingBudget
                        [] OTHER -> @,
           !.status = IF op = "TOPUP" THEN @ ELSE "ACTIVE",
           !.periodEnd = IF op = "TOPUP" THEN @ ELSE base + 1]
    /\ credited' = credited + snap.pendingBudget
    /\ orders' = [orders EXCEPT ![snap.order].applied = @ + 1]
    /\ Done(w)
    /\ UNCHANGED <<clicks, today, month, served, raced, overtaken>>

-----------------------------------------------------------------------------
(* Clicks *)

BeginClick(r, t) ==
    /\ Billable
    /\ Begin(r, [step |-> "insertClick", tenant |-> t])
    /\ UNCHANGED <<listing, orders, clicks, today, month, credited, served, raced, overtaken>>

\* Mutant: a second click of the day goes on to the billing.
InsertClickTwice(r) ==
    /\ At(r, "insertClick")
    /\ clicks' = clicks \cup {<<job[r].tenant, today>>}
    /\ job' = [job EXCEPT ![r] = [step |-> "bill"]]
    /\ UNCHANGED <<listing, orders, today, month, credited, served, raced, overtaken>>

\* One click row per tenant and day; a second one ends the request unbilled.
InsertClick(r) ==
    LET row == <<job[r].tenant, today>> IN
    /\ At(r, "insertClick")
    /\ clicks' = clicks \cup {row}
    /\ job' = [job EXCEPT ![r] = IF row \in clicks THEN Idle ELSE [step |-> "bill"]]
    /\ UNCHANGED <<listing, orders, today, month, credited, served, raced, overtaken>>

\* Mutant: the decrement is not conditional on the budget.
BillAlways(r) ==
    /\ At(r, "bill")
    /\ listing' = [listing EXCEPT !.budget = @ - Cost, !.clickCount = @ + 1]
    /\ Done(r)
    /\ UNCHANGED <<orders, clicks, today, month, credited, served, raced, overtaken>>

\* One conditional update: decrement and count, or neither.
Bill(r) ==
    /\ At(r, "bill")
    /\ listing' = IF listing.budget >= Cost
                  THEN [listing EXCEPT !.budget = @ - Cost, !.clickCount = @ + 1]
                  ELSE listing
    /\ Done(r)
    /\ UNCHANGED <<orders, clicks, today, month, credited, served, raced, overtaken>>

-----------------------------------------------------------------------------
(* Time and faults *)

NextDay ==
    /\ today < MaxDay
    /\ today' = today + 1
    /\ UNCHANGED <<listing, orders, clicks, month, job, credited, served, raced, overtaken>>

\* Bound: months are counted from the first billing period.
MonthPasses ==
    /\ month < MaxMonth /\ listing.periodEnd > 0
    /\ month' = month + 1
    /\ served' = served + IF Billable THEN 1 ELSE 0
    /\ UNCHANGED <<listing, orders, clicks, today, job, credited, raced, overtaken>>

Abort(r) ==
    /\ Faults /\ ~At(r, "idle")
    /\ Done(r)
    /\ UNCHANGED <<listing, orders, clicks, today, month, credited, served, raced, overtaken>>

Request(r) ==
    \/ CreateSponsored(r)
    \/ \E op \in {"TOPUP", "RENEW"} : BeginCheckout(r, op)
    \/ \E t \in Tenant : BeginClick(r, t)

Deliver(w) == \E o \in DOMAIN orders : BeginWebhook(w, o)
HandleWebhook(w) == Acknowledge(w) \/ ApplyPayment(w)

Next ==
    \/ \E r \in Slot : Request(r) \/ Checkout(r) \/ SaveCheckout(r) \/ InsertClick(r) \/ Bill(r)
    \/ \E w \in Worker : Deliver(w) \/ HandleWebhook(w)
    \/ \E r \in Slot \cup Worker : Abort(r)
    \/ \E o \in DOMAIN orders : Pay(o)
    \/ Close \/ NextDay \/ MonthPasses

Spec == Init /\ [][Next]_vars
\* The provider redelivers an event until a delivery has been handled.
FairSpec == Spec /\ \A w \in Worker : WF_vars(Deliver(w) \/ HandleWebhook(w))

-----------------------------------------------------------------------------
(* Properties *)

\* Rows, orders and requests have their shape; in particular the budget, which
\* every request decrements or increments without a lock, is never negative.
TypeOK ==
    /\ listing \in ListingRow
    /\ orders \in Seq(OrderRow) /\ listing.order \in 0..Len(orders)
    /\ clicks \subseteq Tenant \X Nat /\ today \in Nat /\ month \in Nat
    /\ \A r \in Slot : job[r] \in {Idle} \cup ApiJob
    /\ \A w \in Worker : job[w] \in {Idle} \cup WebhookJob
    /\ credited \in Nat /\ served \in Nat
    /\ raced \subseteq DOMAIN orders /\ overtaken \subseteq DOMAIN orders

\* The ledger: what is left plus what was billed is what the payments credited,
\* through every interleaving of clicks, top-ups, deliveries and crashes.  Only
\* the first payment sets the budget where the others increment it: if two of its
\* deliveries overlapped (raced), money may be missing, but none is made up.
BudgetLedger ==
    LET used == listing.budget + Cost * listing.clickCount IN
    used <= credited /\ (used < credited => 1 \in raced)

L == INSTANCE Ledger WITH Price <- Cost, Amount <- {BudgetOf(op) : op \in Op},
                         Opening <- InitialBudget, balance <- listing.budget,
                         billed <- listing.clickCount, overlapped <- 1 \in raced

\* The listing is a ledger (module Ledger): each step of a request or a webhook
\* leaves the budget alone, credits one advertised amount or bills one click the
\* budget covers, and never two of these at once; it starts over from the opening
\* amount only if deliveries of the first payment overlapped.
ImplementsLedger == L!LedgerSpec

\* schema.prisma: clearing pendingOperation "is also what makes a replayed
\* webhook event a safe no-op".  It does unless deliveries overlap: an order is
\* applied twice only if two of its own deliveries were in progress at once, and
\* no order that was not paid is applied.
CreditedOnce ==
    \A o \in DOMAIN orders :
        /\ orders[o].applied > 1 => o \in raced
        /\ orders[o].applied > 0 => orders[o].paid

\* The same comment, without the exception: clicks billed and budget left are
\* covered by what the employer paid.
NoUnpaidBudget ==
    LET Paid(op) == {o \in DOMAIN orders : orders[o].paid /\ orders[o].op = op}
    IN listing.budget + Cost * listing.clickCount
           <= InitialBudget * Cardinality(Paid("ACTIVATE")) + TopUpBudget * Cardinality(Paid("TOPUP"))

\* The employer is never billed more clicks than there were tenant-days.
OneBillPerTenantDay == listing.clickCount <= Cardinality(clicks)

\* The listing is not shown for more months than its poster paid the fee for,
\* however renewals, late deliveries and the end of a period interleave, as long
\* as no two deliveries of one fee overlapped.
ServedMonthsPaid ==
    (\A o \in raced : orders[o].op = "TOPUP")
        => served <= Cardinality({o \in DOMAIN orders : orders[o].paid /\ orders[o].op # "TOPUP"})

\* A checkout the poster was offered and has not been credited for.
Unanswered(o) == orders[o].offered /\ orders[o].applied = 0

\* While the listing is open, a checkout the poster may still pay is the one the
\* row awaits, with its operation; it is lost only if, when it was saved, another
\* call that had read the row before was still to write it.
OneOrderAwaiting ==
    \A o \in DOMAIN orders :
        Unanswered(o) /\ listing.status # "CLOSED" /\ o \notin overtaken
            => listing.order = o /\ listing.pending = orders[o].op

\* README.md: "A second top-up/renew while one is already awaiting payment is
\* rejected": there are never two checkouts to pay.
SecondCheckoutRejected ==
    \A o, p \in DOMAIN orders : Unanswered(o) /\ Unanswered(p) => o = p

\* Money taken for a listing that stays open is eventually applied to it, unless
\* another call was still to write the row when the checkout was saved.
PaidOrderIsApplied ==
    \A o \in 1..MaxOrders :
        (o \in DOMAIN orders /\ orders[o].paid)
            ~> \/ listing.status = "CLOSED" \/ o \in overtaken
               \/ o \in DOMAIN orders /\ orders[o].applied >= 1

=============================================================================
