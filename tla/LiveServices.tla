------------------------------ MODULE LiveServices ------------------------------
(***************************************************************************)
(* What the API promises to get done: the routing of texts (SmsRouting),   *)
(* the payments of a job listing (SponsoredListing) and those of the other *)
(* paid requests (PaidRequests) under their fairness.  The three share no  *)
(* row and no request, so a behaviour exercises one of them, `part'.       *)
(***************************************************************************)
EXTENDS SmsRouting

CONSTANTS
    Caller,  \* API requests of the paid services served at the same time
    Worker,  \* webhook deliveries handled at the same time
    Payer,
    Kind,
    Cost, InitialBudget, TopUpBudget,
    MaxOrders, MaxMonth

\* The deliveries are not served in a caller's slot, nobody is called "none", and
\* an initial budget covers at least one click.
ASSUME ServicesAssumption ==
    /\ Worker # {} /\ Caller \cap Worker = {} /\ "none" \notin Payer
    /\ Kind \subseteq {"gig", "hqs", "screening", "application"}
    /\ Cost \in Nat \ {0} /\ InitialBudget \in Nat /\ InitialBudget >= Cost
    /\ TopUpBudget \in Nat /\ MaxOrders \in Nat /\ MaxMonth \in Nat

VARIABLES
    part,
    listing, orders, clicks, today, month, job,    \* SponsoredListing
    credited, served, raced, overtaken,
    row, checkouts, vouchers, call, crossed        \* PaidRequests

listingVars == <<listing, orders, clicks, today, month, job, credited, served, raced,
                 overtaken>>
requestVars == <<row, checkouts, vouchers, call, crossed>>
servicesVars == <<part, allVars, listingVars, requestVars>>

Listing == INSTANCE SponsoredListing WITH
               Slot <- Caller, Tenant <- {}, MaxDay <- 1 \* no clicks
Paid == INSTANCE PaidRequests WITH
            Slot <- Caller, Tenant <- Payer, orders <- checkouts, job <- call,
            overtaken <- crossed

ServicesInit ==
    /\ part \in {"texts", "listing", "requests"}
    /\ RoutingInit /\ Listing!Init /\ Paid!Init
    /\ part # "requests" => row.kind = "gig" \* where no request is made, of any kind

Texts(A) == part = "texts" /\ A /\ UNCHANGED <<part, listingVars, requestVars>>
Listings(A) == part = "listing" /\ A /\ UNCHANGED <<part, allVars, requestVars>>
Requests(A) == part = "requests" /\ A /\ UNCHANGED <<part, allVars, listingVars>>

ServicesNext == Texts(RoutingNext) \/ Listings(Listing!Next) \/ Requests(Paid!Next)

\* The event loop runs the requests it accepted, and the provider redelivers an
\* event until a delivery has been handled.
ServicesSpec ==
    /\ ServicesInit /\ [][ServicesNext]_servicesVars
    /\ \A r \in Slot :
          WF_servicesVars(Texts(RouteStep(r) \/ (Serve(r) /\ UNCHANGED routingVars)))
    /\ \A w \in Worker : WF_servicesVars(Listings(Listing!Deliver(w) \/ Listing!HandleWebhook(w)))
    /\ \A w \in Worker : WF_servicesVars(Requests(Paid!Deliver(w) \/ Paid!HandleWebhook(w)))

-----------------------------------------------------------------------------
(* Properties, stated by the modules of the parts *)

\* The listing is not shown for more months than its poster paid the fee for, as
\* long as no two deliveries of one fee overlapped.
ServedMonthsPaid == Listing!ServedMonthsPaid

\* Money taken for a listing that stays open is eventually applied to it, unless
\* its checkout was overtaken.
PaidOrderIsApplied == Listing!PaidOrderIsApplied

\* What was paid for is recorded as paid, unless the request was called off or its
\* checkout was overtaken.
PaymentIsRecorded == Paid!PaymentIsRecorded

=============================================================================
