----------------------------- MODULE PaidRequests -----------------------------
(***************************************************************************)
(* The requests that are paid for through the one payment provider: a gig  *)
(* job and its voucher, an HQS pre-inspection, a tenant screening and a    *)
(* rental application with its fee.  One row of one kind.                  *)
(*                                                                         *)
(* Every endpoint of the four services reads the row, checks its status,   *)
(* perhaps sends an e-mail, and then updates the row by its id: the update *)
(* does not look at the status again, so each operation is two steps and   *)
(* the operations are a table.  Endpoints run in Slot, deliveries of       *)
(* PaymentWebhooksController in Worker; the provider delivers the event of *)
(* a paid order any number of times, and exactly the handler whose lookup  *)
(* finds the order in its own table acts on it.                            *)
(***************************************************************************)
EXTENDS Naturals, Sequences, FiniteSets

CONSTANTS
    Slot,      \* API requests served at the same time
    Worker,    \* webhook deliveries handled at the same time
    Kind,      \* the kinds of request
    Tenant,    \* the tenants who may claim a gig
    MaxOrders, \* bound: checkouts created
    Faults     \* TRUE: a request may die between two statements

VARIABLES
    row,      \* the request's row
    orders,   \* checkouts at the payment provider
    vouchers, \* GigVoucher rows of the job
    job,      \* per slot and worker, the call being served
    overtaken \* history: orders saved while another call was about to save its own

vars == <<row, orders, vouchers, job, overtaken>>

None == "none"

GigStatus == {"OPEN", "CLAIMED", "COMPLETED", "CONFIRMED", "CANCELLED"}
HqsStatus == {"AWAITING_PAYMENT", "PAID", "REQUESTED", "CANCELLED"}
ScreeningStatus == {"AWAITING_TENANT_AUTHORIZATION", "PAID", "SUBMITTED_EXTERNALLY",
                    "COMPLETE", "DECLINED", "CANCELLED"}
ApplicationStatus == {"STARTED", "SUBMITTED", "UNDER_REVIEW", "APPROVED", "DENIED",
                      "WITHDRAWN"}
StatusOf(k) == CASE k = "gig" -> GigStatus
                 [] k = "hqs" -> HqsStatus
                 [] k = "screening" -> ScreeningStatus
                 [] k = "application" -> ApplicationStatus

\* The status a new row is created with.
FirstStatus(k) == CASE k = "gig" -> "OPEN"
                    [] k = "hqs" -> "AWAITING_PAYMENT"
                    [] k = "screening" -> "AWAITING_TENANT_AUTHORIZATION"
                    [] k = "application" -> "STARTED"

(***************************************************************************)
(* The operations: the statuses an endpoint accepts and the one it writes. *)
(***************************************************************************)
Operation(name, from, to) == [op |-> name, from |-> from, to |-> to]

GigOps == {
    Operation("claim", {"OPEN"}, "CLAIMED"),
    Operation("markComplete", {"CLAIMED"}, "COMPLETED"),
    Operation("rejectCompletion", {"COMPLETED"}, "CLAIMED"),
    Operation("cancel", {"OPEN", "CLAIMED"}, "CANCELLED")}

HqsOps == {
    Operation("cancel", {"AWAITING_PAYMENT", "PAID"}, "CANCELLED"),
    Operation("request", {"PAID"}, "REQUESTED")}

TenantScreeningOps == {Operation("decline", {"AWAITING_TENANT_AUTHORIZATION"}, "DECLINED")}

\* Mutant: the hand-off to the screening company does not wait for the payment.
StaffScreeningOpsUnpaid == {
    Operation("markSubmittedExternally", {"AWAITING_TENANT_AUTHORIZATION", "PAID"},
              "SUBMITTED_EXTERNALLY"),
    Operation("uploadResult", {"PAID", "SUBMITTED_EXTERNALLY"}, "COMPLETE"),
    Operation("cancelByAdmin", {"AWAITING_TENANT_AUTHORIZATION", "PAID", "SUBMITTED_EXTERNALLY"},
              "CANCELLED")}

StaffScreeningOps == {
    Operation("markSubmittedExternally", {"PAID"}, "SUBMITTED_EXTERNALLY"),
    Operation("uploadResult", {"PAID", "SUBMITTED_EXTERNALLY"}, "COMPLETE"),
    Operation("cancelByAdmin", {"AWAITING_TENANT_AUTHORIZATION", "PAID", "SUBMITTED_EXTERNALLY"},
              "CANCELLED")}

\* An edit of a withdrawn or denied application starts it again.
EditOps == {Operation("update", {"STARTED", "WITHDRAWN", "DENIED"}, "STARTED")}

ApplicantOps == {
    Operation("submit", {"STARTED"}, "SUBMITTED"),
    Operation("withdraw", {"SUBMITTED", "UNDER_REVIEW"}, "WITHDRAWN")}

DecisionOps == {
    Operation("markUnderReview", {"SUBMITTED"}, "UNDER_REVIEW"),
    Operation("decide", {"SUBMITTED", "UNDER_REVIEW"}, "APPROVED"),
    Operation("decide", {"SUBMITTED", "UNDER_REVIEW"}, "DENIED")}

OpsOf(k) == CASE k = "gig" -> GigOps
              [] k = "hqs" -> HqsOps
              [] k = "screening" -> TenantScreeningOps \cup StaffScreeningOps
              [] k = "application" -> EditOps \cup ApplicantOps \cup DecisionOps

AnyStatus == GigStatus \cup HqsStatus \cup ScreeningStatus \cup ApplicationStatus
OpName == {"claim", "markComplete", "rejectCompletion", "cancel", "request", "decline",
           "markSubmittedExternally", "uploadResult", "cancelByAdmin", "update", "submit",
           "withdraw", "markUnderReview", "decide"}

\* order is paymentOrderId and stands for checkoutUrl, written with it; 0 is null.
\* paid is paidAt, fee is TRUE when feeCents is set.
RequestRow == [kind : {"gig", "hqs", "screening", "application"}, status : AnyStatus \cup {"absent"},
               fee : BOOLEAN, paid : BOOLEAN, order : Nat, claimedBy : Tenant \cup {None}]
OrderRow == [paid : BOOLEAN, offered : BOOLEAN] \* offered: the payer was given the link
VoucherRow == [tenant : Tenant]

Idle == [step |-> "idle"]
ApiJob == [step : {"update"}, op : OpName, to : AnyStatus, tenant : Tenant \cup {None}]
          \cup [step : {"checkout"}]
          \cup [step : {"saveCheckout"}, order : Nat]
WebhookJob == [step : {"apply"}, tenant : Tenant \cup {None}]

\* A slot is not a worker, and nobody is called "none".
ASSUME PaidRequestsAssumption ==
    /\ Slot \cap Worker = {}
    /\ Kind \subseteq {"gig", "hqs", "screening", "application"}
    /\ None \notin Tenant
    /\ MaxOrders \in Nat /\ Faults \in BOOLEAN

At(r, s) == job[r].step = s
Done(r) == job' = [job EXCEPT ![r] = Idle]
Begin(r, j) == At(r, "idle") /\ job' = [job EXCEPT ![r] = j]

\* Bound: a checkout starts only while its order would still fit.
RoomForOrder == Len(orders) + Cardinality({r \in Slot : At(r, "checkout")}) < MaxOrders

Init ==
    /\ \E k \in Kind, fee \in BOOLEAN :
          /\ k # "application" => fee
          /\ row = [kind |-> k, status |-> "absent", fee |-> fee, paid |-> FALSE,
                    order |-> 0, claimedBy |-> None]
    /\ orders = <<>>
    /\ vouchers = <<>>
    /\ job = [r \in Slot \cup Worker |-> Idle]
    /\ overtaken = {}

-----------------------------------------------------------------------------
(* Endpoints *)

\* GigJobsService.create, requestForTenant, createForConversation and
\* createOrGet: one insert.
Create(r) ==
    /\ At(r, "idle") /\ row.status = "absent" /\ row.kind # "hqs"
    /\ row' = [row EXCEPT !.status = FirstStatus(row.kind)]
    /\ UNCHANGED <<orders, vouchers, job, overtaken>>

\* An HQS request and a screening the tenant starts (createMine) go straight
\* on to the checkout; the row stays when that fails.
CreateAndPay(r) ==
    /\ row.status = "absent" /\ row.kind \in {"hqs", "screening"}
    /\ RoomForOrder
    /\ row' = [row EXCEPT !.status = FirstStatus(row.kind)]
    /\ Begin(r, [step |-> "checkout"])
    /\ UNCHANGED <<orders, vouchers, overtaken>>

\* payAndConfirm makes a new checkout at every call.
PayGig == row.kind = "gig" /\ row.status = "COMPLETED"

\* Mutant: an existing checkout is not looked for.
PayScreeningAgain == row.kind = "screening" /\ row.status = "AWAITING_TENANT_AUTHORIZATION"

\* pay and createMine: an existing checkout is handed out again.
PayScreening ==
    row.kind = "screening" /\ row.status = "AWAITING_TENANT_AUTHORIZATION" /\ row.order = 0

\* The same for the fee of an application, if it has one and it is not yet paid.
PayApplication ==
    /\ row.kind = "application" /\ row.status = "STARTED" /\ row.fee
    /\ ~row.paid /\ row.order = 0

BeginPay(r) ==
    /\ PayGig \/ PayScreening \/ PayApplication
    /\ RoomForOrder
    /\ Begin(r, [step |-> "checkout"])
    /\ UNCHANGED <<row, orders, vouchers, overtaken>>

\* createCheckout at the provider.
Checkout(r) ==
    /\ At(r, "checkout")
    /\ orders' = Append(orders, [paid |-> FALSE, offered |-> FALSE])
    /\ job' = [job EXCEPT ![r] = [step |-> "saveCheckout", order |-> Len(orders) + 1]]
    /\ UNCHANGED <<row, vouchers, overtaken>>

\* Between its look for a checkout and its write of the row.
AboutToSave(r) == job[r].step \in {"checkout", "saveCheckout"}

\* The row takes over the new order, whatever it holds by now.
SaveCheckout(r) ==
    /\ At(r, "saveCheckout")
    /\ row' = [row EXCEPT !.order = job[r].order]
    /\ orders' = [orders EXCEPT ![job[r].order].offered = TRUE]
    /\ overtaken' = overtaken \cup
           {o \in {job[r].order} : \E s \in Slot \ {r} : AboutToSave(s)}
    /\ Done(r)
    /\ UNCHANGED vouchers

\* The row is read and the operation accepted.  A job is completed by the
\* tenant the row says has claimed it; a fee is paid before submitting.
BeginOp(r, o) ==
    /\ row.status \in o.from
    /\ o.op = "submit" /\ row.fee => row.paid
    /\ \E t \in IF o.op = "claim" THEN Tenant ELSE {row.claimedBy} :
          Begin(r, [step |-> "update", op |-> o.op, to |-> o.to, tenant |-> t])
    /\ UNCHANGED <<row, orders, vouchers, overtaken>>

\* The update by id, whatever has happened to the row since.
FinishOp(r) ==
    /\ At(r, "update")
    /\ row' = [row EXCEPT !.status = job[r].to,
                          !.claimedBy = IF job[r].op = "claim" THEN job[r].tenant ELSE @]
    /\ Done(r)
    /\ UNCHANGED <<orders, vouchers, overtaken>>

-----------------------------------------------------------------------------
(* Payment *)

Pay(o) ==
    /\ orders[o].offered /\ ~orders[o].paid
    /\ orders' = [orders EXCEPT ![o].paid = TRUE]
    /\ UNCHANGED <<row, vouchers, job, overtaken>>

\* What the handler of each service looks for beside the order id.
GigAwaits == row.kind = "gig" /\ row.status = "COMPLETED" /\ row.claimedBy # None
HqsAwaits == row.kind = "hqs" /\ row.status = "AWAITING_PAYMENT"
ScreeningAwaits == row.kind = "screening" /\ row.status = "AWAITING_TENANT_AUTHORIZATION"
ApplicationAwaits == row.kind = "application" /\ ~row.paid

BeginWebhook(w, o) ==
    /\ orders[o].paid
    /\ row.order = o
    /\ GigAwaits \/ HqsAwaits \/ ScreeningAwaits \/ ApplicationAwaits
    /\ Begin(w, [step |-> "apply", tenant |-> row.claimedBy])
    /\ UNCHANGED <<row, orders, vouchers, overtaken>>

\* Mutant: the status PAID is written for every kind.
MarkPaidAlways(w) ==
    /\ At(w, "apply") /\ row.kind # "gig"
    /\ row' = [row EXCEPT !.paid = TRUE, !.status = "PAID"]
    /\ Done(w)
    /\ UNCHANGED <<orders, vouchers, overtaken>>

\* Inspections and screenings become PAID; an application keeps its status.
MarkPaid(w) ==
    /\ At(w, "apply") /\ row.kind # "gig"
    /\ row' = [row EXCEPT !.paid = TRUE,
                          !.status = IF row.kind = "application" THEN @ ELSE "PAID"]
    /\ Done(w)
    /\ UNCHANGED <<orders, vouchers, overtaken>>

\* Mutant: no unique index on gigJobId.
IssueVoucherAgain(w) ==
    /\ At(w, "apply") /\ row.kind = "gig"
    /\ vouchers' = Append(vouchers, [tenant |-> job[w].tenant])
    /\ row' = [row EXCEPT !.status = "CONFIRMED"]
    /\ Done(w)
    /\ UNCHANGED <<orders, overtaken>>

\* One transaction: the voucher for whoever had claimed the job, and CONFIRMED.
IssueVoucher(w) ==
    /\ At(w, "apply") /\ row.kind = "gig"
    /\ vouchers = <<>>
    /\ vouchers' = <<[tenant |-> job[w].tenant]>>
    /\ row' = [row EXCEPT !.status = "CONFIRMED"]
    /\ Done(w)
    /\ UNCHANGED <<orders, overtaken>>

\* gigJobId is unique: a second voucher rolls the transaction back.
VoucherFails(w) ==
    /\ At(w, "apply") /\ row.kind = "gig"
    /\ vouchers # <<>>
    /\ Done(w)
    /\ UNCHANGED <<row, orders, vouchers, overtaken>>

\* A statement, e-mail or provider call throws, or the process dies.
Abort(r) ==
    /\ Faults /\ ~At(r, "idle")
    /\ Done(r)
    /\ UNCHANGED <<row, orders, vouchers, overtaken>>

-----------------------------------------------------------------------------
Endpoint(r) ==
    \/ Create(r) \/ CreateAndPay(r) \/ BeginPay(r)
    \/ \E o \in OpsOf(row.kind) : BeginOp(r, o)
Serve(r) == Checkout(r) \/ SaveCheckout(r) \/ FinishOp(r)
Deliver(w) == \E o \in DOMAIN orders : BeginWebhook(w, o)
HandleWebhook(w) == MarkPaid(w) \/ IssueVoucher(w) \/ VoucherFails(w)

Next ==
    \/ \E r \in Slot : Endpoint(r) \/ Serve(r)
    \/ \E w \in Worker : Deliver(w) \/ HandleWebhook(w)
    \/ \E r \in Slot \cup Worker : Abort(r)
    \/ \E o \in DOMAIN orders : Pay(o)

Spec == Init /\ [][Next]_vars
\* The provider redelivers an event until a delivery has been handled.
FairSpec == Spec /\ \A w \in Worker : WF_vars(Deliver(w) \/ HandleWebhook(w))

-----------------------------------------------------------------------------
(* Properties *)

\* Rows, orders and calls have their shape, and the status is one of the
\* row's own kind, whichever service wrote it.
TypeOK ==
    /\ row \in RequestRow /\ row.status \in StatusOf(row.kind) \cup {"absent"}
    /\ orders \in Seq(OrderRow) /\ row.order \in 0..Len(orders)
    /\ vouchers \in Seq(VoucherRow)
    /\ \A r \in Slot : job[r] \in {Idle} \cup ApiJob
    /\ \A w \in Worker : job[w] \in {Idle} \cup WebhookJob
    /\ overtaken \subseteq DOMAIN orders

\* The statuses that cost the platform or a landlord something.
NeedsPayment ==
    \/ row.kind = "gig" /\ row.status = "CONFIRMED"
    \/ row.kind = "hqs" /\ row.status = "REQUESTED"
    \/ row.kind = "screening" /\ row.status \in {"SUBMITTED_EXTERNALLY", "COMPLETE"}
    \/ row.kind = "application" /\ row.fee /\ row.status \notin {"absent", "STARTED"}

\* Nothing is delivered before it is paid: however endpoints, deliveries and
\* crashes overlap and however stale their reads, an inspection is requested, a
\* screening handed off, an application submitted and a gig confirmed only when
\* the provider holds a paid order for it.
PaidFirst == NeedsPayment => \E o \in DOMAIN orders : orders[o].paid

\* A payout yields at most one voucher, however often its event is delivered,
\* and a job is never confirmed without one.
OneVoucherPerPayout ==
    /\ Len(vouchers) <= 1
    /\ row.status = "CONFIRMED" => vouchers # <<>>

\* An inspection, screening or application has one checkout to pay, the one its
\* row remembers; another one is forgotten only if, when it was saved, a call that
\* had looked for a checkout before was still to save its own (a gig payout makes
\* a new checkout at every call).
NoForgottenOrder ==
    row.kind # "gig" =>
        \A o \in DOMAIN orders : orders[o].offered /\ o \notin overtaken => row.order = o

\* What was paid for is recorded as paid, unless the request was called off or
\* another checkout took the place of the paid one.
PaymentIsRecorded ==
    \A o \in 1..MaxOrders :
        (row.kind # "gig" /\ o \in DOMAIN orders /\ orders[o].paid)
            ~> (row.paid \/ row.status \in {"CANCELLED", "DECLINED"} \/ o \in overtaken)

=============================================================================
