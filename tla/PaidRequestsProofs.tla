-------------------------- MODULE PaidRequestsProofs --------------------------
(***************************************************************************)
(* Type correctness of PaidRequests, that nothing is delivered before it is*)
(* paid, that a payout yields one voucher and that no order is forgotten,  *)
(* for any number of slots, workers, tenants and orders, overlapping.      *)
(***************************************************************************)
EXTENDS PaidRequests, SequenceTheorems, TLAPS

-----------------------------------------------------------------------------
(* Type correctness *)

\* What the calls in flight carry: a status of the row's own kind, an order
\* that exists, and, for a gig's payout, the tenant who had claimed it.
CallsKept ==
    /\ \A r \in Slot : job[r].step = "update" => job[r].to \in StatusOf(row.kind)
    /\ \A r \in Slot : job[r].step = "saveCheckout" => job[r].order \in DOMAIN orders
    /\ \A w \in Worker : job[w].step = "apply" /\ row.kind = "gig" => job[w].tenant \in Tenant

\* job's domain is not part of TypeOK, which speaks of its two halves apart.
TypeInv ==
    /\ TypeOK /\ CallsKept
    /\ job = [r \in Slot \cup Worker |-> job[r]]

\* Every operation in the tables writes a status of its own kind.
LEMMA OpsTyped ==
    ASSUME NEW k \in {"gig", "hqs", "screening", "application"}, NEW o \in OpsOf(k)
    PROVE  o.op \in OpName /\ o.to \in StatusOf(k) /\ o.to \in AnyStatus
<1>1. CASE k = "gig"
  BY <1>1 DEF OpsOf, GigOps, Operation, OpName, StatusOf, GigStatus, AnyStatus
<1>2. CASE k = "hqs"
  BY <1>2 DEF OpsOf, HqsOps, Operation, OpName, StatusOf, HqsStatus, AnyStatus
<1>3. CASE k = "screening"
  BY <1>3 DEF OpsOf, TenantScreeningOps, StaffScreeningOps, Operation, OpName, StatusOf,
              ScreeningStatus, AnyStatus
<1>4. CASE k = "application"
  BY <1>4 DEF OpsOf, EditOps, ApplicantOps, DecisionOps, Operation, OpName, StatusOf,
              ApplicationStatus, AnyStatus
<1> QED BY <1>1, <1>2, <1>3, <1>4

\* A row starts in a status of its kind, which a payment may turn into PAID.
LEMMA StatusesTyped ==
    ASSUME NEW k \in {"gig", "hqs", "screening", "application"}
    PROVE  /\ FirstStatus(k) \in StatusOf(k) /\ StatusOf(k) \subseteq AnyStatus
           /\ k \in {"hqs", "screening"} => "PAID" \in StatusOf(k)
           /\ k = "gig" => "CONFIRMED" \in StatusOf(k)
BY DEF FirstStatus, StatusOf, AnyStatus, GigStatus, HqsStatus, ScreeningStatus, ApplicationStatus

\* Giving an order's link out, or paying it, leaves a list of as many orders.
LEMMA OrderUpdate ==
    ASSUME NEW s \in Seq(OrderRow), NEW o \in DOMAIN s
    PROVE  LET offered == [s EXCEPT ![o].offered = TRUE]
               paid == [s EXCEPT ![o].paid = TRUE]
           IN  /\ offered \in Seq(OrderRow) /\ Len(offered) = Len(s) /\ DOMAIN offered = DOMAIN s
               /\ paid \in Seq(OrderRow) /\ Len(paid) = Len(s) /\ DOMAIN paid = DOMAIN s
<1>1. o \in 1..Len(s) /\ s[o] \in OrderRow
  OBVIOUS
<1>2. [s[o] EXCEPT !.offered = TRUE] \in OrderRow /\ [s[o] EXCEPT !.paid = TRUE] \in OrderRow
  BY <1>1 DEF OrderRow
<1>3. ASSUME NEW v \in OrderRow
      PROVE  [s EXCEPT ![o] = v] \in Seq(OrderRow) /\ Len([s EXCEPT ![o] = v]) = Len(s)
  BY <1>1, ExceptSeq
<1>4. DOMAIN [s EXCEPT ![o].offered = TRUE] = DOMAIN s /\ DOMAIN [s EXCEPT ![o].paid = TRUE] = DOMAIN s
  OBVIOUS
<1> QED BY <1>2, <1>3, <1>4

\* The initial states are well-formed.
LEMMA InitTyped == ASSUME PaidRequestsAssumption, Init PROVE TypeInv
<1>1. row \in RequestRow /\ row.status = "absent" /\ row.order = 0
  BY DEF Init, PaidRequestsAssumption, RequestRow
<1>2. \A r \in Slot \cup Worker : job[r] = Idle
  BY DEF Init
<1>3. orders \in Seq(OrderRow) /\ vouchers \in Seq(VoucherRow) /\ Len(orders) = 0 /\ overtaken = {}
  BY DEF Init
<1>4. job = [r \in Slot \cup Worker |-> job[r]]
  BY DEF Init
<1>5. TypeOK
  BY <1>1, <1>2, <1>3 DEF TypeOK
<1>6. CallsKept
  BY <1>2 DEF CallsKept, Idle
<1> QED BY <1>4, <1>5, <1>6 DEF TypeInv

\* Endpoints keep the types.
LEMMA EndpointTyped ==
    ASSUME PaidRequestsAssumption, TypeInv, NEW r \in Slot, Endpoint(r) PROVE TypeInv'
<1> USE DEF TypeInv
<1>0. row.kind \in {"gig", "hqs", "screening", "application"}
  BY DEF TypeOK, RequestRow
<1>1. CASE Create(r)
  <2>1. row'.status \in StatusOf(row.kind) /\ row'.kind = row.kind /\ row'.order = row.order
    BY <1>0, <1>1, StatusesTyped DEF Create, TypeOK, RequestRow
  <2>2. row' \in RequestRow
    BY <1>0, <1>1, <2>1, StatusesTyped DEF Create, TypeOK, RequestRow
  <2> QED BY <1>1, <2>1, <2>2 DEF Create, TypeOK, CallsKept
<1>2. CASE CreateAndPay(r)
  <2>1. row'.status \in StatusOf(row.kind) /\ row'.kind = row.kind /\ row'.order = row.order
    BY <1>0, <1>2, StatusesTyped DEF CreateAndPay, TypeOK, RequestRow
  <2>2. row' \in RequestRow
    BY <1>0, <1>2, <2>1, StatusesTyped DEF CreateAndPay, TypeOK, RequestRow
  <2>3. job' = [job EXCEPT ![r] = [step |-> "checkout"]] /\ UNCHANGED <<orders, vouchers, overtaken>>
    BY <1>2 DEF CreateAndPay, Begin
  <2>4. [step |-> "checkout"] \in ApiJob
    BY DEF ApiJob
  <2> QED BY <2>1, <2>2, <2>3, <2>4 DEF TypeOK, CallsKept, PaidRequestsAssumption
<1>3. CASE BeginPay(r)
  <2>1. job' = [job EXCEPT ![r] = [step |-> "checkout"]] /\ UNCHANGED <<row, orders, vouchers, overtaken>>
    BY <1>3 DEF BeginPay, Begin
  <2>2. [step |-> "checkout"] \in ApiJob
    BY DEF ApiJob
  <2> QED BY <2>1, <2>2 DEF TypeOK, CallsKept, PaidRequestsAssumption
<1>4. ASSUME NEW o \in OpsOf(row.kind), BeginOp(r, o) PROVE TypeInv'
  <2>1. PICK t \in Tenant \cup {None} :
            job' = [job EXCEPT ![r] = [step |-> "update", op |-> o.op, to |-> o.to, tenant |-> t]]
    BY <1>4 DEF BeginOp, Begin, TypeOK, RequestRow
  <2>2. [step |-> "update", op |-> o.op, to |-> o.to, tenant |-> t] \in ApiJob
    BY <1>0, OpsTyped DEF ApiJob
  <2>3. o.to \in StatusOf(row.kind)
    BY <1>0, OpsTyped
  <2>4. UNCHANGED <<row, orders, vouchers, overtaken>>
    BY <1>4 DEF BeginOp
  <2> QED BY <2>1, <2>2, <2>3, <2>4 DEF TypeOK, CallsKept, PaidRequestsAssumption
<1> QED BY <1>1, <1>2, <1>3, <1>4 DEF Endpoint

\* The later steps of an endpoint keep the types.
LEMMA ServeTyped ==
    ASSUME PaidRequestsAssumption, TypeInv, NEW r \in Slot, Serve(r) PROVE TypeInv'
<1> USE DEF TypeInv
<1>0. row.kind \in {"gig", "hqs", "screening", "application"}
  BY DEF TypeOK, RequestRow
<1>1. CASE Checkout(r)
  <2> DEFINE new == [paid |-> FALSE, offered |-> FALSE]
  <2>1. new \in OrderRow
    BY DEF OrderRow
  <2>2. orders' = Append(orders, new) /\ orders \in Seq(OrderRow)
    BY <1>1 DEF Checkout, TypeOK
  <2>3. orders' \in Seq(OrderRow) /\ Len(orders') = Len(orders) + 1 /\ Len(orders) \in Nat
    BY <2>1, <2>2
  <2>4. job' = [job EXCEPT ![r] = [step |-> "saveCheckout", order |-> Len(orders) + 1]]
    BY <1>1 DEF Checkout
  <2>5. [step |-> "saveCheckout", order |-> Len(orders) + 1] \in ApiJob
    BY <2>3 DEF ApiJob
  <2>6. UNCHANGED <<row, vouchers, overtaken>>
    BY <1>1 DEF Checkout
  <2>7. DOMAIN orders \subseteq DOMAIN orders' /\ Len(orders) + 1 \in DOMAIN orders'
    BY <2>2, <2>3
  <2>8. row'.order \in 0..Len(orders')
    BY <2>3, <2>6 DEF TypeOK
  <2>9. TypeOK'
    BY <2>3, <2>4, <2>5, <2>6, <2>7, <2>8 DEF TypeOK, PaidRequestsAssumption
  <2>10. job'[r].step = "saveCheckout" /\ job'[r].order = Len(orders) + 1
    BY <2>4
  <2>11. \A q \in (Slot \cup Worker) \ {r} : job'[q] = job[q]
    BY <2>4
  <2>12. CallsKept'
    <3>1. \A q \in Slot : job'[q].step = "update" => job'[q].to \in StatusOf(row'.kind)
      <4> SUFFICES ASSUME NEW q \in Slot, job'[q].step = "update"
                   PROVE  job'[q].to \in StatusOf(row'.kind)
        OBVIOUS
      <4>1. job'[q] = job[q]
        BY <2>10, <2>11
      <4> QED BY <2>6, <4>1 DEF CallsKept
    <3>2. \A q \in Slot : job'[q].step = "saveCheckout" => job'[q].order \in DOMAIN orders'
      <4> SUFFICES ASSUME NEW q \in Slot, job'[q].step = "saveCheckout"
                   PROVE  job'[q].order \in DOMAIN orders'
        OBVIOUS
      <4>1. CASE q = r
        BY <2>7, <2>10, <4>1
      <4>2. CASE q # r
        BY <2>7, <2>11, <4>2 DEF CallsKept
      <4> QED BY <4>1, <4>2
    <3>3. \A w \in Worker : job'[w].step = "apply" /\ row'.kind = "gig" => job'[w].tenant \in Tenant
      BY <2>6, <2>10, <2>11 DEF CallsKept
    <3> QED BY <3>1, <3>2, <3>3 DEF CallsKept
  <2> QED BY <2>4, <2>9, <2>12
<1>2. CASE SaveCheckout(r)
  <2> DEFINE o == job[r].order
  <2>1. o \in DOMAIN orders /\ o \in 1..Len(orders)
    BY <1>2 DEF SaveCheckout, At, CallsKept, TypeOK
  <2>2. orders' = [orders EXCEPT ![o].offered = TRUE]
    BY <1>2 DEF SaveCheckout
  <2>3. orders' \in Seq(OrderRow) /\ Len(orders') = Len(orders) /\ DOMAIN orders' = DOMAIN orders
    BY <2>1, <2>2, OrderUpdate DEF TypeOK
  <2>4. row' = [row EXCEPT !.order = o] /\ UNCHANGED vouchers
    BY <1>2 DEF SaveCheckout
  <2>12. overtaken' \subseteq DOMAIN orders'
    BY <1>2, <2>1, <2>3 DEF SaveCheckout, TypeOK
  <2>7. o \in Nat
    BY <2>1 DEF TypeOK
  <2>5. row' \in RequestRow /\ row'.order = o /\ row'.kind = row.kind /\ row'.status = row.status
    BY <2>1, <2>4, <2>7 DEF TypeOK, RequestRow
  <2>6. job' = [job EXCEPT ![r] = Idle]
    BY <1>2 DEF SaveCheckout, Done
  <2>8. row'.order \in 0..Len(orders')
    BY <2>1, <2>3, <2>5, <2>7 DEF TypeOK
  <2>9. TypeOK'
    BY <2>3, <2>4, <2>5, <2>6, <2>8, <2>12 DEF TypeOK, PaidRequestsAssumption
  <2>10. job'[r] = Idle /\ \A q \in (Slot \cup Worker) \ {r} : job'[q] = job[q]
    BY <2>6
  <2>11. CallsKept'
    <3>1. \A q \in Slot : job'[q].step = "update" => job'[q].to \in StatusOf(row'.kind)
      <4> SUFFICES ASSUME NEW q \in Slot, job'[q].step = "update"
                   PROVE  job'[q].to \in StatusOf(row'.kind)
        OBVIOUS
      <4>1. job'[q] = job[q]
        BY <2>10 DEF Idle
      <4> QED BY <2>5, <4>1 DEF CallsKept
    <3>2. \A q \in Slot : job'[q].step = "saveCheckout" => job'[q].order \in DOMAIN orders'
      <4> SUFFICES ASSUME NEW q \in Slot, job'[q].step = "saveCheckout"
                   PROVE  job'[q].order \in DOMAIN orders'
        OBVIOUS
      <4>1. job'[q] = job[q]
        BY <2>10 DEF Idle
      <4> QED BY <2>3, <4>1 DEF CallsKept
    <3>3. \A w \in Worker : job'[w].step = "apply" /\ row'.kind = "gig" => job'[w].tenant \in Tenant
      BY <2>5, <2>10 DEF CallsKept, Idle
    <3> QED BY <3>1, <3>2, <3>3 DEF CallsKept
  <2> QED BY <2>6, <2>9, <2>11
<1>3. CASE FinishOp(r)
  <2>1. job[r] \in ApiJob /\ job[r].step = "update"
    BY <1>3 DEF FinishOp, At, TypeOK, Idle
  <2>2. job[r].to \in AnyStatus /\ job[r].tenant \in Tenant \cup {None}
    BY <2>1 DEF ApiJob
  <2>3. job[r].to \in StatusOf(row.kind)
    BY <2>1 DEF CallsKept
  <2>4. /\ row' \in RequestRow /\ row'.kind = row.kind /\ row'.order = row.order
        /\ row'.status = job[r].to
    BY <1>3, <2>2 DEF FinishOp, TypeOK, RequestRow
  <2>5. job' = [job EXCEPT ![r] = Idle] /\ UNCHANGED <<orders, vouchers, overtaken>>
    BY <1>3 DEF FinishOp, Done
  <2> QED BY <2>3, <2>4, <2>5 DEF TypeOK, CallsKept, Idle, PaidRequestsAssumption
<1> QED BY <1>1, <1>2, <1>3 DEF Serve

\* A delivery keeps the types.
LEMMA WebhookTyped ==
    ASSUME PaidRequestsAssumption, TypeInv, NEW w \in Worker, Deliver(w) \/ HandleWebhook(w)
    PROVE  TypeInv'
<1> USE DEF TypeInv
<1>0. row.kind \in {"gig", "hqs", "screening", "application"}
  BY DEF TypeOK, RequestRow
<1>1. ASSUME NEW o \in DOMAIN orders, BeginWebhook(w, o) PROVE TypeInv'
  <2>1. /\ job' = [job EXCEPT ![w] = [step |-> "apply", tenant |-> row.claimedBy]]
        /\ UNCHANGED <<row, orders, vouchers, overtaken>>
    BY <1>1 DEF BeginWebhook, Begin
  <2>2. row.claimedBy \in Tenant \cup {None}
    BY DEF TypeOK, RequestRow
  <2>3. [step |-> "apply", tenant |-> row.claimedBy] \in WebhookJob
    BY <2>2 DEF WebhookJob
  <2>4. row.kind = "gig" => row.claimedBy \in Tenant
    BY <1>1, <2>2 DEF BeginWebhook, GigAwaits, HqsAwaits, ScreeningAwaits, ApplicationAwaits
  <2> QED BY <2>1, <2>3, <2>4 DEF TypeOK, CallsKept, PaidRequestsAssumption
<1>2. CASE MarkPaid(w)
  <2>1. row.kind # "gig" /\ row' = [row EXCEPT !.paid = TRUE,
              !.status = IF row.kind = "application" THEN @ ELSE "PAID"]
    BY <1>2 DEF MarkPaid
  <2>2. row.kind # "application" => "PAID" \in StatusOf(row.kind) /\ "PAID" \in AnyStatus
    BY <1>0, <2>1, StatusesTyped
  <2>3. /\ row' \in RequestRow /\ row'.kind = row.kind /\ row'.order = row.order
        /\ row'.status \in StatusOf(row.kind) \cup {"absent"}
    BY <2>1, <2>2 DEF TypeOK, RequestRow
  <2>4. job' = [job EXCEPT ![w] = Idle] /\ UNCHANGED <<orders, vouchers, overtaken>>
    BY <1>2 DEF MarkPaid, Done
  <2> QED BY <2>3, <2>4 DEF TypeOK, CallsKept, Idle, PaidRequestsAssumption
<1>3. CASE IssueVoucher(w)
  <2>1. row.kind = "gig" /\ job[w].tenant \in Tenant
    BY <1>3 DEF IssueVoucher, At, CallsKept
  <2>2. vouchers' \in Seq(VoucherRow)
    BY <1>3, <2>1 DEF IssueVoucher, VoucherRow
  <2>3. /\ row' \in RequestRow /\ row'.kind = row.kind /\ row'.order = row.order
        /\ row'.status \in StatusOf(row.kind)
    BY <1>0, <1>3, <2>1, StatusesTyped DEF IssueVoucher, TypeOK, RequestRow
  <2>4. job' = [job EXCEPT ![w] = Idle] /\ UNCHANGED <<orders, overtaken>>
    BY <1>3 DEF IssueVoucher, Done
  <2> QED BY <2>2, <2>3, <2>4 DEF TypeOK, CallsKept, Idle, PaidRequestsAssumption
<1>4. CASE VoucherFails(w)
  <2>1. job' = [job EXCEPT ![w] = Idle] /\ UNCHANGED <<row, orders, vouchers, overtaken>>
    BY <1>4 DEF VoucherFails, Done
  <2> QED BY <2>1 DEF TypeOK, CallsKept, Idle, PaidRequestsAssumption
<1> QED BY <1>1, <1>2, <1>3, <1>4 DEF Deliver, HandleWebhook

\* Payers and faults keep the types.
LEMMA EnvironmentTyped ==
    ASSUME PaidRequestsAssumption, TypeInv,
           \/ \E r \in Slot \cup Worker : Abort(r)
           \/ \E o \in DOMAIN orders : Pay(o)
    PROVE  TypeInv'
<1> USE DEF TypeInv
<1>1. ASSUME NEW r \in Slot \cup Worker, Abort(r) PROVE TypeInv'
  <2>1. job' = [job EXCEPT ![r] = Idle] /\ UNCHANGED <<row, orders, vouchers, overtaken>>
    BY <1>1 DEF Abort, Done
  <2> QED BY <2>1 DEF TypeOK, CallsKept, Idle
<1>2. ASSUME NEW o \in DOMAIN orders, Pay(o) PROVE TypeInv'
  <2>1. orders' = [orders EXCEPT ![o].paid = TRUE] /\ UNCHANGED <<row, vouchers, job, overtaken>>
    BY <1>2 DEF Pay
  <2>2. orders' \in Seq(OrderRow) /\ Len(orders') = Len(orders) /\ DOMAIN orders' = DOMAIN orders
    BY <2>1, OrderUpdate DEF TypeOK
  <2> QED BY <2>1, <2>2 DEF TypeOK, CallsKept
<1> QED BY <1>1, <1>2

\* Every step keeps the types.
LEMMA StepTyped == ASSUME PaidRequestsAssumption, TypeInv, [Next]_vars PROVE TypeInv'
<1>1. CASE UNCHANGED vars
  BY <1>1 DEF vars, TypeInv, TypeOK, CallsKept
<1>2. CASE Next
  BY <1>2, EndpointTyped, ServeTyped, WebhookTyped, EnvironmentTyped DEF Next
<1> QED BY <1>1, <1>2

\* Rows, orders, vouchers and calls always have their shape, and the status is
\* one of the row's own kind.
THEOREM PaidTypeCorrect == Spec => []TypeOK
<1>1. Init => TypeInv
  BY InitTyped, PaidRequestsAssumption
<1>2. TypeInv /\ [Next]_vars => TypeInv'
  BY StepTyped, PaidRequestsAssumption
<1>3. TypeInv => TypeOK
  BY DEF TypeInv
<1> QED BY <1>1, <1>2, <1>3, PTL DEF Spec

-----------------------------------------------------------------------------
(* Nothing is delivered before it is paid *)

Bought == \E o \in DOMAIN orders : orders[o].paid

\* The statuses that are only reached by way of a payment.
Costly(s) ==
    \/ row.kind = "gig" /\ s = "CONFIRMED"
    \/ row.kind = "hqs" /\ s \in {"PAID", "REQUESTED"}
    \/ row.kind = "screening" /\ s \in {"PAID", "SUBMITTED_EXTERNALLY", "COMPLETE"}
    \/ row.kind = "application" /\ row.fee /\ s \notin {"absent", "STARTED"}

\* A row that is marked paid or stands in such a status has a paid order, and
\* so has one that a call in flight will put there.
PaidInv ==
    /\ row.paid \/ Costly(row.status) => Bought
    /\ \A r \in Slot : job[r].step = "update" /\ Costly(job[r].to) => Bought
    /\ \A w \in Worker : job[w].step = "apply" => Bought

\* An operation leads to such a status only from one, or is the submission of
\* an application whose fee is paid.
LEMMA CostlyOps ==
    ASSUME TypeOK, NEW o \in OpsOf(row.kind), row.status \in o.from, Costly(o.to)
    PROVE  Costly(row.status) \/ (o.op = "submit" /\ row.fee)
<1>0. row.kind \in {"gig", "hqs", "screening", "application"}
  BY DEF TypeOK, RequestRow
<1>1. CASE row.kind = "gig"
  BY <1>1 DEF Costly, OpsOf, GigOps, Operation
<1>2. CASE row.kind = "hqs"
  BY <1>2 DEF Costly, OpsOf, HqsOps, Operation
<1>3. CASE row.kind = "screening"
  BY <1>3 DEF Costly, OpsOf, TenantScreeningOps, StaffScreeningOps, Operation
<1>4. CASE row.kind = "application"
  BY <1>4 DEF Costly, OpsOf, EditOps, ApplicantOps, DecisionOps, Operation
<1> QED BY <1>0, <1>1, <1>2, <1>3, <1>4

\* An order that is paid stays paid.
LEMMA BoughtStays == ASSUME TypeInv, Next, Bought PROVE Bought'
<1>1. PICK o \in DOMAIN orders : orders[o].paid
  BY DEF Bought
<1>2. orders \in Seq(OrderRow)
  BY DEF TypeInv, TypeOK
<1>3. CASE \E r \in Slot : Checkout(r)
  <2>1. orders' = Append(orders, [paid |-> FALSE, offered |-> FALSE])
    BY <1>3 DEF Checkout
  <2>2. o \in DOMAIN orders' /\ orders'[o] = orders[o]
    BY <1>1, <1>2, <2>1
  <2> QED BY <1>1, <2>2 DEF Bought
<1>4. CASE \E r \in Slot : SaveCheckout(r)
  <2>1. PICK r \in Slot : orders' = [orders EXCEPT ![job[r].order].offered = TRUE]
    BY <1>4 DEF SaveCheckout
  <2>2. o \in DOMAIN orders' /\ orders'[o].paid
    BY <1>1, <1>2, <2>1 DEF OrderRow
  <2> QED BY <2>2 DEF Bought
<1>5. CASE \E p \in DOMAIN orders : Pay(p)
  <2>1. PICK p \in DOMAIN orders : orders' = [orders EXCEPT ![p].paid = TRUE]
    BY <1>5 DEF Pay
  <2>2. o \in DOMAIN orders' /\ orders'[o].paid
    BY <1>1, <1>2, <2>1 DEF OrderRow
  <2> QED BY <2>2 DEF Bought
<1>6. CASE UNCHANGED orders
  BY <1>1, <1>6 DEF Bought
<1> QED
  BY <1>3, <1>4, <1>5, <1>6
     DEF Next, Endpoint, Create, CreateAndPay, BeginPay, BeginOp, Serve, FinishOp,
         Deliver, BeginWebhook, HandleWebhook, MarkPaid, IssueVoucher, VoucherFails, Abort

\* Every step keeps PaidInv.
LEMMA PaidStep == ASSUME PaidRequestsAssumption, TypeInv, PaidInv, Next PROVE PaidInv'
<1>0. TypeOK /\ row \in RequestRow /\ job = [r \in Slot \cup Worker |-> job[r]]
  BY DEF TypeInv, TypeOK
<1>b. Bought => PaidInv'
  BY BoughtStays DEF PaidInv
<1> SUFFICES ASSUME ~Bought PROVE PaidInv'
  BY <1>b
<1>1. /\ ~row.paid /\ ~Costly(row.status)
      /\ \A r \in Slot : job[r].step = "update" => ~Costly(job[r].to)
      /\ \A w \in Worker : job[w].step # "apply"
  BY DEF PaidInv
<1>2. ASSUME NEW r \in Slot, Create(r) \/ CreateAndPay(r) \/ BeginPay(r) PROVE PaidInv'
  <2>1. /\ row'.kind = row.kind /\ row'.fee = row.fee /\ row'.paid = row.paid
        /\ row'.status \in {row.status, FirstStatus(row.kind)}
    BY <1>0, <1>2 DEF Create, CreateAndPay, BeginPay, RequestRow
  <2>2. ~Costly(FirstStatus(row.kind))
    BY DEF Costly, FirstStatus
  <2>3. \A s : Costly(s)' <=> Costly(s)
    BY <2>1 DEF Costly
  <2>4. job' = job \/ job' = [job EXCEPT ![r] = [step |-> "checkout"]]
    BY <1>2 DEF Create, CreateAndPay, BeginPay, Begin
  <2>5. ~row'.paid /\ ~Costly(row.status)'
    BY <1>1, <2>1, <2>2, <2>3 DEF Costly
  <2>6. \A s \in Slot : job'[s].step = "update" => job'[s] = job[s]
    BY <1>0, <2>4
  <2>7. \A w \in Worker : job'[w].step # "apply"
    BY <1>0, <1>1, <2>4
  <2> QED BY <1>1, <2>1, <2>5, <2>6, <2>7 DEF PaidInv, Costly
<1>3. ASSUME NEW r \in Slot, NEW o \in OpsOf(row.kind), BeginOp(r, o) PROVE PaidInv'
  <2>1. ~Costly(o.to)
    BY <1>0, <1>1, <1>3, CostlyOps DEF BeginOp
  <2>2. PICK t : job' = [job EXCEPT ![r] = [step |-> "update", op |-> o.op, to |-> o.to,
                                            tenant |-> t]]
    BY <1>3 DEF BeginOp, Begin
  <2>3. row' = row
    BY <1>3 DEF BeginOp
  <2>4. \A s \in Slot : job'[s].step = "update" => job'[s].to = o.to \/ job'[s] = job[s]
    BY <1>0, <2>2
  <2>5. \A w \in Worker : job'[w].step # "apply"
    BY <1>0, <1>1, <2>2
  <2> QED BY <1>1, <2>1, <2>3, <2>4, <2>5 DEF PaidInv, Costly
<1>4. ASSUME NEW r \in Slot, Checkout(r) \/ SaveCheckout(r) PROVE PaidInv'
  <2>1. /\ row'.kind = row.kind /\ row'.fee = row.fee /\ row'.paid = row.paid
        /\ row'.status = row.status
    BY <1>0, <1>4 DEF Checkout, SaveCheckout, RequestRow
  <2>2. \A s \in Slot : job'[s].step = "update" => job'[s] = job[s]
    <3>1. CASE Checkout(r)
      <4>1. job' = [job EXCEPT ![r] = [step |-> "saveCheckout", order |-> Len(orders) + 1]]
        BY <3>1 DEF Checkout
      <4> QED BY <1>0, <4>1
    <3>2. CASE SaveCheckout(r)
      <4>1. job' = [job EXCEPT ![r] = Idle]
        BY <3>2 DEF SaveCheckout, Done
      <4> QED BY <1>0, <4>1 DEF Idle
    <3> QED BY <1>4, <3>1, <3>2
  <2>3. \A w \in Worker : job'[w].step # "apply"
    BY <1>0, <1>1, <1>4 DEF Checkout, SaveCheckout, Done, Idle
  <2> QED BY <1>1, <2>1, <2>2, <2>3 DEF PaidInv, Costly
<1>5. ASSUME NEW r \in Slot, FinishOp(r) PROVE PaidInv'
  <2>1. job[r].step = "update" /\ ~Costly(job[r].to)
    BY <1>1, <1>5 DEF FinishOp, At
  <2>2. /\ row'.kind = row.kind /\ row'.fee = row.fee /\ row'.paid = row.paid
        /\ row'.status = job[r].to
    BY <1>0, <1>5 DEF FinishOp, RequestRow
  <2>3. job' = [job EXCEPT ![r] = Idle]
    BY <1>5 DEF FinishOp, Done
  <2>4. \A s \in Slot : job'[s].step = "update" => job'[s] = job[s]
    BY <1>0, <2>3 DEF Idle
  <2>5. \A w \in Worker : job'[w].step # "apply"
    BY <1>0, <1>1, <2>3 DEF Idle
  <2> QED BY <1>1, <2>1, <2>2, <2>4, <2>5 DEF PaidInv, Costly
<1>6. ASSUME NEW w \in Worker, Deliver(w) PROVE PaidInv'
  \* Only the event of a paid order is acted on.
  BY <1>6 DEF Deliver, BeginWebhook, Bought
<1>7. ASSUME NEW w \in Worker, HandleWebhook(w) PROVE PaidInv'
  \* A delivery being handled belongs to a paid order.
  BY <1>1, <1>7 DEF HandleWebhook, MarkPaid, IssueVoucher, VoucherFails, At
<1>8. ASSUME NEW r \in Slot \cup Worker, Abort(r) PROVE PaidInv'
  <2>1. row' = row /\ job' = [job EXCEPT ![r] = Idle]
    BY <1>8 DEF Abort, Done
  <2>2. \A s \in Slot : job'[s].step = "update" => job'[s] = job[s]
    BY <1>0, <2>1 DEF Idle
  <2>3. \A w \in Worker : job'[w].step # "apply"
    BY <1>0, <1>1, <2>1 DEF Idle
  <2> QED BY <1>1, <2>1, <2>2, <2>3 DEF PaidInv, Costly
<1>9. ASSUME NEW o \in DOMAIN orders, Pay(o) PROVE PaidInv'
  BY <1>1, <1>9 DEF Pay, PaidInv, Costly
<1> QED
  BY <1>2, <1>3, <1>4, <1>5, <1>6, <1>7, <1>8, <1>9 DEF Next, Endpoint, Serve

\* However calls, deliveries and crashes overlap and however stale their reads,
\* an inspection is requested, a screening handed off, an application submitted
\* and a gig confirmed only when the provider holds a paid order for it.
THEOREM PaidFirstCorrect == Spec => []PaidFirst
<1>1. Init => TypeInv /\ PaidInv
  <2>1. ASSUME Init PROVE PaidInv
    BY <2>1 DEF Init, PaidInv, Costly, Idle
  <2> QED BY <2>1, InitTyped, PaidRequestsAssumption
<1>2. TypeInv /\ PaidInv /\ [Next]_vars => TypeInv' /\ PaidInv'
  <2>1. ASSUME TypeInv, PaidInv, UNCHANGED vars PROVE PaidInv'
    BY <2>1 DEF vars, PaidInv, Costly, Bought
  <2> QED BY <2>1, PaidStep, StepTyped, PaidRequestsAssumption
<1>3. PaidInv => PaidFirst
  BY DEF PaidInv, PaidFirst, NeedsPayment, Costly, Bought
<1> QED BY <1>1, <1>2, <1>3, PTL DEF Spec

-----------------------------------------------------------------------------
(* One voucher *)

\* The transaction that issues the voucher is the only way to CONFIRMED.
VoucherInv ==
    /\ OneVoucherPerPayout
    /\ \A r \in Slot : job[r].step = "update" => job[r].to # "CONFIRMED"

\* No operation confirms a job.
LEMMA OpsConfirmNothing ==
    ASSUME NEW k \in {"gig", "hqs", "screening", "application"}, NEW o \in OpsOf(k)
    PROVE  o.to # "CONFIRMED"
<1>1. CASE k = "gig"
  BY <1>1 DEF OpsOf, GigOps, Operation
<1>2. CASE k = "hqs"
  BY <1>2 DEF OpsOf, HqsOps, Operation
<1>3. CASE k = "screening"
  BY <1>3 DEF OpsOf, TenantScreeningOps, StaffScreeningOps, Operation
<1>4. CASE k = "application"
  BY <1>4 DEF OpsOf, EditOps, ApplicantOps, DecisionOps, Operation
<1> QED BY <1>1, <1>2, <1>3, <1>4

\* A row is created unconfirmed.
LEMMA FirstUnconfirmed ==
    ASSUME NEW k \in {"gig", "hqs", "screening", "application"}
    PROVE  FirstStatus(k) # "CONFIRMED"
BY DEF FirstStatus

\* Every step keeps the vouchers in order.
LEMMA VoucherStep == ASSUME PaidRequestsAssumption, TypeInv, VoucherInv, Next PROVE VoucherInv'
<1>0. /\ row \in RequestRow /\ job = [r \in Slot \cup Worker |-> job[r]]
      /\ row.kind \in {"gig", "hqs", "screening", "application"} /\ vouchers \in Seq(VoucherRow)
  BY DEF TypeInv, TypeOK, RequestRow
<1>1. ASSUME UNCHANGED vouchers, row'.status = "CONFIRMED" => row.status = "CONFIRMED",
             \A s \in Slot : job'[s].step = "update" => job'[s] = job[s]
      PROVE  VoucherInv'
  BY <1>1 DEF VoucherInv, OneVoucherPerPayout
<1>2. ASSUME NEW r \in Slot, Create(r) \/ CreateAndPay(r) \/ BeginPay(r) PROVE VoucherInv'
  <2>1. UNCHANGED vouchers /\ row'.status \in {row.status, FirstStatus(row.kind)}
    BY <1>0, <1>2 DEF Create, CreateAndPay, BeginPay, RequestRow
  <2>2. job' = job \/ job' = [job EXCEPT ![r] = [step |-> "checkout"]]
    BY <1>2 DEF Create, CreateAndPay, BeginPay, Begin
  <2>3. \A s \in Slot : job'[s].step = "update" => job'[s] = job[s]
    <3>1. CASE job' = [job EXCEPT ![r] = [step |-> "checkout"]]
      BY <1>0, <3>1
    <3> QED BY <2>2, <3>1
  <2> QED BY <1>0, <1>1, <2>1, <2>3, FirstUnconfirmed
<1>3. ASSUME NEW r \in Slot, NEW o \in OpsOf(row.kind), BeginOp(r, o) PROVE VoucherInv'
  <2>1. o.to # "CONFIRMED"
    BY <1>0, OpsConfirmNothing
  <2>2. PICK t : job' = [job EXCEPT ![r] = [step |-> "update", op |-> o.op, to |-> o.to,
                                            tenant |-> t]]
    BY <1>3 DEF BeginOp, Begin
  <2>3. UNCHANGED <<row, vouchers>>
    BY <1>3 DEF BeginOp
  <2>4. \A s \in Slot : job'[s].step = "update" => job'[s].to = o.to \/ job'[s] = job[s]
    BY <1>0, <2>2
  <2> QED BY <2>1, <2>3, <2>4 DEF VoucherInv, OneVoucherPerPayout
<1>4. ASSUME NEW r \in Slot, Checkout(r) PROVE VoucherInv'
  <2>1. /\ job' = [job EXCEPT ![r] = [step |-> "saveCheckout", order |-> Len(orders) + 1]]
        /\ UNCHANGED <<row, vouchers>>
    BY <1>4 DEF Checkout
  <2>2. \A s \in Slot : job'[s].step = "update" => job'[s] = job[s]
    BY <1>0, <2>1
  <2> QED BY <1>1, <2>1, <2>2
<1>5. ASSUME NEW r \in Slot \cup Worker, job' = [job EXCEPT ![r] = Idle]
      PROVE  \A s \in Slot : job'[s].step = "update" => job'[s] = job[s]
  BY <1>0, <1>5 DEF Idle
<1>6. ASSUME NEW r \in Slot, SaveCheckout(r) \/ FinishOp(r) PROVE VoucherInv'
  <2>1. job' = [job EXCEPT ![r] = Idle] /\ UNCHANGED vouchers
    BY <1>6 DEF SaveCheckout, FinishOp, Done
  <2>2. row'.status # "CONFIRMED" \/ row'.status = row.status
    BY <1>0, <1>6 DEF SaveCheckout, FinishOp, At, RequestRow, VoucherInv
  <2> QED BY <1>1, <1>5, <2>1, <2>2
<1>7. ASSUME NEW w \in Worker, Deliver(w) PROVE VoucherInv'
  <2>1. UNCHANGED <<row, vouchers>>
    BY <1>7 DEF Deliver, BeginWebhook
  <2>2. job' = [job EXCEPT ![w] = [step |-> "apply", tenant |-> row.claimedBy]]
    BY <1>7 DEF Deliver, BeginWebhook, Begin
  <2>3. \A s \in Slot : job'[s].step = "update" => job'[s] = job[s]
    BY <1>0, <2>2
  <2> QED BY <1>1, <2>1, <2>3
<1>8. ASSUME NEW w \in Worker, MarkPaid(w) \/ VoucherFails(w) PROVE VoucherInv'
  <2>1. job' = [job EXCEPT ![w] = Idle] /\ UNCHANGED vouchers
    BY <1>8 DEF MarkPaid, VoucherFails, Done
  <2>2. row'.status \in {row.status, "PAID"}
    BY <1>0, <1>8 DEF MarkPaid, VoucherFails, RequestRow
  <2> QED BY <1>1, <1>5, <2>1, <2>2
<1>9. ASSUME NEW w \in Worker, IssueVoucher(w) PROVE VoucherInv'
  <2>1. job' = [job EXCEPT ![w] = Idle] /\ vouchers' = <<[tenant |-> job[w].tenant]>>
    BY <1>9 DEF IssueVoucher, Done
  <2>2. Len(vouchers') = 1 /\ vouchers' # <<>>
    BY <2>1
  <2> QED BY <1>5, <2>1, <2>2 DEF VoucherInv, OneVoucherPerPayout
<1>10. ASSUME \/ \E r \in Slot \cup Worker : Abort(r)
              \/ \E o \in DOMAIN orders : Pay(o)
       PROVE  VoucherInv'
  <2>1. UNCHANGED <<row, vouchers>>
    BY <1>10 DEF Abort, Pay
  <2>2. \A s \in Slot : job'[s].step = "update" => job'[s] = job[s]
    BY <1>5, <1>10 DEF Abort, Done, Pay
  <2> QED BY <1>1, <2>1, <2>2
<1> QED
  BY <1>2, <1>3, <1>4, <1>6, <1>7, <1>8, <1>9, <1>10
     DEF Next, Endpoint, Serve, HandleWebhook

\* However often the event of a payout is delivered, and to however many workers at
\* once, it yields one voucher, and no job is confirmed without one.
THEOREM VoucherCorrect == Spec => []OneVoucherPerPayout
<1>1. Init => TypeInv /\ VoucherInv
  <2>1. ASSUME Init PROVE VoucherInv
    BY <2>1 DEF Init, VoucherInv, OneVoucherPerPayout, Idle
  <2> QED BY <2>1, InitTyped, PaidRequestsAssumption
<1>2. TypeInv /\ VoucherInv /\ [Next]_vars => TypeInv' /\ VoucherInv'
  <2>1. ASSUME TypeInv, VoucherInv, UNCHANGED vars PROVE VoucherInv'
    BY <2>1 DEF vars, VoucherInv, OneVoucherPerPayout
  <2> QED BY <2>1, VoucherStep, StepTyped, PaidRequestsAssumption
<1>3. VoucherInv => OneVoucherPerPayout
  BY DEF VoucherInv
<1> QED BY <1>1, <1>2, <1>3, PTL DEF Spec

-----------------------------------------------------------------------------
(* No forgotten order *)

Paying(r) == job[r].step \in {"checkout", "saveCheckout"}

\* A call makes an order only for a row that has none; one that was saved when no
\* other call was about to is the row's, and no call makes another.
RememberInv ==
    /\ row.status = "absent" => DOMAIN orders = {} /\ \A r \in Slot : ~Paying(r)
    /\ row.kind # "gig" =>
          \A o \in DOMAIN orders : orders[o].offered /\ o \notin overtaken =>
              row.order = o /\ \A r \in Slot : ~Paying(r)

\* Steps that give out no order and begin no payment.
LEMMA RememberQuiet ==
    ASSUME RememberInv, row'.kind = row.kind, row'.order = row.order, overtaken' = overtaken,
           row'.status = "absent" => row.status = "absent",
           DOMAIN orders' = DOMAIN orders,
           \A o \in DOMAIN orders : orders'[o].offered = orders[o].offered,
           \A r \in Slot : Paying(r)' => Paying(r)
    PROVE  RememberInv'
BY DEF RememberInv

\* Every step keeps the memory of the order.
LEMMA RememberStep ==
    ASSUME PaidRequestsAssumption, TypeInv, RememberInv, Next PROVE RememberInv'
<1>0. /\ row \in RequestRow /\ job = [r \in Slot \cup Worker |-> job[r]]
      /\ row.kind \in {"gig", "hqs", "screening", "application"} /\ orders \in Seq(OrderRow)
      /\ Slot \cap Worker = {}
  BY DEF TypeInv, TypeOK, RequestRow, PaidRequestsAssumption
<1>1. ASSUME NEW r \in Slot, Create(r) PROVE RememberInv'
  <2>1. /\ row'.kind = row.kind /\ row'.order = row.order /\ row.status = "absent"
        /\ UNCHANGED <<orders, job, overtaken>>
    BY <1>0, <1>1 DEF Create, RequestRow
  <2> QED BY <2>1, RememberQuiet DEF Paying
<1>2. ASSUME NEW r \in Slot, CreateAndPay(r) \/ BeginPay(r) PROVE RememberInv'
  <2>1. /\ row'.kind = row.kind /\ row'.status # "absent" /\ UNCHANGED <<orders, overtaken>>
    BY <1>0, <1>2 DEF CreateAndPay, BeginPay, PayGig, PayScreening, PayApplication, RequestRow,
                      FirstStatus
  <2>2. \A o \in DOMAIN orders : o # 0
    BY <1>0
  <2>3. row.kind # "gig" => \A o \in DOMAIN orders : orders[o].offered => o \in overtaken
    BY <1>2, <2>2 DEF CreateAndPay, BeginPay, PayGig, PayScreening, PayApplication, RememberInv
  <2> QED BY <2>1, <2>3 DEF RememberInv
<1>3. ASSUME NEW r \in Slot, NEW o \in OpsOf(row.kind), BeginOp(r, o) PROVE RememberInv'
  <2>1. PICK t : job' = [job EXCEPT ![r] = [step |-> "update", op |-> o.op, to |-> o.to,
                                            tenant |-> t]]
    BY <1>3 DEF BeginOp, Begin
  <2>2. UNCHANGED <<row, orders, overtaken>>
    BY <1>3 DEF BeginOp
  <2>3. \A s \in Slot : Paying(s)' => Paying(s)
    BY <1>0, <2>1 DEF Paying
  <2> QED BY <2>2, <2>3, RememberQuiet
<1>4. ASSUME NEW r \in Slot, Checkout(r) PROVE RememberInv'
  <2> DEFINE new == [paid |-> FALSE, offered |-> FALSE]
  <2>1. /\ orders' = Append(orders, new) /\ ~new.offered /\ row' = row /\ Paying(r)
        /\ overtaken' = overtaken
        /\ job' = [job EXCEPT ![r] = [step |-> "saveCheckout", order |-> Len(orders) + 1]]
    BY <1>4 DEF Checkout, Paying, At
  <2> HIDE DEF new
  <2>2. \A o \in DOMAIN orders' : orders'[o].offered => o \in DOMAIN orders /\ orders[o].offered
    BY <1>0, <2>1
  <2>3. row.status # "absent"
    BY <2>1 DEF RememberInv
  <2>4. row.kind # "gig" => \A o \in DOMAIN orders' : orders'[o].offered => o \in overtaken
    BY <2>1, <2>2 DEF RememberInv
  <2> QED BY <2>1, <2>3, <2>4 DEF RememberInv
<1>5. ASSUME NEW r \in Slot, SaveCheckout(r) PROVE RememberInv'
  <2> PICK n : n = job[r].order
    OBVIOUS
  <2>1. /\ Paying(r) /\ n \in DOMAIN orders /\ n \in Nat
        /\ row' = [row EXCEPT !.order = n]
        /\ orders' = [orders EXCEPT ![n].offered = TRUE]
        /\ job' = [job EXCEPT ![r] = Idle]
        /\ overtaken \subseteq overtaken'
        /\ n \notin overtaken' => \A s \in Slot \ {r} : ~Paying(s)
    BY <1>5 DEF SaveCheckout, Paying, At, AboutToSave, Done, TypeInv, TypeOK, CallsKept
  <2>2. /\ row'.kind = row.kind /\ row'.order = n /\ row'.status = row.status
        /\ row.status # "absent"
    BY <1>0, <2>1 DEF RequestRow, RememberInv
  <2>3. ~Paying(r)' /\ \A s \in Slot \ {r} : Paying(s)' => Paying(s)
    BY <1>0, <2>1 DEF Paying, Idle
  <2>4. /\ DOMAIN orders' = DOMAIN orders
        /\ \A o \in DOMAIN orders : o # n => orders'[o] = orders[o]
    BY <1>0, <2>1
  <2>5. row.kind # "gig" => \A o \in DOMAIN orders : orders[o].offered => o \in overtaken
    BY <2>1 DEF RememberInv
  <2>6. row'.kind # "gig" => \A o \in DOMAIN orders' : orders'[o].offered /\ o \notin overtaken' =>
            row'.order = o /\ \A s \in Slot : ~Paying(s)'
    BY <2>1, <2>2, <2>3, <2>4, <2>5
  <2> QED BY <2>2, <2>6 DEF RememberInv
<1>6. ASSUME NEW r \in Slot, FinishOp(r) PROVE RememberInv'
  <2>1. job[r].step = "update" /\ job[r] \in ApiJob /\ job[r].to \in StatusOf(row.kind)
    BY <1>6 DEF FinishOp, At, TypeInv, TypeOK, CallsKept, Idle
  <2>2. job[r].to # "absent"
    BY <1>0, <2>1, StatusesTyped
    DEF AnyStatus, GigStatus, HqsStatus, ScreeningStatus, ApplicationStatus
  <2>3. /\ row'.kind = row.kind /\ row'.order = row.order /\ row'.status = job[r].to
        /\ UNCHANGED <<orders, overtaken>> /\ job' = [job EXCEPT ![r] = Idle]
    BY <1>0, <1>6 DEF FinishOp, Done, RequestRow
  <2>4. \A s \in Slot : Paying(s)' => Paying(s)
    BY <1>0, <2>3 DEF Paying, Idle
  <2> QED BY <2>2, <2>3, <2>4, RememberQuiet
<1>7. ASSUME NEW w \in Worker, Deliver(w) \/ HandleWebhook(w) PROVE RememberInv'
  <2>1. /\ row'.kind = row.kind /\ row'.order = row.order
        /\ row'.status = "absent" => row.status = "absent"
        /\ UNCHANGED <<orders, overtaken>>
    BY <1>0, <1>7 DEF Deliver, BeginWebhook, HandleWebhook, MarkPaid, IssueVoucher, VoucherFails,
                      RequestRow
  <2>2. PICK d : job' = [job EXCEPT ![w] = d]
    BY <1>7 DEF Deliver, BeginWebhook, HandleWebhook, MarkPaid, IssueVoucher, VoucherFails,
                Begin, Done
  <2>3. \A s \in Slot : Paying(s)' => Paying(s)
    BY <1>0, <2>2 DEF Paying
  <2> QED BY <2>1, <2>3, RememberQuiet
<1>8. ASSUME NEW r \in Slot \cup Worker, Abort(r) PROVE RememberInv'
  <2>1. UNCHANGED <<row, orders, overtaken>> /\ job' = [job EXCEPT ![r] = Idle]
    BY <1>8 DEF Abort, Done
  <2>2. \A s \in Slot : Paying(s)' => Paying(s)
    BY <1>0, <2>1 DEF Paying, Idle
  <2> QED BY <2>1, <2>2, RememberQuiet
<1>9. ASSUME NEW o \in DOMAIN orders, Pay(o) PROVE RememberInv'
  <2>1. orders' = [orders EXCEPT ![o].paid = TRUE] /\ UNCHANGED <<row, job, overtaken>>
    BY <1>9 DEF Pay
  <2>2. /\ DOMAIN orders' = DOMAIN orders
        /\ \A p \in DOMAIN orders : orders'[p].offered = orders[p].offered
    BY <1>0, <2>1 DEF OrderRow
  <2> QED BY <2>1, <2>2, RememberQuiet DEF Paying
<1> QED
  BY <1>1, <1>2, <1>3, <1>4, <1>5, <1>6, <1>7, <1>8, <1>9 DEF Next, Endpoint, Serve

\* However calls, deliveries and crashes overlap, an inspection, screening or
\* application has one checkout to pay, which its row knows, unless another call
\* that had looked for one was about to save its own.
THEOREM RememberedCorrect == Spec => []NoForgottenOrder
<1>1. Init => TypeInv /\ RememberInv
  <2>1. ASSUME Init PROVE RememberInv
    BY <2>1 DEF Init, RememberInv, Paying, Idle
  <2> QED BY <2>1, InitTyped, PaidRequestsAssumption
<1>2. TypeInv /\ RememberInv /\ [Next]_vars => TypeInv' /\ RememberInv'
  <2>1. ASSUME TypeInv, RememberInv, UNCHANGED vars PROVE RememberInv'
    BY <2>1 DEF vars, RememberInv, Paying
  <2> QED BY <2>1, RememberStep, StepTyped, PaidRequestsAssumption
<1>3. RememberInv => NoForgottenOrder
  BY DEF RememberInv, NoForgottenOrder
<1> QED BY <1>1, <1>2, <1>3, PTL DEF Spec

=============================================================================
