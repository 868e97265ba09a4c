------------------------ MODULE SponsoredListingProofs ------------------------
(***************************************************************************)
(* Sponsored listings, for any number of requests, webhook workers,        *)
(* tenants, orders, prices and crashes, all of them overlapping.           *)
(***************************************************************************)
EXTENDS SponsoredListing, SequenceTheorems, FiniteSetTheorems, TLAPS

-----------------------------------------------------------------------------
(* Type correctness *)

\* The orders that calls in flight carry exist.
OrdersKept ==
    /\ \A r \in Slot : job[r].step = "saveCheckout" => job[r].order \in DOMAIN orders
    /\ \A w \in Worker : job[w].step = "apply" => job[w].snap.order \in DOMAIN orders

\* job's domain is not part of TypeOK, which speaks of its two halves apart.
TypeInv ==
    /\ TypeOK /\ OrdersKept
    /\ job = [r \in Slot \cup Worker |-> job[r]]

\* An advertised amount is a number.
LEMMA BudgetTyped == ASSUME ListingAssumption, NEW op \in Op PROVE BudgetOf(op) \in Nat
BY DEF BudgetOf, ListingAssumption, Op

\* Offering, paying or applying an order leaves a list of as many orders.
LEMMA OrderUpdate ==
    ASSUME NEW s \in Seq(OrderRow), NEW o \in DOMAIN s
    PROVE  LET offered == [s EXCEPT ![o].offered = TRUE]
               paid == [s EXCEPT ![o].paid = TRUE]
               applied == [s EXCEPT ![o].applied = @ + 1]
           IN  /\ offered \in Seq(OrderRow) /\ Len(offered) = Len(s) /\ DOMAIN offered = DOMAIN s
               /\ paid \in Seq(OrderRow) /\ Len(paid) = Len(s) /\ DOMAIN paid = DOMAIN s
               /\ applied \in Seq(OrderRow) /\ Len(applied) = Len(s) /\ DOMAIN applied = DOMAIN s
<1>1. o \in 1..Len(s) /\ s[o] \in OrderRow
  OBVIOUS
<1>2. /\ [s[o] EXCEPT !.offered = TRUE] \in OrderRow /\ [s[o] EXCEPT !.paid = TRUE] \in OrderRow
      /\ [s[o] EXCEPT !.applied = s[o].applied + 1] \in OrderRow
  <2>1. s[o].applied + 1 \in Nat
    BY <1>1 DEF OrderRow
  <2> QED BY <1>1, <2>1 DEF OrderRow
<1>3. ASSUME NEW v \in OrderRow
      PROVE  [s EXCEPT ![o] = v] \in Seq(OrderRow) /\ Len([s EXCEPT ![o] = v]) = Len(s)
  BY <1>1, ExceptSeq
<1>4. /\ DOMAIN [s EXCEPT ![o].offered = TRUE] = DOMAIN s
      /\ DOMAIN [s EXCEPT ![o].paid = TRUE] = DOMAIN s
      /\ DOMAIN [s EXCEPT ![o].applied = @ + 1] = DOMAIN s
  OBVIOUS
<1> QED BY <1>2, <1>3, <1>4

\* The initial states are well-formed.
LEMMA InitTyped == ASSUME ListingAssumption, Init PROVE TypeInv
<1>1. listing \in ListingRow /\ listing.order = 0
  BY DEF Init, ListingRow, ListingStatus
<1>2. \A r \in Slot \cup Worker : job[r] = Idle
  BY DEF Init
<1>3. orders \in Seq(OrderRow) /\ Len(orders) = 0
  BY DEF Init
<1>4. TypeOK
  BY <1>1, <1>2, <1>3 DEF TypeOK, Init
<1>5. OrdersKept
  BY <1>2 DEF OrdersKept, Idle
<1> QED BY <1>4, <1>5 DEF TypeInv, Init

\* Starting a call keeps the types.
LEMMA RequestTyped ==
    ASSUME ListingAssumption, TypeInv, NEW r \in Slot, Request(r) PROVE TypeInv'
<1> USE DEF TypeInv
<1>1. CASE CreateSponsored(r)
  <2> DEFINE call == [step |-> "checkout", op |-> "ACTIVATE", budget |-> InitialBudget]
  <2>1. call \in ApiJob
    BY DEF ApiJob, Op, ListingAssumption
  <2>2. job' = [job EXCEPT ![r] = call]
    BY <1>1 DEF CreateSponsored, Begin
  <2>3. listing' \in ListingRow /\ listing'.order = listing.order
    BY <1>1 DEF CreateSponsored, TypeOK, ListingRow, ListingStatus, Op, ListingAssumption
  <2>4. UNCHANGED <<orders, clicks, today, month, credited, served, raced, overtaken>>
    BY <1>1 DEF CreateSponsored
  <2> QED BY <2>1, <2>2, <2>3, <2>4 DEF TypeOK, OrdersKept, ListingAssumption
<1>2. ASSUME NEW op \in {"TOPUP", "RENEW"}, BeginCheckout(r, op) PROVE TypeInv'
  <2> DEFINE call == [step |-> "checkout", op |-> op, budget |-> BudgetOf(op)]
  <2>1. call \in ApiJob
    BY BudgetTyped DEF ApiJob, Op
  <2>2. job' = [job EXCEPT ![r] = call]
    BY <1>2 DEF BeginCheckout, Begin
  <2>3. UNCHANGED <<listing, orders, clicks, today, month, credited, served, raced, overtaken>>
    BY <1>2 DEF BeginCheckout
  <2> QED BY <2>1, <2>2, <2>3 DEF TypeOK, OrdersKept, ListingAssumption
<1>3. ASSUME NEW t \in Tenant, BeginClick(r, t) PROVE TypeInv'
  <2> DEFINE call == [step |-> "insertClick", tenant |-> t]
  <2>1. call \in ApiJob
    BY DEF ApiJob
  <2>2. job' = [job EXCEPT ![r] = call]
    BY <1>3 DEF BeginClick, Begin
  <2>3. UNCHANGED <<listing, orders, clicks, today, month, credited, served, raced, overtaken>>
    BY <1>3 DEF BeginClick
  <2> QED BY <2>1, <2>2, <2>3 DEF TypeOK, OrdersKept, ListingAssumption
<1> QED BY <1>1, <1>2, <1>3 DEF Request

\* The later steps of a call keep the types.
LEMMA CheckoutTyped ==
    ASSUME ListingAssumption, TypeInv, NEW r \in Slot, Checkout(r) \/ SaveCheckout(r)
    PROVE  TypeInv'
<1> USE DEF TypeInv
<1>0. job[r] \in {Idle} \cup ApiJob /\ orders \in Seq(OrderRow) /\ Len(orders) \in Nat
  BY DEF TypeOK
<1>1. CASE Checkout(r)
  <2> DEFINE new == [op |-> job[r].op, paid |-> FALSE, offered |-> FALSE, applied |-> 0]
             call == [step |-> "saveCheckout", op |-> job[r].op, budget |-> job[r].budget,
                      order |-> Len(orders) + 1]
  <2>1. job[r].op \in Op /\ job[r].budget \in Nat
    BY <1>0, <1>1 DEF Checkout, At, ApiJob, Idle
  <2>2. new \in OrderRow /\ call \in ApiJob
    BY <1>0, <2>1 DEF OrderRow, ApiJob
  <2>3. orders' = Append(orders, new) /\ job' = [job EXCEPT ![r] = call]
    BY <1>1 DEF Checkout
  <2>4. /\ orders' \in Seq(OrderRow) /\ Len(orders') = Len(orders) + 1
        /\ DOMAIN orders \subseteq DOMAIN orders' /\ Len(orders) + 1 \in DOMAIN orders'
    BY <1>0, <2>2, <2>3
  <2>5. UNCHANGED <<listing, clicks, today, month, credited, served, raced, overtaken>>
    BY <1>1 DEF Checkout
  <2>6. OrdersKept'
    BY <2>3, <2>4 DEF OrdersKept, ListingAssumption
  <2>7. listing'.order \in 0..Len(orders')
    BY <1>0, <2>4, <2>5 DEF TypeOK
  <2> QED BY <2>2, <2>3, <2>4, <2>5, <2>6, <2>7 DEF TypeOK, ListingAssumption
<1>2. CASE SaveCheckout(r)
  <2>1. /\ job[r].op \in Op /\ job[r].budget \in Nat /\ job[r].order \in DOMAIN orders
        /\ job[r].order \in Nat
    BY <1>0, <1>2 DEF SaveCheckout, At, ApiJob, Idle, OrdersKept
  <2>2. listing' \in ListingRow /\ listing'.order = job[r].order
    BY <1>2, <2>1 DEF SaveCheckout, TypeOK, ListingRow
  <2>3. job' = [job EXCEPT ![r] = Idle] /\ orders' = [orders EXCEPT ![job[r].order].offered = TRUE]
    BY <1>2 DEF SaveCheckout, Done
  <2>4. orders' \in Seq(OrderRow) /\ Len(orders') = Len(orders) /\ DOMAIN orders' = DOMAIN orders
    BY <1>0, <2>1, <2>3, OrderUpdate
  <2>5. UNCHANGED <<clicks, today, month, credited, served, raced>>
    BY <1>2 DEF SaveCheckout
  <2>8. overtaken' \subseteq DOMAIN orders'
    BY <1>2, <2>1, <2>4 DEF SaveCheckout, TypeOK
  <2>6. OrdersKept'
    BY <2>3, <2>4 DEF OrdersKept, ListingAssumption, Idle
  <2>7. listing'.order \in 0..Len(orders')
    BY <1>0, <2>1, <2>2, <2>4
  <2> QED BY <2>2, <2>3, <2>4, <2>5, <2>6, <2>7, <2>8 DEF TypeOK, ListingAssumption
<1> QED BY <1>1, <1>2

\* Clicks keep the types: the budget never becomes negative.
LEMMA ClickTyped ==
    ASSUME ListingAssumption, TypeInv, NEW r \in Slot, InsertClick(r) \/ Bill(r) PROVE TypeInv'
<1> USE DEF TypeInv
<1>1. CASE InsertClick(r)
  <2>1. job[r].tenant \in Tenant
    BY <1>1 DEF InsertClick, At, TypeOK, ApiJob, Idle
  <2>2. clicks' \subseteq Tenant \X Nat
    BY <1>1, <2>1 DEF InsertClick, TypeOK
  <2>3. PICK call : call \in {Idle, [step |-> "bill"]} /\ job' = [job EXCEPT ![r] = call]
    BY <1>1 DEF InsertClick
  <2>4. UNCHANGED <<listing, orders, today, month, credited, served, raced, overtaken>>
    BY <1>1 DEF InsertClick
  <2>6. OrdersKept'
    BY <2>3, <2>4 DEF OrdersKept, ListingAssumption, Idle
  <2>5. [step |-> "bill"] \in ApiJob
    BY DEF ApiJob
  <2> QED BY <2>2, <2>3, <2>4, <2>5, <2>6 DEF TypeOK, ListingAssumption
<1>2. CASE Bill(r)
  <2>0. listing \in ListingRow /\ Cost \in Nat
    BY DEF TypeOK, ListingAssumption
  <2>1. listing' \in ListingRow /\ listing'.order = listing.order
    <3>1. CASE listing.budget >= Cost
      <4> DEFINE left == listing.budget - Cost
                 count == listing.clickCount + 1
      <4>1. left \in Nat /\ count \in Nat
        BY <2>0, <3>1 DEF ListingRow
      <4>2. listing' = [listing EXCEPT !.budget = left, !.clickCount = count]
        BY <1>2, <3>1 DEF Bill
      <4> HIDE DEF left, count
      <4> QED BY <2>0, <4>1, <4>2 DEF ListingRow
    <3>2. CASE ~(listing.budget >= Cost)
      BY <1>2, <2>0, <3>2 DEF Bill
    <3> QED BY <3>1, <3>2
  <2>2. job' = [job EXCEPT ![r] = Idle]
    BY <1>2 DEF Bill, Done
  <2>3. UNCHANGED <<orders, clicks, today, month, credited, served, raced, overtaken>>
    BY <1>2 DEF Bill
  <2> QED BY <2>1, <2>2, <2>3 DEF TypeOK, OrdersKept, ListingAssumption, Idle
<1> QED BY <1>1, <1>2

\* Deliveries keep the types, whatever row the lookup found.
LEMMA WebhookTyped ==
    ASSUME ListingAssumption, TypeInv, NEW w \in Worker, Deliver(w) \/ HandleWebhook(w)
    PROVE  TypeInv'
<1> USE DEF TypeInv
<1>0. job[w] \in {Idle} \cup WebhookJob /\ listing \in ListingRow /\ orders \in Seq(OrderRow)
  BY DEF TypeOK
<1>1. ASSUME NEW o \in DOMAIN orders, BeginWebhook(w, o) PROVE TypeInv'
  <2> DEFINE call == [step |-> "apply", snap |-> listing]
  <2>1. call \in WebhookJob /\ call.snap.order \in DOMAIN orders
    BY <1>0, <1>1 DEF WebhookJob, BeginWebhook
  <2>2. job' = [job EXCEPT ![w] = call]
    BY <1>1 DEF BeginWebhook, Begin
  <2>3. UNCHANGED <<listing, orders, clicks, today, month, credited, served, overtaken>>
    BY <1>1 DEF BeginWebhook
  <2>4. raced' \subseteq DOMAIN orders
    BY <1>1 DEF BeginWebhook, TypeOK
  <2> QED BY <2>1, <2>2, <2>3, <2>4 DEF TypeOK, OrdersKept, ListingAssumption
<1>2. CASE Acknowledge(w)
  <2>1. listing' \in ListingRow /\ listing'.order = listing.order
    BY <1>0, <1>2 DEF Acknowledge, ListingRow
  <2>2. job' = [job EXCEPT ![w] = Idle]
    BY <1>2 DEF Acknowledge, Done
  <2>3. UNCHANGED <<orders, clicks, today, month, credited, served, raced, overtaken>>
    BY <1>2 DEF Acknowledge
  <2> QED BY <2>1, <2>2, <2>3 DEF TypeOK, OrdersKept, ListingAssumption, Idle
<1>3. CASE ApplyPayment(w)
  <2> DEFINE snap == job[w].snap
             base == IF snap.pending = "RENEW" /\ snap.periodEnd > month
                     THEN snap.periodEnd ELSE month
  <2>1. snap \in ListingRow /\ snap.order \in DOMAIN orders
    BY <1>0, <1>3 DEF ApplyPayment, At, WebhookJob, Idle, OrdersKept
  <2>2. month \in Nat /\ base \in Nat /\ snap.pendingBudget \in Nat /\ credited \in Nat
    BY <2>1 DEF TypeOK, ListingRow
  <2> DEFINE budget == CASE snap.pending = "ACTIVATE" -> snap.pendingBudget
                         [] snap.pending = "TOPUP" -> listing.budget + snap.pendingBudget
                         [] OTHER -> listing.budget
             status == IF snap.pending = "TOPUP" THEN listing.status ELSE "ACTIVE"
             end == IF snap.pending = "TOPUP" THEN listing.periodEnd ELSE base + 1
  <2>3. listing' = [listing EXCEPT !.pending = None, !.pendingBudget = 0, !.budget = budget,
                                   !.status = status, !.periodEnd = end]
    BY <1>3 DEF ApplyPayment
  <2>8. listing.budget \in Nat /\ listing.periodEnd \in Nat /\ listing.status \in ListingStatus
    BY <1>0 DEF ListingRow
  <2>9. budget \in Nat /\ status \in ListingStatus /\ end \in Nat
    <3> HIDE DEF snap, base
    <3> QED BY <2>2, <2>8 DEF ListingStatus
  <2>4. listing' \in ListingRow /\ listing'.order = listing.order
    <3> HIDE DEF budget, status, end
    <3> QED BY <1>0, <2>3, <2>9 DEF ListingRow
  <2>5. /\ job' = [job EXCEPT ![w] = Idle]
        /\ orders' = [orders EXCEPT ![snap.order].applied = @ + 1]
        /\ credited' = credited + snap.pendingBudget
        /\ UNCHANGED <<clicks, today, month, served, raced, overtaken>>
    BY <1>3 DEF ApplyPayment, Done
  <2>6. orders' \in Seq(OrderRow) /\ Len(orders') = Len(orders) /\ DOMAIN orders' = DOMAIN orders
    BY <1>0, <2>1, <2>5, OrderUpdate
  <2>7. OrdersKept'
    BY <2>5, <2>6 DEF OrdersKept, ListingAssumption, Idle
  <2>10. credited' \in Nat /\ month' \in Nat
    <3> HIDE DEF snap
    <3> QED BY <2>2, <2>5
  <2>11. listing'.order \in 0..Len(orders')
    BY <2>4, <2>6 DEF TypeOK
  <2>12. /\ \A r \in Slot : job'[r] \in {Idle} \cup ApiJob
         /\ \A v \in Worker : job'[v] \in {Idle} \cup WebhookJob
         /\ job' = [r \in Slot \cup Worker |-> job'[r]]
    BY <2>5 DEF TypeOK, ListingAssumption
  <2> QED BY <2>4, <2>5, <2>6, <2>7, <2>10, <2>11, <2>12 DEF TypeOK
<1> QED BY <1>1, <1>2, <1>3 DEF Deliver, HandleWebhook

\* Closing, paying, time and crashes keep the types.
LEMMA EnvironmentTyped ==
    ASSUME ListingAssumption, TypeInv,
           \/ \E r \in Slot \cup Worker : Abort(r)
           \/ \E o \in DOMAIN orders : Pay(o)
           \/ Close \/ NextDay \/ MonthPasses
    PROVE  TypeInv'
<1> USE DEF TypeInv
<1>1. ASSUME NEW r \in Slot \cup Worker, Abort(r) PROVE TypeInv'
  BY <1>1 DEF Abort, Done, TypeOK, OrdersKept, Idle
<1>2. ASSUME NEW o \in DOMAIN orders, Pay(o) PROVE TypeInv'
  <2>1. orders' \in Seq(OrderRow) /\ Len(orders') = Len(orders) /\ DOMAIN orders' = DOMAIN orders
    BY <1>2, OrderUpdate DEF Pay, TypeOK
  <2> QED BY <1>2, <2>1 DEF Pay, TypeOK, OrdersKept
<1>3. CASE Close
  <2>1. listing' \in ListingRow /\ listing'.order = listing.order
    BY <1>3 DEF Close, TypeOK, ListingRow, ListingStatus
  <2> QED BY <1>3, <2>1 DEF Close, TypeOK, OrdersKept
<1>4. CASE NextDay
  <2>1. today' \in Nat
    BY <1>4 DEF NextDay, TypeOK
  <2>2. OrdersKept'
    BY <1>4 DEF NextDay, OrdersKept
  <2>3. UNCHANGED <<listing, orders, clicks, month, job, credited, served, raced, overtaken>>
    BY <1>4 DEF NextDay
  <2>4. TypeOK'
    BY <2>1, <2>3 DEF TypeOK
  <2> QED BY <2>2, <2>3, <2>4
<1>5. CASE MonthPasses
  <2>1. month' \in Nat /\ served' \in Nat
    <3>1. month \in Nat /\ served \in Nat
      BY DEF TypeOK
    <3>2. month' = month + 1 /\ served' \in {served + 1, served + 0}
      BY <1>5 DEF MonthPasses
    <3> QED BY <3>1, <3>2
  <2>2. OrdersKept'
    BY <1>5 DEF MonthPasses, OrdersKept
  <2>3. UNCHANGED <<listing, orders, clicks, today, job, credited, raced, overtaken>>
    BY <1>5 DEF MonthPasses
  <2>4. TypeOK'
    BY <2>1, <2>3 DEF TypeOK
  <2> QED BY <2>2, <2>3, <2>4
<1> QED BY <1>1, <1>2, <1>3, <1>4, <1>5

\* Every step keeps the types.
LEMMA StepTyped == ASSUME ListingAssumption, TypeInv, [Next]_vars PROVE TypeInv'
<1>1. CASE UNCHANGED vars
  BY <1>1 DEF vars, TypeInv, TypeOK, OrdersKept
<1>2. CASE Next
  BY <1>2, RequestTyped, CheckoutTyped, ClickTyped, WebhookTyped, EnvironmentTyped DEF Next
<1> QED BY <1>1, <1>2

\* Rows, orders and calls always have their shape, and the budget, which calls
\* and deliveries change without a lock, is never negative.
THEOREM ListingTypeCorrect == Spec => []TypeOK
<1>1. Init => TypeInv
  BY InitTyped, ListingAssumption
<1>2. TypeInv /\ [Next]_vars => TypeInv'
  BY StepTyped, ListingAssumption
<1>3. TypeInv => TypeOK
  BY DEF TypeInv
<1> QED BY <1>1, <1>2, <1>3, PTL DEF Spec

-----------------------------------------------------------------------------
(***************************************************************************)
(* The invariants the theorems share.                                      *)
(***************************************************************************)
Checkouts == {"checkout", "saveCheckout"}

\* Before its first payment is applied the listing waits for that payment only.
Fresh == listing.status = "absent" \/ listing.pending = "ACTIVATE"

\* What keeps the first payment, the one that sets the budget instead of adding
\* to it, from being applied to a budget already in use.
Phases ==
    /\ listing.status = "absent" =>
          /\ listing.pending = None /\ listing.order = 0
          /\ \A r \in Slot \cup Worker : job[r] = Idle
    /\ Fresh =>
          /\ listing.budget = 0 /\ listing.clickCount = 0 /\ listing.status # "ACTIVE"
          /\ \A r \in Slot : job[r].step \notin {"insertClick", "bill"}
          /\ \A r \in Slot : job[r].step \in Checkouts => job[r].op = "ACTIVATE"
          /\ \A w \in Worker : job[w].step = "apply" => job[w].snap.pending = "ACTIVATE"
    /\ \A w \in Worker : job[w].step = "apply" /\ job[w].snap.pending = "ACTIVATE"
                             => listing.pending = "ACTIVATE" \/ 1 \in raced

\* The amounts on their way are the advertised ones.
Priced ==
    /\ listing.pending # None => listing.pendingBudget = BudgetOf(listing.pending)
    /\ \A r \in Slot : job[r].step \in Checkouts => job[r].budget = BudgetOf(job[r].op)
    /\ \A w \in Worker : job[w].step = "apply" =>
          /\ job[w].snap.pending \in Op
          /\ job[w].snap.pendingBudget = BudgetOf(job[w].snap.pending)

LedgerInv == Phases /\ Priced

\* The first order is the only one that activates the listing.
Begun ==
    /\ listing.status = "absent" => DOMAIN orders = {}
    /\ ~Fresh => 1 \in DOMAIN orders
    /\ \A o \in DOMAIN orders : orders[o].op = "ACTIVATE" => o = 1

\* An order is applied after it was paid, which is after it was offered, and more
\* than once only if its deliveries overlapped.
OrdersOnce == \A o \in DOMAIN orders :
    /\ o \notin raced => orders[o].applied <= 1
    /\ orders[o].applied # 0 => orders[o].paid
    /\ orders[o].paid => orders[o].offered

\* A call about to save its order is the only one that knows it.
NewOrders ==
    \A r \in Slot : job[r].step = "saveCheckout" =>
        /\ ~orders[job[r].order].offered /\ orders[job[r].order].op = job[r].op
        /\ \A q \in Slot \ {r} : job[q].step = "saveCheckout" => job[q].order # job[r].order

\* While the first order is being made there is no other, and nothing to deliver.
FirstOrder ==
    \A r \in Slot : job[r].step \in Checkouts /\ job[r].op = "ACTIVATE" =>
        /\ listing.order = 0 /\ listing.pending = "ACTIVATE"
        /\ job[r].step = "checkout" => DOMAIN orders = {}
        /\ \A q \in Slot \ {r} : job[q].step \notin Checkouts
        /\ \A w \in Worker : job[w].step # "apply"

\* The order of a pending operation is for that operation and not applied yet.
Awaited ==
    listing.pending # None /\ listing.order # 0 =>
        orders[listing.order].applied = 0 /\ orders[listing.order].op = listing.pending

\* A delivery in progress is of a paid order; unless it overlapped another one of
\* that order, it is alone with it and the order is not applied yet.
Alone ==
    \A w \in Worker : job[w].step = "apply" =>
        LET o == job[w].snap.order IN
        /\ orders[o].paid /\ orders[o].op = job[w].snap.pending
        /\ o \notin raced => /\ orders[o].applied = 0
                             /\ \A v \in Worker \ {w} : ~Applying(v, o)

OnceInv == Begun /\ OrdersOnce /\ NewOrders /\ FirstOrder /\ Awaited /\ Alone

-----------------------------------------------------------------------------
(* The ledger *)

\* Applying a payment credits what it was advertised to, and to an unused budget
\* when it is the first; if deliveries of the first payment overlapped, the second
\* one may start the balance over.
LEMMA ApplyCredits ==
    ASSUME ListingAssumption, TypeInv, LedgerInv, NEW w \in Worker, ApplyPayment(w)
    PROVE  L!StartOver \/ \E amount \in {BudgetOf(op) : op \in Op} : L!Credit(amount)
<1> DEFINE snap == job[w].snap
           op == snap.pending
           amount == snap.pendingBudget
<1>1. job[w].step = "apply" /\ op \in Op /\ amount = BudgetOf(op) /\ amount \in Nat
  BY BudgetTyped DEF ApplyPayment, At, LedgerInv, Priced
<1>2. listing \in ListingRow /\ listing.budget \in Nat
  BY DEF TypeInv, TypeOK, ListingRow
<1>3. op = "ACTIVATE" => listing.budget = 0 \/ 1 \in raced
  BY <1>1 DEF LedgerInv, Phases, Fresh
<1>4. op = "RENEW" => amount = 0
  BY <1>1 DEF BudgetOf
<1>5. /\ listing'.budget = CASE op = "ACTIVATE" -> amount
                             [] op = "TOPUP" -> listing.budget + amount
                             [] OTHER -> listing.budget
      /\ listing'.clickCount = listing.clickCount
      /\ credited' = credited + amount /\ raced' = raced
  BY <1>2 DEF ApplyPayment, ListingRow
<1>6. CASE op = "ACTIVATE" /\ 1 \in raced
  <2>1. amount = InitialBudget
    BY <1>1, <1>6 DEF BudgetOf
  <2>2. listing'.budget = InitialBudget /\ credited' = credited + InitialBudget
    BY <1>5, <1>6, <2>1
  <2> QED BY <1>5, <1>6, <2>2 DEF L!StartOver
<1>7. CASE ~(op = "ACTIVATE" /\ 1 \in raced)
  <2>1. listing'.budget = listing.budget + amount
    <3> HIDE DEF op, amount
    <3> QED BY <1>1, <1>2, <1>3, <1>4, <1>5, <1>7 DEF Op
  <2>2. L!Credit(amount)
    BY <1>5, <2>1 DEF L!Credit
  <2> QED BY <1>1, <2>2
<1> QED BY <1>6, <1>7

\* Every step is a step of the ledger, or leaves it alone.
LEMMA LedgerStep ==
    ASSUME ListingAssumption, TypeInv, LedgerInv, [Next]_vars
    PROVE  [L!LedgerNext]_(L!ledgerVars)
<1>1. listing \in ListingRow
  BY DEF TypeInv, TypeOK
<1>2. ASSUME NEW r \in Slot, Bill(r) PROVE [L!LedgerNext]_(L!ledgerVars)
  <2>1. CASE listing.budget >= Cost
    BY <1>1, <1>2, <2>1 DEF Bill, ListingRow, L!LedgerNext, L!BillClick
  <2>2. CASE ~(listing.budget >= Cost)
    BY <1>2, <2>2 DEF Bill, L!ledgerVars
  <2> QED BY <2>1, <2>2
<1>3. ASSUME NEW w \in Worker, ApplyPayment(w) PROVE L!LedgerNext
  BY <1>3, ApplyCredits DEF L!LedgerNext
<1>4. ASSUME /\ listing'.budget = listing.budget /\ listing'.clickCount = listing.clickCount
             /\ credited' = credited /\ raced' = raced
      PROVE  UNCHANGED L!ledgerVars
  BY <1>4 DEF L!ledgerVars
<1>5. ASSUME NEW r \in Slot, Request(r) \/ Checkout(r) \/ SaveCheckout(r) \/ InsertClick(r)
      PROVE  UNCHANGED L!ledgerVars
  BY <1>1, <1>4, <1>5 DEF Request, CreateSponsored, BeginCheckout, BeginClick, Checkout,
                          SaveCheckout, InsertClick, ListingRow
<1>6. ASSUME NEW w \in Worker, Acknowledge(w) PROVE UNCHANGED L!ledgerVars
  BY <1>1, <1>4, <1>6 DEF Acknowledge, ListingRow
<1>9. ASSUME NEW w \in Worker, Deliver(w) PROVE [L!LedgerNext]_(L!ledgerVars)
  <2>1. listing' = listing /\ credited' = credited /\ raced \subseteq raced'
    BY <1>9 DEF Deliver, BeginWebhook
  <2>2. CASE 1 \in raced'
    BY <2>1, <2>2 DEF L!LedgerNext, L!NoticesOverlap
  <2>3. CASE 1 \notin raced'
    <3>1. (1 \in raced) = FALSE /\ (1 \in raced') = FALSE
      BY <2>1, <2>3
    <3> QED BY <2>1, <3>1 DEF L!ledgerVars
  <2> QED BY <2>2, <2>3
<1>7. ASSUME \/ \E r \in Slot \cup Worker : Abort(r)
             \/ \E o \in DOMAIN orders : Pay(o)
             \/ Close \/ NextDay \/ MonthPasses
      PROVE  UNCHANGED L!ledgerVars
  BY <1>1, <1>4, <1>7 DEF Abort, Pay, Close, NextDay, MonthPasses, ListingRow
<1>8. CASE UNCHANGED vars
  BY <1>4, <1>8 DEF vars
<1> QED BY <1>2, <1>3, <1>5, <1>6, <1>7, <1>8, <1>9 DEF Next, HandleWebhook

\* Starting a call keeps the phases and the prices.
LEMMA RequestPhases ==
    ASSUME ListingAssumption, TypeInv, LedgerInv, NEW r \in Slot, Request(r) PROVE LedgerInv'
<1>0. listing \in ListingRow /\ r \in DOMAIN job /\ r \notin Worker /\ raced' = raced
  BY DEF TypeInv, TypeOK, ListingAssumption, Request, CreateSponsored, BeginCheckout, BeginClick
<1>1. CASE CreateSponsored(r)
  <2>1. /\ listing' = [listing EXCEPT !.status = "PENDING_PAYMENT", !.pending = "ACTIVATE",
                                      !.pendingBudget = InitialBudget]
        /\ job' = [job EXCEPT ![r] =
              [step |-> "checkout", op |-> "ACTIVATE", budget |-> InitialBudget]]
        /\ Fresh /\ \A s \in Slot \cup Worker : job[s] = Idle
    BY <1>1 DEF CreateSponsored, Begin, LedgerInv, Phases, Fresh
  <2>2. BudgetOf("ACTIVATE") = InitialBudget
    BY DEF BudgetOf
  <2>3. Phases'
    BY <1>0, <2>1 DEF LedgerInv, Phases, Fresh, Checkouts, ListingRow, Idle
  <2>4. Priced'
    BY <1>0, <2>1, <2>2 DEF Priced, Checkouts, ListingRow, Idle
  <2> QED BY <2>3, <2>4 DEF LedgerInv
<1>2. ASSUME NEW op \in {"TOPUP", "RENEW"}, BeginCheckout(r, op) PROVE LedgerInv'
  <2>1. /\ listing' = listing /\ ~Fresh /\ listing.status # "absent"
        /\ job' = [job EXCEPT ![r] = [step |-> "checkout", op |-> op, budget |-> BudgetOf(op)]]
    BY <1>2 DEF BeginCheckout, Begin, Fresh, None
  <2>2. Phases'
    BY <1>0, <2>1 DEF LedgerInv, Phases, Fresh, Checkouts
  <2>3. Priced'
    BY <1>0, <2>1 DEF LedgerInv, Priced, Checkouts
  <2> QED BY <2>2, <2>3 DEF LedgerInv
<1>3. ASSUME NEW t \in Tenant, BeginClick(r, t) PROVE LedgerInv'
  <2>1. /\ listing' = listing /\ ~Fresh /\ listing.status # "absent"
        /\ job' = [job EXCEPT ![r] = [step |-> "insertClick", tenant |-> t]]
    BY <1>3 DEF BeginClick, Billable, Begin, LedgerInv, Phases
  <2>2. Phases'
    BY <1>0, <2>1 DEF LedgerInv, Phases, Fresh, Checkouts
  <2>3. Priced'
    BY <1>0, <2>1 DEF LedgerInv, Priced, Checkouts
  <2> QED BY <2>2, <2>3 DEF LedgerInv
<1> QED BY <1>1, <1>2, <1>3 DEF Request

\* The later steps of a call keep them.
LEMMA ServePhases ==
    ASSUME ListingAssumption, TypeInv, LedgerInv, NEW r \in Slot,
           Checkout(r) \/ SaveCheckout(r) \/ InsertClick(r) \/ Bill(r)
    PROVE  LedgerInv'
<1>8. job[r].step # "idle"
  BY DEF At, Checkout, SaveCheckout, InsertClick, Bill
<1>9. job[r] # Idle
  BY <1>8 DEF Idle
<1>0. /\ listing \in ListingRow /\ r \in DOMAIN job /\ r \notin Worker
      /\ listing.status # "absent" /\ raced' = raced
  BY <1>9 DEF TypeInv, TypeOK, ListingAssumption, LedgerInv, Phases, Checkout, SaveCheckout,
              InsertClick, Bill
<1>1. CASE Checkout(r)
  <2>1. /\ listing' = listing /\ job[r].step = "checkout"
        /\ job' = [job EXCEPT ![r] = [step |-> "saveCheckout", op |-> job[r].op,
                                      budget |-> job[r].budget, order |-> Len(orders) + 1]]
    BY <1>1 DEF Checkout, At
  <2>2. Phases'
    BY <1>0, <2>1 DEF LedgerInv, Phases, Fresh, Checkouts
  <2>3. Priced'
    BY <1>0, <2>1 DEF LedgerInv, Priced, Checkouts
  <2> QED BY <2>2, <2>3 DEF LedgerInv
<1>2. CASE SaveCheckout(r)
  <2>1. job[r].step = "saveCheckout" /\ job' = [job EXCEPT ![r] = Idle]
    BY <1>2 DEF SaveCheckout, At, Done
  <2>2. job[r].budget = BudgetOf(job[r].op) /\ (Fresh => job[r].op = "ACTIVATE")
    BY <2>1 DEF LedgerInv, Phases, Priced, Checkouts
  <2>3. CASE job[r].op = "ACTIVATE"
    <3>1. listing' = [listing EXCEPT !.order = job[r].order]
      BY <1>2, <2>3 DEF SaveCheckout
    <3>2. Phases'
      BY <1>0, <2>1, <3>1 DEF LedgerInv, Phases, Fresh, Checkouts, ListingRow, Idle
    <3>3. Priced'
      BY <1>0, <2>1, <3>1 DEF LedgerInv, Priced, Checkouts, ListingRow, Idle
    <3> QED BY <3>2, <3>3 DEF LedgerInv
  <2>4. CASE job[r].op # "ACTIVATE"
    <3>1. listing' = [listing EXCEPT !.order = job[r].order, !.pending = job[r].op,
                                     !.pendingBudget = job[r].budget]
      BY <1>2, <2>4 DEF SaveCheckout
    <3>2. Phases'
      BY <1>0, <2>1, <2>2, <2>4, <3>1 DEF LedgerInv, Phases, Fresh, Checkouts, ListingRow, Idle
    <3>3. Priced'
      BY <1>0, <2>1, <2>2, <3>1 DEF LedgerInv, Priced, Checkouts, ListingRow, Idle
    <3> QED BY <3>2, <3>3 DEF LedgerInv
  <2> QED BY <2>3, <2>4
<1>3. CASE InsertClick(r)
  <2>1. /\ listing' = listing /\ job[r].step = "insertClick" /\ ~Fresh
    BY <1>3 DEF InsertClick, At, LedgerInv, Phases
  <2>4. PICK c : c \in {Idle, [step |-> "bill"]} /\ job' = [job EXCEPT ![r] = c]
    BY <1>3 DEF InsertClick
  <2>5. c.step \in {"idle", "bill"}
    BY <2>4 DEF Idle
  <2>2. Phases'
    BY <1>0, <2>1, <2>4, <2>5 DEF LedgerInv, Phases, Fresh, Checkouts
  <2>3. Priced'
    BY <1>0, <2>1, <2>4, <2>5 DEF LedgerInv, Priced, Checkouts
  <2> QED BY <2>2, <2>3 DEF LedgerInv
<1>4. CASE Bill(r)
  <2>1. /\ listing'.status = listing.status /\ listing'.pending = listing.pending
        /\ listing'.pendingBudget = listing.pendingBudget
    BY <1>0, <1>4 DEF Bill, ListingRow
  <2>2. job' = [job EXCEPT ![r] = Idle] /\ ~Fresh
    BY <1>4 DEF Bill, At, Done, LedgerInv, Phases
  <2>3. Phases'
    BY <1>0, <2>1, <2>2 DEF LedgerInv, Phases, Fresh, Checkouts
  <2>4. Priced'
    BY <1>0, <2>1, <2>2 DEF LedgerInv, Priced, Checkouts, Idle
  <2> QED BY <2>3, <2>4 DEF LedgerInv
<1> QED BY <1>1, <1>2, <1>3, <1>4

\* Deliveries keep them: a second delivery of the first payment overlaps the one
\* that was applied.
LEMMA WebhookPhases ==
    ASSUME ListingAssumption, TypeInv, LedgerInv, OnceInv, NEW w \in Worker,
           Deliver(w) \/ HandleWebhook(w)
    PROVE  LedgerInv'
<1>0. listing \in ListingRow /\ w \in DOMAIN job /\ w \notin Slot
  BY DEF TypeInv, TypeOK, ListingAssumption
<1>1. ASSUME NEW o \in DOMAIN orders, BeginWebhook(w, o) PROVE LedgerInv'
  <2>1. /\ listing' = listing /\ listing.pending # None /\ listing.status # "absent"
        /\ job' = [job EXCEPT ![w] = [step |-> "apply", snap |-> listing]]
        /\ raced \subseteq raced'
    BY <1>1 DEF BeginWebhook, Begin, LedgerInv, Phases
  <2>2. Phases'
    BY <1>0, <2>1 DEF LedgerInv, Phases, Fresh
  <2>3. Priced'
    BY <1>0, <2>1 DEF LedgerInv, Priced, ListingRow
  <2> QED BY <2>2, <2>3 DEF LedgerInv
<1>2. CASE HandleWebhook(w)
  <2>0. job' = [job EXCEPT ![w] = Idle] /\ job[w].step = "apply" /\ raced' = raced
    BY <1>2 DEF HandleWebhook, Acknowledge, ApplyPayment, At, Done
  <2>4. job[w] # Idle
    BY <2>0 DEF Idle
  <2>1. listing.status # "absent"
    BY <2>4 DEF LedgerInv, Phases
  <2>2. listing'.pending = None /\ listing'.status # "absent"
    BY <1>0, <1>2, <2>1 DEF HandleWebhook, Acknowledge, ApplyPayment, ListingRow
  <2>6. ASSUME NEW v \in Worker \ {w}, job[v].step = "apply", job[v].snap.pending = "ACTIVATE"
        PROVE  1 \in raced
    <3>1. CASE listing.pending = "ACTIVATE"
      <4>1. job[w].snap.pending = "ACTIVATE"
        BY <2>0, <3>1 DEF LedgerInv, Phases, Fresh
      <4>2. job[v].snap.order = 1 /\ job[w].snap.order = 1
        BY <2>0, <2>6, <4>1 DEF OnceInv, Alone, Begun, TypeInv, OrdersKept
      <4>3. Applying(v, 1)
        BY <2>6, <4>2 DEF Applying, At
      <4> QED BY <2>0, <4>2, <4>3 DEF OnceInv, Alone
    <3>2. CASE listing.pending # "ACTIVATE"
      BY <2>6, <3>2 DEF LedgerInv, Phases
    <3> QED BY <3>1, <3>2
  <2>7. job'[w].step = "idle" /\ \A q \in (Slot \cup Worker) \ {w} : job'[q] = job[q]
    BY <1>0, <2>0 DEF Idle, TypeInv
  <2>3. Phases'
    BY <2>0, <2>2, <2>6, <2>7 DEF Phases, Fresh, None
  <2>5. Priced'
    BY <1>0, <2>2, <2>7 DEF LedgerInv, Priced
  <2> QED BY <2>3, <2>5 DEF LedgerInv
<1> QED BY <1>1, <1>2 DEF Deliver

\* So does everything else.
LEMMA EnvironmentPhases ==
    ASSUME ListingAssumption, TypeInv, LedgerInv,
           \/ \E r \in Slot \cup Worker : Abort(r)
           \/ \E o \in DOMAIN orders : Pay(o)
           \/ Close \/ NextDay \/ MonthPasses
    PROVE  LedgerInv'
<1>0. listing \in ListingRow /\ raced' = raced
  BY DEF TypeInv, TypeOK, Abort, Pay, Close, NextDay, MonthPasses
<1>1. ASSUME NEW r \in Slot \cup Worker, Abort(r) PROVE LedgerInv'
  <2>1. listing' = listing /\ job' = [job EXCEPT ![r] = Idle] /\ r \in DOMAIN job
    BY <1>1 DEF Abort, Done, TypeInv
  <2>2. Phases'
    BY <1>0, <2>1 DEF LedgerInv, Phases, Fresh, Checkouts, Idle
  <2>3. Priced'
    BY <2>1 DEF LedgerInv, Priced, Checkouts, Idle
  <2> QED BY <2>2, <2>3 DEF LedgerInv
<1>2. CASE Close
  <2>1. listing' = [listing EXCEPT !.status = "CLOSED"] /\ job' = job
    BY <1>2 DEF Close
  <2>2. listing.status # "absent"
    BY <1>2 DEF Close
  <2>3. Phases'
    BY <1>0, <2>1, <2>2 DEF LedgerInv, Phases, Fresh, Checkouts, ListingRow
  <2>4. Priced'
    BY <1>0, <2>1 DEF LedgerInv, Priced, Checkouts, ListingRow
  <2> QED BY <2>3, <2>4 DEF LedgerInv
<1>3. ASSUME UNCHANGED <<listing, job, raced>> PROVE LedgerInv'
  BY <1>3 DEF LedgerInv, Phases, Fresh, Checkouts, Priced
<1> QED BY <1>1, <1>2, <1>3 DEF Pay, NextDay, MonthPasses

\* Every step of the listing keeps the phases, put together.
LEMMA PhaseStep ==
    ASSUME ListingAssumption, TypeInv, LedgerInv, OnceInv, [Next]_vars PROVE LedgerInv'
<1>1. CASE UNCHANGED vars
  BY <1>1 DEF vars, LedgerInv, Phases, Fresh, Priced
<1>2. CASE Next
  BY <1>2, RequestPhases, ServePhases, WebhookPhases, EnvironmentPhases DEF Next
<1> QED BY <1>1, <1>2

\* The phases hold before the listing is created.
LEMMA InitPhases == ASSUME Init PROVE LedgerInv
<1>1. \A r \in Slot \cup Worker : job[r] = Idle
  BY DEF Init
<1> QED BY <1>1 DEF Init, LedgerInv, Phases, Fresh, Priced, Checkouts, Idle, None

-----------------------------------------------------------------------------
(* Each payment once *)

\* Calls that do not change orders or what is pending, and do not come to know an
\* order, keep the invariant.
LEMMA OnceQuiet ==
    ASSUME OnceInv, UNCHANGED <<orders, raced>>,
           listing'.order = listing.order, listing'.pending = listing.pending,
           listing'.status = "absent" <=> listing.status = "absent",
           \A q \in Slot \cup Worker :
               job'[q] = job[q] \/ job'[q].step \notin Checkouts \cup {"apply"}
    PROVE  OnceInv'
<1> USE DEF OnceInv
<1>1. OrdersOnce' /\ Awaited'
  BY DEF OrdersOnce, Awaited
<1>2. NewOrders'
  BY DEF NewOrders, Checkouts
<1>3. FirstOrder'
  BY DEF FirstOrder, Checkouts
<1>4. Alone'
  BY DEF Alone, Applying, At, Checkouts
<1>5. Begun'
  BY DEF Begun, Fresh
<1> QED BY <1>1, <1>2, <1>3, <1>4, <1>5

\* Starting a call.
LEMMA RequestOnce ==
    ASSUME ListingAssumption, TypeInv, LedgerInv, OnceInv, NEW r \in Slot, Request(r)
    PROVE  OnceInv'
<1>0. listing \in ListingRow /\ r \in DOMAIN job /\ r \notin Worker /\ UNCHANGED <<orders, raced>>
  BY DEF TypeInv, TypeOK, ListingAssumption, Request, CreateSponsored, BeginCheckout, BeginClick
<1>1. CASE CreateSponsored(r)
  <2>1. /\ listing'.order = 0 /\ listing'.pending = "ACTIVATE" /\ listing'.status # "absent"
        /\ listing.status = "absent" /\ DOMAIN orders = {}
        /\ job' = [job EXCEPT ![r] =
              [step |-> "checkout", op |-> "ACTIVATE", budget |-> InitialBudget]]
        /\ \A s \in Slot \cup Worker : job[s].step = "idle"
    BY <1>0, <1>1 DEF CreateSponsored, Begin, LedgerInv, Phases, OnceInv, Begun, ListingRow, Idle
  <2>2. /\ job'[r].step = "checkout" /\ \A s \in (Slot \cup Worker) \ {r} : job'[s].step = "idle"
    BY <1>0, <2>1
  <2>3. OrdersOnce' /\ Awaited'
    BY <1>0, <2>1 DEF OnceInv, OrdersOnce, Awaited
  <2>4. NewOrders' /\ Alone' /\ Begun'
    BY <1>0, <2>1, <2>2 DEF NewOrders, Alone, OnceInv, Begun, Fresh
  <2>5. FirstOrder'
    BY <1>0, <2>1, <2>2 DEF FirstOrder, Checkouts
  <2> QED BY <2>3, <2>4, <2>5 DEF OnceInv
<1>2. ASSUME NEW op \in {"TOPUP", "RENEW"}, BeginCheckout(r, op) PROVE OnceInv'
  <2>1. /\ listing' = listing /\ listing.pending = None
        /\ job' = [job EXCEPT ![r] = [step |-> "checkout", op |-> op, budget |-> BudgetOf(op)]]
    BY <1>2 DEF BeginCheckout, Begin
  <2>2. /\ job'[r].step = "checkout" /\ job'[r].op # "ACTIVATE"
        /\ \A s \in (Slot \cup Worker) \ {r} : job'[s] = job[s]
    BY <1>0, <2>1
  <2>3. \A s \in Slot : ~(job[s].step \in Checkouts /\ job[s].op = "ACTIVATE")
    BY <2>1 DEF OnceInv, FirstOrder, None
  <2>4. FirstOrder'
    BY <2>2, <2>3 DEF FirstOrder
  <2>5. NewOrders' /\ OrdersOnce' /\ Awaited' /\ Begun'
    BY <1>0, <2>1, <2>2 DEF OnceInv, NewOrders, OrdersOnce, Awaited, Begun, Fresh
  <2>6. Alone'
    BY <1>0, <2>2 DEF OnceInv, Alone, Applying, At
  <2> QED BY <2>4, <2>5, <2>6 DEF OnceInv
<1>3. ASSUME NEW t \in Tenant, BeginClick(r, t) PROVE OnceInv'
  <2>1. /\ listing' = listing /\ job' = [job EXCEPT ![r] = [step |-> "insertClick", tenant |-> t]]
    BY <1>3 DEF BeginClick, Begin
  <2>2. \A q \in Slot \cup Worker :
            job'[q] = job[q] \/ job'[q].step \notin Checkouts \cup {"apply"}
    BY <1>0, <2>1 DEF Checkouts
  <2> QED BY <1>0, <2>1, <2>2, OnceQuiet
<1> QED BY <1>1, <1>2, <1>3 DEF Request

\* The provider's new order is known to the call that made it, and to no other.
LEMMA CheckoutOnce ==
    ASSUME ListingAssumption, TypeInv, LedgerInv, OnceInv, NEW r \in Slot, Checkout(r) PROVE OnceInv'
<1> DEFINE n == Len(orders) + 1
           new == [op |-> job[r].op, paid |-> FALSE, offered |-> FALSE, applied |-> 0]
           d == [step |-> "saveCheckout", op |-> job[r].op, budget |-> job[r].budget, order |-> n]
<1>1. /\ job[r].step = "checkout" /\ job[r].op \in Op /\ r \in DOMAIN job /\ r \notin Worker
      /\ orders \in Seq(OrderRow) /\ listing.order \in 0..Len(orders)
  BY DEF Checkout, At, TypeInv, TypeOK, ApiJob, Idle, ListingAssumption
<1>2. /\ orders' = Append(orders, new) /\ job' = [job EXCEPT ![r] = d] /\ listing' = listing
      /\ raced' = raced
  BY DEF Checkout
<1>3. /\ DOMAIN orders' = DOMAIN orders \cup {n} /\ orders'[n] = new /\ n \notin DOMAIN orders
      /\ \A o \in DOMAIN orders : orders'[o] = orders[o]
      /\ listing.order # 0 => listing.order \in DOMAIN orders
  <2> HIDE DEF new
  <2> QED BY <1>1, <1>2
<1>4. /\ job'[r] = d /\ \A q \in (Slot \cup Worker) \ {r} : job'[q] = job[q]
  BY <1>1, <1>2
<1>5. /\ d.step = "saveCheckout" /\ d.op = job[r].op /\ d.order = n
      /\ new.op = job[r].op /\ ~new.paid /\ ~new.offered /\ new.applied = 0
  OBVIOUS
<1> HIDE DEF d, new, n
<1>6. /\ \A q \in Slot : job[q].step = "saveCheckout" => job[q].order \in DOMAIN orders
      /\ \A w \in Worker : job[w].step = "apply" => job[w].snap.order \in DOMAIN orders
  BY DEF TypeInv, OrdersKept
<1>7. OrdersOnce'
  BY <1>2, <1>3, <1>5 DEF OnceInv, OrdersOnce
<1>8. NewOrders'
  BY <1>1, <1>3, <1>4, <1>5, <1>6 DEF OnceInv, NewOrders
<1>9. FirstOrder'
  BY <1>1, <1>2, <1>4, <1>5 DEF OnceInv, FirstOrder, Checkouts
<1>10. Awaited'
  BY <1>2, <1>3 DEF OnceInv, Awaited
<1>11. Alone'
  BY <1>1, <1>2, <1>3, <1>4, <1>6 DEF OnceInv, Alone, Applying, At
<1>12. Begun'
  <2>1. listing.status # "absent"
    BY <1>1 DEF LedgerInv, Phases, Idle
  <2>2. job[r].op = "ACTIVATE" => n = 1
    <3>1. job[r].op = "ACTIVATE" => DOMAIN orders = {}
      BY <1>1 DEF OnceInv, FirstOrder, Checkouts
    <3>2. DOMAIN orders = {} => Len(orders) = 0
      BY <1>1
    <3> QED BY <3>1, <3>2 DEF n
  <2> QED BY <1>2, <1>3, <1>5, <2>1, <2>2 DEF OnceInv, Begun, Fresh
<1> QED BY <1>7, <1>8, <1>9, <1>10, <1>11, <1>12 DEF OnceInv

\* The row takes over an order that is not paid, let alone applied.
LEMMA SaveCheckoutOnce ==
    ASSUME ListingAssumption, TypeInv, LedgerInv, OnceInv, NEW r \in Slot, SaveCheckout(r)
    PROVE  OnceInv'
<1> PICK o : o = job[r].order
  OBVIOUS
<1> PICK op : op = job[r].op
  OBVIOUS
<1>1. /\ job[r].step = "saveCheckout" /\ op \in Op /\ r \in DOMAIN job /\ r \notin Worker
      /\ orders \in Seq(OrderRow) /\ o \in DOMAIN orders /\ o # 0 /\ listing \in ListingRow
  BY DEF SaveCheckout, At, TypeInv, TypeOK, OrdersKept, ApiJob, Idle, ListingAssumption
<1>2. /\ orders' = [orders EXCEPT ![o].offered = TRUE] /\ job' = [job EXCEPT ![r] = Idle]
      /\ raced' = raced
  BY DEF SaveCheckout, Done
<1>3. /\ DOMAIN orders' = DOMAIN orders /\ orders'[o].offered = TRUE
      /\ \A p \in DOMAIN orders : /\ orders'[p].op = orders[p].op /\ orders'[p].paid = orders[p].paid
                                  /\ orders'[p].applied = orders[p].applied
                                  /\ p # o => orders'[p].offered = orders[p].offered
  <2>1. orders[o] \in OrderRow
    BY <1>1
  <2> QED BY <1>1, <1>2, <2>1 DEF OrderRow
<1>4. /\ job'[r].step = "idle" /\ \A q \in (Slot \cup Worker) \ {r} : job'[q] = job[q]
  BY <1>1, <1>2 DEF Idle
<1>5. /\ ~orders[o].offered /\ orders[o].op = op /\ orders[o].applied = 0
  <2>1. ~orders[o].offered /\ orders[o].op = op
    BY <1>1 DEF OnceInv, NewOrders
  <2> QED BY <1>1, <2>1 DEF OnceInv, OrdersOnce
<1>6. /\ listing'.order = o /\ listing'.status = listing.status
      /\ op # "ACTIVATE" => listing'.pending = op
      /\ op = "ACTIVATE" => listing'.pending = listing.pending
  BY <1>1 DEF SaveCheckout, ListingRow
<1>7. /\ \A q \in Slot : job[q].step = "saveCheckout" => job[q].order \in DOMAIN orders
      /\ \A w \in Worker : job[w].step = "apply" => job[w].snap.order \in DOMAIN orders
      /\ \A q \in Slot \ {r} : job[q].step = "saveCheckout" => job[q].order # o
  BY <1>1 DEF TypeInv, OrdersKept, OnceInv, NewOrders
<1>8. OrdersOnce'
  BY <1>2, <1>3, <1>5 DEF OnceInv, OrdersOnce
<1>9. NewOrders'
  BY <1>3, <1>4, <1>7 DEF OnceInv, NewOrders
<1>10. \A q \in Slot \ {r} : ~(job[q].step \in Checkouts /\ job[q].op = "ACTIVATE")
  BY <1>1 DEF OnceInv, FirstOrder, Checkouts
<1>11. FirstOrder'
  BY <1>4, <1>10 DEF FirstOrder, Checkouts
<1>12. op = "ACTIVATE" => listing.pending = "ACTIVATE"
  BY <1>1 DEF OnceInv, FirstOrder, Checkouts
<1>13. Awaited'
  BY <1>1, <1>3, <1>5, <1>6, <1>12 DEF Awaited
<1>14. Alone'
  BY <1>1, <1>2, <1>3, <1>4, <1>7 DEF OnceInv, Alone, Applying, At
<1>15. Begun'
  <2>1. listing.status # "absent"
    BY <1>1 DEF LedgerInv, Phases, Idle
  <2>2. Fresh => op = "ACTIVATE"
    BY <1>1 DEF LedgerInv, Phases, Checkouts
  <2>3. DOMAIN orders' = DOMAIN orders /\ \A p \in DOMAIN orders : orders'[p].op = orders[p].op
    BY <1>3
  <2> QED BY <1>6, <1>12, <2>1, <2>2, <2>3 DEF OnceInv, Begun, Fresh
<1> QED BY <1>8, <1>9, <1>11, <1>13, <1>14, <1>15 DEF OnceInv

\* Recording and billing a click.
LEMMA ClickOnce ==
    ASSUME TypeInv, OnceInv, NEW r \in Slot, InsertClick(r) \/ Bill(r) PROVE OnceInv'
<1>1. /\ r \in DOMAIN job /\ UNCHANGED <<orders, raced>> /\ listing \in ListingRow
  BY DEF TypeInv, TypeOK, InsertClick, Bill
<1>2. /\ listing'.order = listing.order /\ listing'.pending = listing.pending
      /\ listing'.status = listing.status
  BY <1>1 DEF InsertClick, Bill, ListingRow
<1>3. PICK c \in {Idle, [step |-> "bill"]} : job' = [job EXCEPT ![r] = c]
  BY DEF InsertClick, Bill, Done
<1>4. c.step \notin Checkouts \cup {"apply"}
  BY <1>3 DEF Idle, Checkouts
<1>5. \A q \in Slot \cup Worker :
          job'[q] = job[q] \/ job'[q].step \notin Checkouts \cup {"apply"}
  BY <1>1, <1>3, <1>4
<1> QED BY <1>1, <1>2, <1>5, OnceQuiet

\* A delivery that finds its order pending finds it not applied.
LEMMA DeliverOnce ==
    ASSUME ListingAssumption, TypeInv, OnceInv, NEW w \in Worker, NEW o \in DOMAIN orders,
           BeginWebhook(w, o)
    PROVE  OnceInv'
<1>1. /\ listing' = listing /\ orders' = orders /\ orders[o].paid /\ listing.order = o
      /\ listing.pending # None /\ o # 0
      /\ job' = [job EXCEPT ![w] = [step |-> "apply", snap |-> listing]]
      /\ w \in DOMAIN job /\ w \notin Slot /\ raced \subseteq raced'
      /\ o \notin raced' => \A v \in Worker : ~Applying(v, o)
  BY DEF BeginWebhook, Begin, TypeInv, TypeOK, ListingAssumption
<1>2. /\ job'[w].step = "apply" /\ job'[w].snap = listing
      /\ \A q \in (Slot \cup Worker) \ {w} : job'[q] = job[q]
  BY <1>1
<1>3. OrdersOnce' /\ NewOrders' /\ Awaited' /\ Begun'
  BY <1>1, <1>2 DEF OnceInv, OrdersOnce, NewOrders, Awaited, Begun, Fresh
<1>4. \A q \in Slot : ~(job[q].step \in Checkouts /\ job[q].op = "ACTIVATE")
  BY <1>1 DEF OnceInv, FirstOrder
<1>5. FirstOrder'
  BY <1>1, <1>2, <1>4 DEF FirstOrder
<1>6. orders[o].applied = 0 /\ orders[o].op = listing.pending
  BY <1>1 DEF OnceInv, Awaited
<1>7. Alone'
  <2> SUFFICES ASSUME NEW u \in Worker, job'[u].step = "apply", NEW p, p = job'[u].snap.order
               PROVE  /\ orders[p].paid /\ orders[p].op = job'[u].snap.pending
                      /\ p \notin raced' =>
                            /\ orders[p].applied = 0
                            /\ \A v \in Worker \ {u} :
                                  ~(job'[v].step = "apply" /\ job'[v].snap.order = p)
    BY <1>1 DEF Alone, Applying, At
  <2>1. CASE u = w
    <3>1. job'[u].snap.order = o /\ job'[u].snap.pending = listing.pending
      BY <1>1, <1>2, <2>1
    <3>2. o \notin raced' => \A v \in Worker \ {w} :
                                 ~(job'[v].step = "apply" /\ job'[v].snap.order = o)
      BY <1>1, <1>2 DEF Applying, At
    <3> QED BY <1>1, <1>6, <2>1, <3>1, <3>2
  <2>2. CASE u # w
    <3>1. job'[u] = job[u] /\ job[u].step = "apply" /\ p = job[u].snap.order
      BY <1>2, <2>2
    <3>2. p \notin raced' => p # o
      BY <1>1, <3>1 DEF Applying, At
    <3>3. /\ orders[p].paid /\ orders[p].op = job[u].snap.pending
          /\ p \notin raced' =>
                /\ orders[p].applied = 0
                /\ \A v \in Worker \ {u} : ~(job[v].step = "apply" /\ job[v].snap.order = p)
      BY <1>1, <3>1 DEF OnceInv, Alone, Applying, At
    <3>4. p \notin raced' => \A v \in Worker \ {u} :
                                 ~(job'[v].step = "apply" /\ job'[v].snap.order = p)
      BY <1>1, <1>2, <3>2, <3>3
    <3> QED BY <3>1, <3>3, <3>4
  <2> QED BY <2>1, <2>2
<1> QED BY <1>3, <1>5, <1>7 DEF OnceInv

\* The payment is applied to an order not applied before, unless the delivery was
\* overlapped, and nothing is pending afterwards.
LEMMA HandleOnce ==
    ASSUME ListingAssumption, TypeInv, OnceInv, NEW w \in Worker, HandleWebhook(w)
    PROVE  OnceInv'
<1> PICK o : o = job[w].snap.order
  OBVIOUS
<1>1. /\ job[w].step = "apply" /\ w \in DOMAIN job /\ w \notin Slot
      /\ orders \in Seq(OrderRow) /\ o \in DOMAIN orders /\ listing \in ListingRow
      /\ job' = [job EXCEPT ![w] = Idle] /\ raced' = raced
  BY DEF HandleWebhook, Acknowledge, ApplyPayment, At, Done, TypeInv, TypeOK, OrdersKept,
         ListingAssumption
<1>2. /\ orders[o].paid
      /\ o \notin raced => orders[o].applied = 0
      /\ o \notin raced => \A v \in Worker \ {w} : ~Applying(v, o)
      /\ \A r \in Slot : ~(job[r].step \in Checkouts /\ job[r].op = "ACTIVATE")
  BY <1>1 DEF OnceInv, Alone, FirstOrder
<1>3. \/ orders' = orders
      \/ orders' = [orders EXCEPT ![o].applied = orders[o].applied + 1]
  BY DEF HandleWebhook, Acknowledge, ApplyPayment
<1>4. /\ DOMAIN orders' = DOMAIN orders
      /\ \A p \in DOMAIN orders :
            /\ orders'[p].op = orders[p].op /\ orders'[p].paid = orders[p].paid
            /\ orders'[p].offered = orders[p].offered
            /\ p # o => orders'[p].applied = orders[p].applied
      /\ orders'[o].applied \in {orders[o].applied, orders[o].applied + 1}
  <2>1. CASE orders' = orders
    BY <2>1
  <2>2. CASE orders' = [orders EXCEPT ![o].applied = orders[o].applied + 1]
    <3>1. orders[o] \in OrderRow
      BY <1>1
    <3> QED BY <1>1, <2>2, <3>1 DEF OrderRow
  <2> QED BY <1>3, <2>1, <2>2
<1>5. job'[w].step = "idle" /\ \A q \in (Slot \cup Worker) \ {w} : job'[q] = job[q]
  BY <1>1 DEF Idle, TypeInv
<1>6. listing'.pending = None /\ (listing'.status = "absent" => listing.status = "absent")
  BY <1>1 DEF HandleWebhook, Acknowledge, ApplyPayment, ListingRow
<1>7. OrdersOnce'
  <2>1. o \notin raced => orders'[o].applied <= 1
    BY <1>2, <1>4
  <2> QED BY <1>1, <1>2, <1>4, <2>1 DEF OnceInv, OrdersOnce, Alone
<1>8. NewOrders'
  BY <1>1, <1>4, <1>5 DEF OnceInv, NewOrders, TypeInv, OrdersKept
<1>9. FirstOrder' /\ Awaited'
  BY <1>1, <1>2, <1>5, <1>6 DEF FirstOrder, Awaited
<1>10. Alone'
  <2> SUFFICES ASSUME NEW u \in Worker, job'[u].step = "apply", NEW p, p = job'[u].snap.order
               PROVE  /\ orders'[p].paid /\ orders'[p].op = job'[u].snap.pending
                      /\ p \notin raced =>
                            /\ orders'[p].applied = 0
                            /\ \A v \in Worker \ {u} :
                                  ~(job'[v].step = "apply" /\ job'[v].snap.order = p)
    BY <1>1 DEF Alone, Applying, At
  <2>1. u # w /\ job'[u] = job[u] /\ p = job[u].snap.order /\ job[u].step = "apply"
    BY <1>5
  <2>2. p \in DOMAIN orders
    BY <2>1 DEF TypeInv, OrdersKept
  <2>3. /\ orders[p].paid /\ orders[p].op = job[u].snap.pending
        /\ p \notin raced =>
              /\ orders[p].applied = 0
              /\ \A v \in Worker \ {u} : ~(job[v].step = "apply" /\ job[v].snap.order = p)
    BY <2>1 DEF OnceInv, Alone, Applying, At
  <2>4. p \notin raced => p # o
    BY <1>1, <2>1, <2>3
  <2>5. p \notin raced => orders'[p].applied = 0
    BY <1>4, <2>2, <2>3, <2>4
  <2>6. \A v \in Worker \ {u} : job'[v].step = "apply" => job'[v] = job[v]
    BY <1>5
  <2> QED BY <1>4, <2>1, <2>2, <2>3, <2>5, <2>6
<1>11. Begun'
  <2>1. 1 \in DOMAIN orders
    BY <1>1
  <2>2. listing.status # "absent"
    BY <2>1 DEF OnceInv, Begun
  <2> QED BY <1>4, <1>6, <2>1, <2>2 DEF OnceInv, Begun
<1> QED BY <1>7, <1>8, <1>9, <1>10, <1>11 DEF OnceInv

\* The poster pays an order once, and nobody else's.
LEMMA PayOnce ==
    ASSUME TypeInv, OnceInv, NEW o \in DOMAIN orders, Pay(o) PROVE OnceInv'
<1>1. /\ orders[o].offered /\ listing' = listing /\ job' = job /\ orders[o] \in OrderRow
      /\ raced' = raced
      /\ orders' = [orders EXCEPT ![o].paid = TRUE]
  BY DEF Pay, TypeInv, TypeOK
<1>2. /\ DOMAIN orders' = DOMAIN orders
      /\ \A p \in DOMAIN orders :
            /\ orders'[p].op = orders[p].op /\ orders'[p].offered = orders[p].offered
            /\ orders'[p].applied = orders[p].applied
            /\ orders[p].paid => orders'[p].paid
            /\ orders'[p].paid => orders[p].paid \/ p = o
  BY <1>1 DEF OrderRow
<1>3. OrdersOnce'
  BY <1>1, <1>2 DEF OnceInv, OrdersOnce
<1>4. /\ \A q \in Slot : job[q].step = "saveCheckout" => job[q].order \in DOMAIN orders
      /\ \A w \in Worker : job[w].step = "apply" => job[w].snap.order \in DOMAIN orders
      /\ listing.order # 0 => listing.order \in DOMAIN orders
  BY DEF TypeInv, TypeOK, OrdersKept
<1>5. NewOrders' /\ FirstOrder'
  BY <1>1, <1>2, <1>4 DEF OnceInv, NewOrders, FirstOrder
<1>6. Awaited' /\ Begun'
  BY <1>1, <1>2, <1>4 DEF OnceInv, Awaited, Begun, Fresh
<1>7. Alone'
  BY <1>1, <1>2, <1>4 DEF OnceInv, Alone, Applying, At
<1> QED BY <1>3, <1>5, <1>6, <1>7 DEF OnceInv

\* Closing, time and crashes.
LEMMA EnvironmentOnce ==
    ASSUME TypeInv, OnceInv,
           \/ \E r \in Slot \cup Worker : Abort(r)
           \/ Close \/ NextDay \/ MonthPasses \/ UNCHANGED vars
    PROVE  OnceInv'
<1>0. listing \in ListingRow /\ \A q \in Slot \cup Worker : q \in DOMAIN job
  BY DEF TypeInv, TypeOK
<1>1. /\ UNCHANGED <<orders, raced>> /\ listing'.order = listing.order
      /\ listing'.pending = listing.pending
      /\ listing'.status = "absent" <=> listing.status = "absent"
  BY <1>0 DEF Abort, Close, NextDay, MonthPasses, vars, ListingRow
<1>2. \A q \in Slot \cup Worker :
          job'[q] = job[q] \/ job'[q].step \notin Checkouts \cup {"apply"}
  BY <1>0 DEF Abort, Done, Idle, Checkouts, Close, NextDay, MonthPasses, vars
<1> QED BY <1>1, <1>2, OnceQuiet

\* Every step keeps the invariant.
LEMMA OnceStep ==
    ASSUME ListingAssumption, TypeInv, LedgerInv, OnceInv, [Next]_vars
    PROVE  OnceInv'
BY RequestOnce, CheckoutOnce, SaveCheckoutOnce, ClickOnce, DeliverOnce, HandleOnce, PayOnce,
   EnvironmentOnce DEF Next, Deliver

\* There are no orders at the start.
LEMMA InitOnce == ASSUME ListingAssumption, Init PROVE OnceInv
<1>1. /\ \A r \in Slot \cup Worker : job[r].step = "idle"
      /\ orders = <<>> /\ listing.pending = None /\ listing.status = "absent"
  BY DEF Init, Idle
<1> QED BY <1>1 DEF OnceInv, OrdersOnce, NewOrders, FirstOrder, Awaited, Alone, Begun, Fresh,
                     Checkouts, None

\* The types, the ledger's phases and the orders' invariant hold together.
LEMMA ListingInvariants == Spec => [](TypeInv /\ LedgerInv /\ OnceInv)
<1>1. Init => TypeInv /\ LedgerInv /\ OnceInv
  BY InitTyped, InitPhases, InitOnce, ListingAssumption
<1>2. TypeInv /\ LedgerInv /\ OnceInv /\ [Next]_vars => (TypeInv /\ LedgerInv /\ OnceInv)'
  BY StepTyped, PhaseStep, OnceStep, ListingAssumption
<1> QED BY <1>1, <1>2, PTL DEF Spec

\* The listing is a ledger: each step leaves the budget alone, credits one
\* advertised amount or bills one covered click, and the balance starts over only
\* if deliveries of the first payment overlapped.
THEOREM LedgerCorrect == Spec => ImplementsLedger
<1>1. Init => L!LedgerInit
  <2>1. Init => (1 \in raced) = FALSE
    BY DEF Init
  <2> QED BY <2>1 DEF Init, L!LedgerInit
<1>2. TypeInv /\ LedgerInv /\ [Next]_vars => [L!LedgerNext]_(L!ledgerVars)
  BY LedgerStep, ListingAssumption
<1> QED BY <1>1, <1>2, ListingInvariants, PTL DEF Spec, ImplementsLedger, L!LedgerSpec

\* One more click costs one more price.
LEMMA OneMoreClick == \A c, n \in Nat : c * (n + 1) = c * n + c /\ c * n \in Nat
OBVIOUS

\* The balance is kept by the ledger's own steps.
LEMMA LedgerBalances ==
    ASSUME ListingAssumption, TypeInv, TypeInv', BudgetLedger, [L!LedgerNext]_(L!ledgerVars)
    PROVE  BudgetLedger'
<1>1. /\ listing.budget \in Nat /\ listing.clickCount \in Nat /\ credited \in Nat /\ Cost \in Nat
      /\ listing'.budget \in Nat /\ Cost * listing.clickCount \in Nat
  <2>1. /\ listing.budget \in Nat /\ listing.clickCount \in Nat /\ credited \in Nat /\ Cost \in Nat
        /\ listing'.budget \in Nat
    BY DEF TypeInv, TypeOK, ListingRow, ListingAssumption
  <2> QED BY <2>1, OneMoreClick
<1>2. CASE L!BillClick
  <2>1. /\ listing'.budget = listing.budget - Cost /\ listing'.clickCount = listing.clickCount + 1
        /\ credited' = credited /\ Cost' = Cost /\ (1 \in raced') = (1 \in raced)
    BY <1>2 DEF L!BillClick
  <2>2. /\ Cost * (listing.clickCount + 1) = Cost * listing.clickCount + Cost
        /\ Cost * listing.clickCount \in Nat
    BY <1>1, OneMoreClick
  <2> QED BY <1>1, <2>1, <2>2 DEF BudgetLedger
<1>3. ASSUME NEW amount \in {BudgetOf(op) : op \in Op}, L!Credit(amount) PROVE BudgetLedger'
  <2>1. amount \in Nat
    BY <1>3, BudgetTyped
  <2>3. /\ listing'.budget = listing.budget + amount /\ listing'.clickCount = listing.clickCount
        /\ credited' = credited + amount /\ (1 \in raced') = (1 \in raced)
    BY <1>3 DEF L!Credit
  <2> QED BY <1>1, <2>1, <2>3 DEF BudgetLedger
<1>4. CASE UNCHANGED L!ledgerVars
  BY <1>4 DEF L!ledgerVars, BudgetLedger
<1>5. CASE L!NoticesOverlap
  <2>1. /\ listing'.budget = listing.budget /\ listing'.clickCount = listing.clickCount
        /\ credited' = credited /\ 1 \in raced'
    BY <1>5 DEF L!NoticesOverlap
  <2> QED BY <1>1, <2>1 DEF BudgetLedger
<1>6. CASE L!StartOver
  <2>1. /\ listing'.budget = InitialBudget /\ listing'.clickCount = listing.clickCount
        /\ credited' = credited + InitialBudget /\ 1 \in raced'
    BY <1>6 DEF L!StartOver
  <2>2. InitialBudget \in Nat
    BY DEF ListingAssumption
  <2> QED BY <1>1, <2>1, <2>2 DEF BudgetLedger
<1> QED BY <1>2, <1>3, <1>4, <1>5, <1>6 DEF L!LedgerNext

\* What is left plus what was billed is what was credited; less, never more, if
\* deliveries of the first payment overlapped.
THEOREM BudgetCorrect == Spec => []BudgetLedger
<1>1. Init => BudgetLedger
  BY ListingAssumption DEF Init, BudgetLedger, ListingAssumption
<1>2. TypeInv /\ LedgerInv /\ TypeInv' /\ BudgetLedger /\ [Next]_vars => BudgetLedger'
  BY LedgerStep, LedgerBalances, ListingAssumption
<1> QED BY <1>1, <1>2, ListingInvariants, PTL DEF Spec

\* Redelivered and replayed events apply a payment once, and only one that was made,
\* unless two deliveries of it overlapped.
THEOREM CreditedOnceCorrect == Spec => []CreditedOnce
<1>1. TypeInv /\ OnceInv => CreditedOnce
  <2> SUFFICES ASSUME TypeInv, OnceInv, NEW o \in DOMAIN orders
               PROVE  /\ orders[o].applied > 1 => o \in raced
                      /\ orders[o].applied > 0 => orders[o].paid
    BY DEF CreditedOnce
  <2>2. orders[o] \in OrderRow
    BY DEF TypeInv, TypeOK
  <2>1. orders[o].applied \in Nat
    BY <2>2 DEF OrderRow
  <2> QED BY <2>1 DEF OnceInv, OrdersOnce
<1> QED BY <1>1, ListingInvariants, PTL

-----------------------------------------------------------------------------
(* The bills *)

\* The clicks that are recorded but not billed yet.
Billing == {r \in Slot : At(r, "bill")}

\* Every bill, made or under way, has a click of its own.
BillInv ==
    /\ IsFiniteSet(clicks) /\ IsFiniteSet(Billing)
    /\ listing.clickCount + Cardinality(Billing) <= Cardinality(clicks)

\* A call that leaves the billing step gives up its claim.
LEMMA NoMoreBilling ==
    ASSUME ListingAssumption, TypeInv, TypeInv', BillInv, UNCHANGED clicks,
           Billing' \subseteq Billing, listing'.clickCount = listing.clickCount
    PROVE  BillInv'
<1>1. IsFiniteSet(Billing') /\ Cardinality(Billing') <= Cardinality(Billing)
  BY FS_Subset DEF BillInv
<1>2. /\ Cardinality(Billing) \in Nat /\ Cardinality(Billing') \in Nat /\ Cardinality(clicks) \in Nat
      /\ listing.clickCount \in Nat
  BY <1>1, FS_CardinalityType DEF BillInv, TypeInv, TypeOK, ListingRow
<1> QED BY <1>1, <1>2 DEF BillInv

\* Recording and billing a click keep the count.
LEMMA ClickBilled ==
    ASSUME ListingAssumption, TypeInv, TypeInv', BillInv, NEW r \in Slot,
           InsertClick(r) \/ Bill(r)
    PROVE  BillInv'
<1>0. /\ listing \in ListingRow /\ r \in DOMAIN job
      /\ Cardinality(Billing) \in Nat /\ Cardinality(clicks) \in Nat /\ listing.clickCount \in Nat
  BY FS_CardinalityType DEF BillInv, TypeInv, TypeOK, ListingRow
<1>1. CASE InsertClick(r)
  <2> DEFINE row == <<job[r].tenant, today>>
  <2>1. /\ clicks' = clicks \cup {row} /\ listing' = listing /\ job[r].step = "insertClick"
        /\ job' = [job EXCEPT ![r] = IF row \in clicks THEN Idle ELSE [step |-> "bill"]]
    BY <1>1 DEF InsertClick, At
  <2>2. CASE row \in clicks
    <3>1. clicks' = clicks /\ Billing' \subseteq Billing
      BY <1>0, <2>1, <2>2 DEF Billing, At, Idle
    <3> QED BY <2>1, <3>1, NoMoreBilling
  <2>3. CASE row \notin clicks
    <3>1. Billing' = Billing \cup {r} /\ r \notin Billing
      BY <1>0, <2>1, <2>3 DEF Billing, At
    <3>2. /\ IsFiniteSet(Billing') /\ Cardinality(Billing') = Cardinality(Billing) + 1
      BY <3>1, FS_AddElement DEF BillInv
    <3>3. IsFiniteSet(clicks') /\ Cardinality(clicks') = Cardinality(clicks) + 1
      BY <2>1, <2>3, FS_AddElement DEF BillInv
    <3> QED BY <1>0, <2>1, <3>2, <3>3 DEF BillInv
  <2> QED BY <2>2, <2>3
<1>2. CASE Bill(r)
  <2>1. clicks' = clicks /\ r \in Billing /\ job' = [job EXCEPT ![r] = Idle]
    BY <1>2 DEF Bill, Billing, At, Done
  <2>2. Billing' = Billing \ {r}
    BY <1>0, <2>1 DEF Billing, At, Idle
  <2>3. IsFiniteSet(Billing') /\ Cardinality(Billing') = Cardinality(Billing) - 1
    BY <2>1, <2>2, FS_RemoveElement DEF BillInv
  <2>4. listing'.clickCount \in {listing.clickCount, listing.clickCount + 1}
    BY <1>0, <1>2 DEF Bill, ListingRow
  <2> QED BY <1>0, <2>1, <2>3, <2>4 DEF BillInv
<1> QED BY <1>1, <1>2

\* No other step bills.
LEMMA NothingBilled ==
    ASSUME ListingAssumption, TypeInv,
           \/ \E r \in Slot : Request(r) \/ Checkout(r) \/ SaveCheckout(r)
           \/ \E w \in Worker : Deliver(w) \/ HandleWebhook(w)
           \/ \E r \in Slot \cup Worker : Abort(r)
           \/ \E o \in DOMAIN orders : Pay(o)
           \/ Close \/ NextDay \/ MonthPasses
           \/ UNCHANGED vars
    PROVE  /\ UNCHANGED clicks /\ Billing' \subseteq Billing
           /\ listing'.clickCount = listing.clickCount
<1>0. listing \in ListingRow /\ job = [r \in Slot \cup Worker |-> job[r]]
  BY DEF TypeInv, TypeOK
<1> DEFINE Quiet == /\ UNCHANGED clicks /\ Billing' \subseteq Billing
                    /\ listing'.clickCount = listing.clickCount
<1>1. ASSUME NEW r \in Slot \cup Worker, NEW c, c.step # "bill", job' = [job EXCEPT ![r] = c]
      PROVE  Billing' \subseteq Billing
  BY <1>0, <1>1 DEF Billing, At
<1>2. ASSUME NEW r \in Slot, Request(r) PROVE Quiet
  <2>1. UNCHANGED clicks /\ listing'.clickCount = listing.clickCount
    BY <1>0, <1>2 DEF Request, CreateSponsored, BeginCheckout, BeginClick, ListingRow
  <2>2. PICK c : c.step # "bill" /\ job' = [job EXCEPT ![r] = c]
    BY <1>2 DEF Request, CreateSponsored, BeginCheckout, BeginClick, Begin
  <2> QED BY <1>1, <2>1, <2>2
<1>3. ASSUME NEW r \in Slot, Checkout(r) \/ SaveCheckout(r) PROVE Quiet
  <2>1. UNCHANGED clicks /\ listing'.clickCount = listing.clickCount
    BY <1>0, <1>3 DEF Checkout, SaveCheckout, ListingRow
  <2>2. PICK c : c.step # "bill" /\ job' = [job EXCEPT ![r] = c]
    BY <1>3 DEF Checkout, SaveCheckout, Done, Idle
  <2> QED BY <1>1, <2>1, <2>2
<1>4. ASSUME NEW w \in Worker, Deliver(w) \/ HandleWebhook(w) PROVE Quiet
  <2>1. UNCHANGED clicks /\ listing'.clickCount = listing.clickCount
    BY <1>0, <1>4 DEF Deliver, BeginWebhook, HandleWebhook, Acknowledge, ApplyPayment, ListingRow
  <2>2. PICK c : c.step # "bill" /\ job' = [job EXCEPT ![w] = c]
    BY <1>4 DEF Deliver, BeginWebhook, HandleWebhook, Acknowledge, ApplyPayment, Begin, Done, Idle
  <2> QED BY <1>1, <2>1, <2>2
<1>5. ASSUME NEW r \in Slot \cup Worker, Abort(r) PROVE Quiet
  <2>1. /\ UNCHANGED clicks /\ listing'.clickCount = listing.clickCount
        /\ job' = [job EXCEPT ![r] = Idle] /\ Idle.step # "bill"
    BY <1>5 DEF Abort, Done, Idle
  <2> QED BY <1>1, <2>1
<1>6. ASSUME \/ \E o \in DOMAIN orders : Pay(o)
             \/ Close \/ NextDay \/ MonthPasses
             \/ UNCHANGED vars
      PROVE  Quiet
  BY <1>0, <1>6 DEF Pay, Close, NextDay, MonthPasses, vars, Billing, At, ListingRow
<1> QED BY <1>2, <1>3, <1>4, <1>5, <1>6

\* However clicks overlap, die and meet an empty budget, and whatever the
\* deliveries do, nobody is billed a click that no tenant made that day.
THEOREM BillsCorrect == Spec => []OneBillPerTenantDay
<1>1. Init => TypeInv /\ BillInv
  <2>1. ASSUME Init PROVE Billing = {}
    BY <2>1 DEF Init, Billing, At, Idle
  <2>2. ASSUME Init PROVE BillInv
    <3>1. Billing = {} /\ clicks = {} /\ listing.clickCount = 0
      BY <2>1, <2>2 DEF Init
    <3>2. IsFiniteSet({}) /\ Cardinality({}) = 0
      BY FS_EmptySet
    <3> HIDE DEF Billing
    <3> QED BY <3>1, <3>2 DEF BillInv
  <2> QED BY <2>2, InitTyped, ListingAssumption
<1>2. TypeInv /\ BillInv /\ [Next]_vars => TypeInv' /\ BillInv'
  <2> SUFFICES ASSUME TypeInv, BillInv, [Next]_vars PROVE TypeInv' /\ BillInv'
    OBVIOUS
  <2>1. ListingAssumption /\ TypeInv'
    BY StepTyped, ListingAssumption
  <2>2. ASSUME NEW r \in Slot, InsertClick(r) \/ Bill(r) PROVE BillInv'
    BY <2>1, <2>2, ClickBilled
  <2>3. CASE \/ \E r \in Slot : Request(r) \/ Checkout(r) \/ SaveCheckout(r)
             \/ \E w \in Worker : Deliver(w) \/ HandleWebhook(w)
             \/ \E r \in Slot \cup Worker : Abort(r)
             \/ \E o \in DOMAIN orders : Pay(o)
             \/ Close \/ NextDay \/ MonthPasses
             \/ UNCHANGED vars
    <3>1. /\ UNCHANGED clicks /\ Billing' \subseteq Billing
          /\ listing'.clickCount = listing.clickCount
      BY <2>1, <2>3, NothingBilled
    <3> QED BY <2>1, <3>1, NoMoreBilling
  <2> QED BY <2>1, <2>2, <2>3 DEF Next
<1>3. TypeInv /\ BillInv => OneBillPerTenantDay
  <2> SUFFICES ASSUME TypeInv, BillInv PROVE OneBillPerTenantDay
    OBVIOUS
  <2>1. /\ Cardinality(Billing) \in Nat /\ Cardinality(clicks) \in Nat
        /\ listing.clickCount \in Nat
    BY FS_CardinalityType DEF BillInv, TypeInv, TypeOK, ListingRow
  <2> QED BY <2>1 DEF BillInv, OneBillPerTenantDay
<1> QED BY <1>1, <1>2, <1>3, PTL DEF Spec

-----------------------------------------------------------------------------
(* The fees *)

\* What remains of a period that ends at end.
Left(end, now) == IF end > now THEN end - now ELSE 0

\* No two deliveries of one fee overlapped.
FeesAlone == \A o \in raced : orders[o].op = "TOPUP"

\* The orders that have paid for a month.
Fees == {o \in DOMAIN orders : orders[o].applied # 0 /\ orders[o].op # "TOPUP"}

\* Every month served or still to come was paid for by an order of its own; that
\* holds too of the period a delivery has read and is about to extend.
FeeInv ==
    FeesAlone =>
        /\ served + Left(listing.periodEnd, month) <= Cardinality(Fees)
        /\ \A w \in Worker : job[w].step = "apply" =>
              served + Left(job[w].snap.periodEnd, month) <= Cardinality(Fees)

\* The ends of periods are months.
LEMMA EndsTyped ==
    ASSUME TypeInv
    PROVE  /\ listing.periodEnd \in Nat /\ month \in Nat /\ served \in Nat
           /\ \A w \in Worker : job[w].step = "apply" => job[w].snap.periodEnd \in Nat
<1>1. listing \in ListingRow /\ month \in Nat /\ served \in Nat
  BY DEF TypeInv, TypeOK
<1>2. ASSUME NEW w \in Worker, job[w].step = "apply" PROVE job[w].snap \in ListingRow
  BY <1>2 DEF TypeInv, TypeOK, WebhookJob, Idle
<1> QED BY <1>1, <1>2 DEF ListingRow

\* A month that passes uses up one of those left, if there is one.
LEMMA LeftPasses ==
    ASSUME NEW end \in Nat, NEW now \in Nat
    PROVE  /\ Left(end, now) \in Nat /\ Left(end, now + 1) \in Nat
           /\ end > now => Left(end, now) = Left(end, now + 1) + 1
           /\ ~(end > now) => Left(end, now + 1) = 0
           /\ Left(end + 1, now) <= Left(end, now) + 1 /\ Left(end + 1, now) \in Nat
           /\ Left(now + 1, now) <= Left(end, now) + 1
<1>1. CASE end > now
  BY <1>1 DEF Left
<1>2. CASE ~(end > now)
  BY <1>2 DEF Left
<1> QED BY <1>1, <1>2

\* The orders that pay for months are finitely many, and paid.
LEMMA FeesPaid ==
    ASSUME TypeInv, OnceInv
    PROVE  /\ IsFiniteSet(Fees) /\ Cardinality(Fees) \in Nat
           /\ LET Paid == {o \in DOMAIN orders : orders[o].paid /\ orders[o].op # "TOPUP"}
              IN  Cardinality(Paid) \in Nat /\ Cardinality(Fees) <= Cardinality(Paid)
<1> DEFINE Paid == {o \in DOMAIN orders : orders[o].paid /\ orders[o].op # "TOPUP"}
<1>1. IsFiniteSet(DOMAIN orders)
  <2>1. DOMAIN orders = 1..Len(orders) /\ Len(orders) \in Nat
    BY DEF TypeInv, TypeOK
  <2> QED BY <2>1, FS_Interval
<1>2. Fees \subseteq Paid /\ Paid \subseteq DOMAIN orders
  BY DEF Fees, OnceInv, OrdersOnce
<1> HIDE DEF Paid
<1>3. IsFiniteSet(Paid) /\ IsFiniteSet(Fees) /\ Cardinality(Fees) <= Cardinality(Paid)
  BY <1>1, <1>2, FS_Subset
<1>4. Cardinality(Paid) \in Nat /\ Cardinality(Fees) \in Nat
  BY <1>3, FS_CardinalityType
<1> QED BY <1>3, <1>4 DEF Paid

\* Nothing is served or applied; a delivery that begins reads the period as it is.
LEMMA FeesQuiet ==
    ASSUME TypeInv, FeeInv, UNCHANGED <<served, month>>,
           listing'.periodEnd = listing.periodEnd, raced \subseteq raced',
           DOMAIN orders \subseteq DOMAIN orders',
           \A o \in DOMAIN orders : /\ orders'[o].applied = orders[o].applied
                                    /\ orders'[o].op = orders[o].op,
           \A o \in DOMAIN orders' \ DOMAIN orders : orders'[o].applied = 0,
           \A w \in Worker : job'[w].step = "apply" =>
               \/ job'[w].snap = listing
               \/ job[w].step = "apply" /\ job'[w].snap = job[w].snap
    PROVE  FeeInv'
<1>1. Fees' = Fees
  BY DEF Fees
<1>2. FeesAlone' => FeesAlone
  BY DEF FeesAlone, TypeInv, TypeOK
<1>3. ASSUME FeesAlone,
             NEW w \in Worker, job'[w].step = "apply"
      PROVE  served + Left(job'[w].snap.periodEnd, month) <= Cardinality(Fees)
  BY <1>3 DEF FeeInv
<1> QED BY <1>1, <1>2, <1>3 DEF FeeInv

\* A month is served from those paid for.
LEMMA MonthFees == ASSUME TypeInv, OnceInv, FeeInv, MonthPasses PROVE FeeInv'
<1>1. /\ UNCHANGED <<listing, orders, job, raced>> /\ month' = month + 1
      /\ \/ served' = served
         \/ served' = served + 1 /\ listing.periodEnd > month
  BY EndsTyped DEF MonthPasses, Billable
<1>2. Fees' = Fees /\ Cardinality(Fees) \in Nat /\ (FeesAlone' <=> FeesAlone)
  BY <1>1, FeesPaid DEF Fees, FeesAlone
<1>3. ASSUME FeesAlone, NEW end \in Nat, served + Left(end, month) <= Cardinality(Fees)
      PROVE  served' + Left(end, month') <= Cardinality(Fees)
  <2>1. served + Left(listing.periodEnd, month) <= Cardinality(Fees)
    BY <1>3 DEF FeeInv
  <2>2. /\ listing.periodEnd \in Nat /\ month \in Nat /\ served \in Nat
        /\ Left(listing.periodEnd, month) \in Nat /\ Left(end, month) \in Nat
        /\ Left(end, month + 1) \in Nat /\ Left(listing.periodEnd, month + 1) \in Nat
        /\ listing.periodEnd > month
              => Left(listing.periodEnd, month) = Left(listing.periodEnd, month + 1) + 1
        /\ end > month => Left(end, month) = Left(end, month + 1) + 1
        /\ ~(end > month) => Left(end, month + 1) = 0
    BY EndsTyped, LeftPasses
  <2>3. CASE end > month
    BY <1>1, <1>2, <1>3, <2>2, <2>3
  <2>4. CASE ~(end > month)
    BY <1>1, <1>2, <1>3, <2>1, <2>2, <2>4
  <2> QED BY <2>3, <2>4
<1> QED BY <1>1, <1>2, <1>3, EndsTyped DEF FeeInv

\* A payment adds at most the month it was made for, to a period no longer than the
\* one the fees applied so far cover.
LEMMA ApplyFees ==
    ASSUME ListingAssumption, TypeInv, LedgerInv, OnceInv, FeeInv, NEW w \in Worker,
           ApplyPayment(w)
    PROVE  FeeInv'
<1> PICK snap : snap = job[w].snap
  OBVIOUS
<1> PICK o : o = snap.order
  OBVIOUS
<1>1. /\ job[w].step = "apply" /\ o \in DOMAIN orders /\ snap.pending \in Op
      /\ orders \in Seq(OrderRow) /\ listing \in ListingRow
      /\ w \in DOMAIN job /\ job' = [job EXCEPT ![w] = Idle]
  BY DEF ApplyPayment, At, Done, TypeInv, TypeOK, OrdersKept, LedgerInv, Priced
<1>2. /\ orders[o].op = snap.pending
      /\ o \notin raced => orders[o].applied = 0
  BY <1>1 DEF OnceInv, Alone
<1>3. /\ orders' = [orders EXCEPT ![o].applied = orders[o].applied + 1]
      /\ UNCHANGED <<month, served, raced>>
  BY DEF ApplyPayment
<1>4. /\ DOMAIN orders' = DOMAIN orders /\ orders'[o].applied = orders[o].applied + 1
      /\ orders[o].applied \in Nat
      /\ \A p \in DOMAIN orders : orders'[p].op = orders[p].op
      /\ \A p \in DOMAIN orders \ {o} : orders'[p] = orders[p]
  <2>1. orders[o] \in OrderRow
    BY <1>1
  <2> QED BY <1>1, <1>3, <2>1 DEF OrderRow
<1>5. /\ IsFiniteSet(Fees) /\ Cardinality(Fees) \in Nat
      /\ listing.periodEnd \in Nat /\ month \in Nat /\ served \in Nat
      /\ snap.periodEnd \in Nat
      /\ \A v \in Worker : job[v].step = "apply" => job[v].snap.periodEnd \in Nat
  BY <1>1, FeesPaid, EndsTyped
<1>6. FeesAlone' => FeesAlone
  BY <1>3, <1>4 DEF FeesAlone, TypeInv, TypeOK
<1>7. \A v \in Worker : job'[v].step = "apply" => job[v].step = "apply" /\ job'[v] = job[v]
  BY <1>1 DEF Idle, TypeInv
<1> SUFFICES ASSUME FeesAlone, FeesAlone' PROVE FeeInv'
  BY <1>6 DEF FeeInv
<1>8. /\ served + Left(listing.periodEnd, month) <= Cardinality(Fees)
      /\ served + Left(snap.periodEnd, month) <= Cardinality(Fees)
      /\ \A v \in Worker : job[v].step = "apply" =>
            served + Left(job[v].snap.periodEnd, month) <= Cardinality(Fees)
  BY <1>1 DEF FeeInv
<1>9. CASE snap.pending = "TOPUP"
  <2>1. Fees' = Fees
    BY <1>2, <1>4, <1>9 DEF Fees
  <2>2. listing'.periodEnd = listing.periodEnd
    BY <1>1, <1>9 DEF ApplyPayment, ListingRow
  <2> QED BY <1>3, <1>7, <1>8, <2>1, <2>2 DEF FeeInv
<1>10. CASE snap.pending # "TOPUP"
  <2>1. orders[o].applied = 0
    BY <1>2, <1>10 DEF FeesAlone
  <2>2. Fees' = Fees \cup {o} /\ o \notin Fees
    BY <1>1, <1>2, <1>4, <1>10, <2>1 DEF Fees
  <2>3. Cardinality(Fees') = Cardinality(Fees) + 1
    BY <1>5, <2>2, FS_AddElement
  <2>4. listing'.periodEnd \in {snap.periodEnd + 1, month + 1}
    BY <1>1, <1>10 DEF ApplyPayment, ListingRow
  <2>5. /\ Left(snap.periodEnd, month) \in Nat
        /\ Left(listing'.periodEnd, month) <= Left(snap.periodEnd, month) + 1
        /\ Left(listing'.periodEnd, month) \in Nat
    <3>1. /\ Left(snap.periodEnd + 1, month) <= Left(snap.periodEnd, month) + 1
          /\ Left(month + 1, month) <= Left(snap.periodEnd, month) + 1
          /\ Left(snap.periodEnd, month) \in Nat /\ Left(snap.periodEnd + 1, month) \in Nat
      BY <1>5, LeftPasses
    <3>2. Left(month + 1, month) \in Nat
      BY <1>5, LeftPasses
    <3> QED BY <2>4, <3>1, <3>2
  <2>6. served + Left(listing'.periodEnd, month) <= Cardinality(Fees) + 1
    BY <1>5, <1>8, <2>5
  <2>7. ASSUME NEW v \in Worker, job[v].step = "apply"
        PROVE  served + Left(job[v].snap.periodEnd, month) <= Cardinality(Fees) + 1
    <3>1. Left(job[v].snap.periodEnd, month) \in Nat
      BY <1>5, <2>7, LeftPasses
    <3>2. served + Left(job[v].snap.periodEnd, month) <= Cardinality(Fees)
      BY <1>8, <2>7
    <3> QED BY <1>5, <3>1, <3>2
  <2> QED BY <1>3, <1>7, <2>3, <2>6, <2>7 DEF FeeInv
<1> QED BY <1>9, <1>10

\* Nothing else adds a month or applies an order.
LEMMA OtherFees ==
    ASSUME ListingAssumption, TypeInv, FeeInv,
           \/ \E r \in Slot :
                 Request(r) \/ Checkout(r) \/ SaveCheckout(r) \/ InsertClick(r) \/ Bill(r)
           \/ \E w \in Worker : Deliver(w) \/ Acknowledge(w)
           \/ \E r \in Slot \cup Worker : Abort(r)
           \/ \E o \in DOMAIN orders : Pay(o)
           \/ Close \/ NextDay \/ UNCHANGED vars
    PROVE  FeeInv'
<1>0. listing \in ListingRow /\ orders \in Seq(OrderRow) /\ job = [r \in Slot \cup Worker |-> job[r]]
  BY DEF TypeInv, TypeOK
<1> DEFINE Same == /\ DOMAIN orders \subseteq DOMAIN orders'
                   /\ \A o \in DOMAIN orders : /\ orders'[o].applied = orders[o].applied
                                               /\ orders'[o].op = orders[o].op
                   /\ \A o \in DOMAIN orders' \ DOMAIN orders : orders'[o].applied = 0
           Still == /\ UNCHANGED <<served, month>> /\ listing'.periodEnd = listing.periodEnd
                    /\ raced \subseteq raced'
           Read == \A w \in Worker : job'[w].step = "apply" =>
                      \/ job'[w].snap = listing
                      \/ job[w].step = "apply" /\ job'[w].snap = job[w].snap
<1>1. ASSUME NEW r \in Slot \cup Worker, NEW c, job' = [job EXCEPT ![r] = c],
             c.step # "apply" \/ r \in Slot
      PROVE  Read
  BY <1>0, <1>1 DEF ListingAssumption
<1>2. ASSUME NEW r \in Slot, Request(r) PROVE Same /\ Still /\ Read
  <2>1. Same /\ Still
    BY <1>0, <1>2 DEF Request, CreateSponsored, BeginCheckout, BeginClick, ListingRow
  <2>2. PICK c : job' = [job EXCEPT ![r] = c]
    BY <1>2 DEF Request, CreateSponsored, BeginCheckout, BeginClick, Begin
  <2>3. Read
    BY <1>1, <2>2
  <2> QED BY <2>1, <2>3
<1>3. ASSUME NEW r \in Slot, Checkout(r) PROVE Same /\ Still /\ Read
  <2> DEFINE new == [op |-> job[r].op, paid |-> FALSE, offered |-> FALSE, applied |-> 0]
  <2>1. orders' = Append(orders, new) /\ new.applied = 0
    BY <1>3 DEF Checkout
  <2> HIDE DEF new
  <2>2. Same
    BY <1>0, <2>1
  <2>3. PICK c : job' = [job EXCEPT ![r] = c]
    BY <1>3 DEF Checkout
  <2>4. Read
    BY <1>1, <2>3
  <2> QED BY <1>3, <2>2, <2>4 DEF Checkout
<1>5. ASSUME NEW r \in Slot, SaveCheckout(r) PROVE Same /\ Still /\ Read
  <2>1. /\ job[r].order \in DOMAIN orders
        /\ orders' = [orders EXCEPT ![job[r].order].offered = TRUE]
        /\ job' = [job EXCEPT ![r] = Idle]
    BY <1>5 DEF SaveCheckout, At, Done, TypeInv, OrdersKept
  <2>2. orders[job[r].order] \in OrderRow
    BY <1>0, <2>1
  <2>3. Same
    BY <1>0, <2>1, <2>2 DEF OrderRow
  <2>4. Still
    BY <1>0, <1>5 DEF SaveCheckout, ListingRow
  <2>5. Read
    BY <1>1, <2>1
  <2> QED BY <2>3, <2>4, <2>5
<1>6. ASSUME NEW o \in DOMAIN orders, Pay(o) PROVE Same /\ Still /\ Read
  <2>1. orders' = [orders EXCEPT ![o].paid = TRUE] /\ orders[o] \in OrderRow
    BY <1>0, <1>6 DEF Pay
  <2>2. Same
    BY <1>0, <2>1 DEF OrderRow
  <2> QED BY <1>6, <2>2 DEF Pay
<1>7. ASSUME NEW r \in Slot, InsertClick(r) \/ Bill(r) PROVE Same /\ Still /\ Read
  <2>1. Same /\ Still
    BY <1>0, <1>7 DEF InsertClick, Bill, ListingRow
  <2>2. PICK c : job' = [job EXCEPT ![r] = c]
    BY <1>7 DEF InsertClick, Bill, Done
  <2>3. Read
    BY <1>1, <2>2
  <2> QED BY <2>1, <2>3
<1>8. ASSUME NEW w \in Worker, Deliver(w) PROVE Same /\ Still /\ Read
  <2>1. /\ Same /\ Still
        /\ job' = [job EXCEPT ![w] = [step |-> "apply", snap |-> listing]]
    BY <1>0, <1>8 DEF Deliver, BeginWebhook, Begin, ListingRow
  <2>2. Read
    BY <1>0, <2>1
  <2> QED BY <2>1, <2>2
<1>9. ASSUME NEW w \in Worker, Acknowledge(w) PROVE Same /\ Still /\ Read
  <2>1. Same /\ Still /\ job' = [job EXCEPT ![w] = Idle] /\ Idle.step # "apply"
    BY <1>0, <1>9 DEF Acknowledge, Done, ListingRow, Idle
  <2> QED BY <1>1, <2>1
<1>10. ASSUME NEW r \in Slot \cup Worker, Abort(r) PROVE Same /\ Still /\ Read
  <2>1. Same /\ Still /\ job' = [job EXCEPT ![r] = Idle] /\ Idle.step # "apply"
    BY <1>0, <1>10 DEF Abort, Done, ListingRow, Idle
  <2> QED BY <1>1, <2>1
<1>11. ASSUME Close \/ NextDay \/ UNCHANGED vars PROVE Same /\ Still /\ Read
  <2>1. Same /\ Still /\ job' = job
    BY <1>0, <1>11 DEF Close, NextDay, vars, ListingRow
  <2> QED BY <2>1
<1>12. Same /\ Still /\ Read
  <2> HIDE DEF Same, Still, Read
  <2> QED BY <1>2, <1>3, <1>5, <1>6, <1>7, <1>8, <1>9, <1>10, <1>11
<1> QED BY <1>12, FeesQuiet

\* However renewals, crashes, closing and late or repeated deliveries overlap, the
\* listing stands for no more months than its poster paid the fee for; only two
\* deliveries of one fee at the same time may give a month away.
THEOREM MonthsPaidCorrect == Spec => []ServedMonthsPaid
<1>1. Init => FeeInv
  <2> SUFFICES ASSUME Init PROVE FeeInv
    OBVIOUS
  <2>1. /\ Fees = {} /\ served = 0 /\ Left(listing.periodEnd, month) = 0
        /\ \A w \in Worker : job[w].step = "idle"
    BY DEF Init, Fees, Left, Idle
  <2> QED BY <2>1, FS_EmptySet DEF FeeInv
<1>2. TypeInv /\ LedgerInv /\ OnceInv /\ FeeInv /\ [Next]_vars => FeeInv'
  BY MonthFees, ApplyFees, OtherFees, ListingAssumption DEF Next, HandleWebhook
<1>3. TypeInv /\ OnceInv /\ FeeInv => ServedMonthsPaid
  <2> SUFFICES ASSUME TypeInv, OnceInv, FeeInv, FeesAlone PROVE ServedMonthsPaid
    BY DEF ServedMonthsPaid, FeesAlone
  <2> DEFINE Paid == {o \in DOMAIN orders : orders[o].paid /\ orders[o].op # "TOPUP"}
  <2>1. /\ Cardinality(Paid) \in Nat /\ Cardinality(Fees) \in Nat
        /\ Cardinality(Fees) <= Cardinality(Paid)
    BY FeesPaid
  <2>2. Left(listing.periodEnd, month) \in Nat /\ served \in Nat
    BY EndsTyped, LeftPasses
  <2>3. served + Left(listing.periodEnd, month) <= Cardinality(Fees)
    BY DEF FeeInv
  <2> HIDE DEF Paid
  <2>4. served <= Cardinality(Paid)
    BY <2>1, <2>2, <2>3
  <2> QED BY <2>4 DEF Paid, ServedMonthsPaid
<1> QED BY <1>1, <1>2, <1>3, ListingInvariants, PTL DEF Spec

-----------------------------------------------------------------------------
(* One order at a time *)

\* A checkout the poster may still pay, and was offered when nobody else was about
\* to write the row, is the row's: no other checkout is under way, and whatever is
\* delivered is its own payment.
Held(o) ==
    /\ listing.order = o
    /\ listing.status # "CLOSED" => listing.pending = orders[o].op
    /\ \A r \in Slot : job[r].step \notin Checkouts
    /\ \A w \in Worker : job[w].step = "apply" =>
          /\ job[w].snap.order = o
          /\ job[w].snap.status = "CLOSED" => listing.status = "CLOSED"

AwaitInv == \A o \in DOMAIN orders : Unanswered(o) /\ o \notin overtaken => Held(o)

\* Calls that leave the orders as they are, do not touch what the row awaits and do
\* not start a checkout.
LEMMA AwaitQuiet ==
    ASSUME TypeInv, AwaitInv, UNCHANGED <<listing, overtaken>>,
           DOMAIN orders' = DOMAIN orders,
           \A o \in DOMAIN orders : /\ orders'[o].applied = orders[o].applied
                                    /\ orders'[o].offered = orders[o].offered
                                    /\ orders'[o].op = orders[o].op,
           \A r \in Slot : job'[r] = job[r] \/ job'[r].step \notin Checkouts,
           \A w \in Worker : \/ job'[w] = job[w] \/ job'[w].step # "apply"
                             \/ job'[w].snap = listing
    PROVE  AwaitInv'
<1> SUFFICES ASSUME NEW o \in DOMAIN orders, Unanswered(o)', o \notin overtaken PROVE Held(o)'
  BY DEF AwaitInv
<1>1. Unanswered(o)
  BY DEF Unanswered
<1>2. Held(o)
  BY <1>1 DEF AwaitInv
<1> QED BY <1>2 DEF Held

\* A checkout is started only when the row awaits nothing.
LEMMA RequestAwait ==
    ASSUME ListingAssumption, TypeInv, LedgerInv, OnceInv, AwaitInv, NEW r \in Slot, Request(r)
    PROVE  AwaitInv'
<1>0. /\ listing \in ListingRow /\ r \in DOMAIN job /\ r \notin Worker
      /\ UNCHANGED <<orders, overtaken>>
  BY DEF TypeInv, TypeOK, ListingAssumption, Request, CreateSponsored, BeginCheckout, BeginClick
<1>1. CASE CreateSponsored(r)
  <2>1. DOMAIN orders = {}
    BY <1>1 DEF CreateSponsored, OnceInv, Begun
  <2> QED BY <1>0, <2>1 DEF AwaitInv
<1>2. ASSUME NEW op \in {"TOPUP", "RENEW"}, BeginCheckout(r, op) PROVE AwaitInv'
  <2>1. /\ listing.pending = None /\ listing.status # "CLOSED"
    BY <1>2 DEF BeginCheckout
  <2>2. \A o \in DOMAIN orders : orders[o].op # None
    <3>1. \A o \in DOMAIN orders : orders[o] \in OrderRow
      BY DEF TypeInv, TypeOK
    <3> QED BY <3>1 DEF OrderRow, Op, None
  <2>3. \A o \in DOMAIN orders : ~Held(o)
    BY <2>1, <2>2 DEF Held
  <2>4. \A o \in DOMAIN orders : Unanswered(o) => o \in overtaken
    BY <2>3 DEF AwaitInv
  <2> QED BY <1>0, <2>4 DEF AwaitInv, Unanswered
<1>3. ASSUME NEW t \in Tenant, BeginClick(r, t) PROVE AwaitInv'
  <2>1. /\ listing' = listing /\ job' = [job EXCEPT ![r] = [step |-> "insertClick", tenant |-> t]]
    BY <1>3 DEF BeginClick, Begin
  <2>2. /\ \A q \in Slot : job'[q] = job[q] \/ job'[q].step \notin Checkouts
        /\ \A w \in Worker : job'[w] = job[w]
    BY <1>0, <2>1 DEF Checkouts
  <2> QED BY <1>0, <2>1, <2>2, AwaitQuiet
<1> QED BY <1>1, <1>2, <1>3 DEF Request

\* The new order is not offered yet; one that is the row's leaves no room for it.
LEMMA CheckoutAwait ==
    ASSUME ListingAssumption, TypeInv, AwaitInv, NEW r \in Slot, Checkout(r) PROVE AwaitInv'
<1> DEFINE new == [op |-> job[r].op, paid |-> FALSE, offered |-> FALSE, applied |-> 0]
<1>1. /\ job[r].step = "checkout" /\ orders \in Seq(OrderRow) /\ overtaken' = overtaken
      /\ orders' = Append(orders, new) /\ ~new.offered
  BY DEF Checkout, At, TypeInv, TypeOK
<1> HIDE DEF new
<1>2. \A o \in DOMAIN orders' : IF o \in DOMAIN orders THEN orders'[o] = orders[o]
                                ELSE orders'[o] = new
  BY <1>1
<1>3. \A o \in DOMAIN orders : ~Held(o)
  BY <1>1 DEF Held, Checkouts
<1>4. \A o \in DOMAIN orders' : Unanswered(o)' => o \in overtaken'
  <2> SUFFICES ASSUME NEW o \in DOMAIN orders', orders'[o].offered, orders'[o].applied = 0
               PROVE  o \in overtaken
    BY <1>1 DEF Unanswered
  <2>1. o \in DOMAIN orders /\ orders'[o] = orders[o]
    BY <1>1, <1>2
  <2> QED BY <1>3, <2>1 DEF AwaitInv, Unanswered
<1> QED BY <1>4 DEF AwaitInv

\* Unless another call was about to write the row, the checkout offered is the
\* row's and nothing else is under way.
LEMMA SaveCheckoutAwait ==
    ASSUME ListingAssumption, TypeInv, OnceInv, AwaitInv, NEW r \in Slot, SaveCheckout(r)
    PROVE  AwaitInv'
<1> PICK o : o = job[r].order
  OBVIOUS
<1> PICK op : op = job[r].op
  OBVIOUS
<1>1. /\ job[r].step = "saveCheckout" /\ op \in Op /\ r \in DOMAIN job /\ r \notin Worker
      /\ orders \in Seq(OrderRow) /\ o \in DOMAIN orders /\ listing \in ListingRow
  BY DEF SaveCheckout, At, TypeInv, TypeOK, OrdersKept, ApiJob, Idle, ListingAssumption
<1>2. /\ orders' = [orders EXCEPT ![o].offered = TRUE] /\ job' = [job EXCEPT ![r] = Idle]
      /\ overtaken \subseteq overtaken'
      /\ o \notin overtaken' => \A s \in (Slot \cup Worker) \ {r} : ~AboutToWrite(s)
  BY DEF SaveCheckout, Done
<1>3. /\ DOMAIN orders' = DOMAIN orders
      /\ \A p \in DOMAIN orders : /\ orders'[p].op = orders[p].op
                                  /\ orders'[p].applied = orders[p].applied
                                  /\ p # o => orders'[p].offered = orders[p].offered
  <2>1. orders[o] \in OrderRow
    BY <1>1
  <2> QED BY <1>1, <1>2, <2>1 DEF OrderRow
<1>4. \A p \in DOMAIN orders : ~Held(p)
  BY <1>1 DEF Held, Checkouts
<1>5. ASSUME NEW p \in DOMAIN orders, p # o, Unanswered(p)' PROVE p \in overtaken'
  <2>1. Unanswered(p)
    BY <1>3, <1>5 DEF Unanswered
  <2> QED BY <1>2, <1>4, <2>1 DEF AwaitInv
<1>6. ASSUME o \notin overtaken' PROVE Held(o)'
  <2>1. /\ job'[r].step = "idle" /\ \A s \in (Slot \cup Worker) \ {r} : job'[s] = job[s]
    BY <1>1, <1>2 DEF Idle, TypeInv
  <2>2. \A s \in (Slot \cup Worker) \ {r} : job[s].step \notin Checkouts \cup {"apply"}
    BY <1>2, <1>6 DEF AboutToWrite, Checkouts
  <2>3. /\ listing'.order = o
        /\ op # "ACTIVATE" => listing'.pending = op
        /\ op = "ACTIVATE" => listing'.pending = listing.pending
    BY <1>1 DEF SaveCheckout, ListingRow
  <2>4. op = "ACTIVATE" => listing.pending = "ACTIVATE"
    BY <1>1 DEF OnceInv, FirstOrder, Checkouts
  <2>5. orders'[o].op = op
    BY <1>1, <1>3 DEF OnceInv, NewOrders
  <2>6. /\ \A s \in Slot : job'[s].step \notin Checkouts
        /\ \A w \in Worker : job'[w].step # "apply"
    BY <1>1, <2>1, <2>2 DEF Checkouts
  <2> QED BY <2>3, <2>4, <2>5, <2>6 DEF Held
<1> QED BY <1>3, <1>5, <1>6 DEF AwaitInv

\* A delivery answers an order that is the row's, or finds the listing closed.
LEMMA HandleAwait ==
    ASSUME ListingAssumption, TypeInv, OnceInv, AwaitInv, NEW w \in Worker, HandleWebhook(w)
    PROVE  AwaitInv'
<1> PICK o : o = job[w].snap.order
  OBVIOUS
<1>1. /\ job[w].step = "apply" /\ w \in DOMAIN job /\ w \notin Slot
      /\ orders \in Seq(OrderRow) /\ o \in DOMAIN orders /\ listing \in ListingRow
      /\ job' = [job EXCEPT ![w] = Idle] /\ overtaken' = overtaken
  BY DEF HandleWebhook, Acknowledge, ApplyPayment, At, Done, TypeInv, TypeOK, OrdersKept,
         ListingAssumption
<1>2. /\ job'[w].step = "idle" /\ \A s \in (Slot \cup Worker) \ {w} : job'[s] = job[s]
  BY <1>1 DEF Idle, TypeInv
<1>3. \A p \in DOMAIN orders : Held(p) => p = o
  BY <1>1 DEF Held
<1>4. CASE Acknowledge(w)
  <2>1. /\ orders' = orders /\ listing'.order = listing.order /\ listing'.status = listing.status
    BY <1>1, <1>4 DEF Acknowledge, ListingRow
  <2> SUFFICES ASSUME NEW p \in DOMAIN orders, Unanswered(p), p \notin overtaken PROVE Held(p)'
    BY <1>1, <2>1 DEF AwaitInv, Unanswered
  <2>2. Held(p)
    BY DEF AwaitInv
  <2>3. listing.status = "CLOSED"
    BY <1>1, <1>4, <2>2 DEF Acknowledge, Held
  <2> QED BY <1>1, <1>2, <2>1, <2>2, <2>3 DEF Held
<1>5. CASE ApplyPayment(w)
  <2>1. orders' = [orders EXCEPT ![o].applied = orders[o].applied + 1]
    BY <1>5 DEF ApplyPayment
  <2>2. /\ DOMAIN orders' = DOMAIN orders /\ orders'[o].applied # 0
        /\ \A p \in DOMAIN orders \ {o} : orders'[p] = orders[p]
    <3>1. orders[o] \in OrderRow
      BY <1>1
    <3>2. orders[o].applied \in Nat
      BY <3>1 DEF OrderRow
    <3> QED BY <1>1, <2>1, <3>1, <3>2 DEF OrderRow
  <2>3. ASSUME NEW p \in DOMAIN orders, Unanswered(p)' PROVE p \in overtaken
    <3>1. p # o /\ Unanswered(p)
      BY <2>2, <2>3 DEF Unanswered
    <3> QED BY <1>3, <3>1 DEF AwaitInv
  <2> QED BY <1>1, <2>2, <2>3 DEF AwaitInv
<1> QED BY <1>4, <1>5 DEF HandleWebhook

\* Clicks, beginning deliveries, payments, closing, time and crashes.
LEMMA OtherAwait ==
    ASSUME ListingAssumption, TypeInv, AwaitInv,
           \/ \E r \in Slot : InsertClick(r) \/ Bill(r)
           \/ \E w \in Worker : Deliver(w)
           \/ \E r \in Slot \cup Worker : Abort(r)
           \/ \E o \in DOMAIN orders : Pay(o)
           \/ Close \/ NextDay \/ MonthPasses \/ UNCHANGED vars
    PROVE  AwaitInv'
<1>0. listing \in ListingRow /\ \A q \in Slot \cup Worker : q \in DOMAIN job
  BY DEF TypeInv, TypeOK
<1>1. ASSUME NEW o \in DOMAIN orders, Pay(o) PROVE AwaitInv'
  <2>1. /\ listing' = listing /\ job' = job /\ overtaken' = overtaken /\ orders[o] \in OrderRow
        /\ orders' = [orders EXCEPT ![o].paid = TRUE]
    BY <1>1 DEF Pay, TypeInv, TypeOK
  <2>2. /\ DOMAIN orders' = DOMAIN orders
        /\ \A p \in DOMAIN orders :
              /\ orders'[p].op = orders[p].op /\ orders'[p].offered = orders[p].offered
              /\ orders'[p].applied = orders[p].applied
    BY <2>1 DEF OrderRow
  <2> QED BY <2>1, <2>2, AwaitQuiet
<1>2. ASSUME NEW w \in Worker, NEW o \in DOMAIN orders, BeginWebhook(w, o) PROVE AwaitInv'
  <2>1. /\ listing' = listing /\ orders' = orders /\ overtaken' = overtaken
        /\ listing.order = o /\ w \in DOMAIN job /\ w \notin Slot
        /\ job' = [job EXCEPT ![w] = [step |-> "apply", snap |-> listing]]
    BY <1>2 DEF BeginWebhook, Begin, TypeInv, ListingAssumption
  <2>2. /\ \A q \in Slot : job'[q] = job[q]
        /\ \A v \in Worker : job'[v] = job[v] \/ job'[v].snap = listing
    BY <2>1
  <2> QED BY <2>1, <2>2, AwaitQuiet
<1>3. ASSUME UNCHANGED <<orders, overtaken>>,
             listing'.order = listing.order, listing'.pending = listing.pending,
             listing'.status \in {listing.status, "CLOSED"},
             \A q \in Slot \cup Worker :
                 job'[q] = job[q] \/ job'[q].step \notin Checkouts \cup {"apply"}
      PROVE  AwaitInv'
  <2> SUFFICES ASSUME NEW o \in DOMAIN orders, Unanswered(o), o \notin overtaken PROVE Held(o)'
    BY <1>3 DEF AwaitInv, Unanswered
  <2>1. Held(o)
    BY DEF AwaitInv
  <2> QED BY <1>3, <2>1 DEF Held, Checkouts
<1>4. CASE \/ \E r \in Slot : InsertClick(r) \/ Bill(r)
           \/ \E r \in Slot \cup Worker : Abort(r)
           \/ Close \/ NextDay \/ MonthPasses \/ UNCHANGED vars
  <2>1. /\ UNCHANGED <<orders, overtaken>> /\ listing'.order = listing.order
        /\ listing'.pending = listing.pending
        /\ listing'.status \in {listing.status, "CLOSED"}
    BY <1>0, <1>4 DEF InsertClick, Bill, Abort, Close, NextDay, MonthPasses, vars, ListingRow
  <2>2. \A q \in Slot \cup Worker :
            job'[q] = job[q] \/ job'[q].step \notin Checkouts \cup {"apply"}
    <3>1. ASSUME NEW r \in Slot \cup Worker, NEW c \in {Idle, [step |-> "bill"]},
                 job' = [job EXCEPT ![r] = c]
          PROVE  \A q \in Slot \cup Worker :
                     job'[q] = job[q] \/ job'[q].step \notin Checkouts \cup {"apply"}
      BY <1>0, <3>1 DEF Idle, Checkouts
    <3>2. ASSUME NEW r \in Slot \cup Worker, InsertClick(r) \/ Bill(r) \/ Abort(r)
          PROVE  \E c \in {Idle, [step |-> "bill"]} : job' = [job EXCEPT ![r] = c]
      BY <3>2 DEF InsertClick, Bill, Abort, Done
    <3>3. CASE Close \/ NextDay \/ MonthPasses \/ UNCHANGED vars
      BY <3>3 DEF Close, NextDay, MonthPasses, vars
    <3> QED BY <1>4, <3>1, <3>2, <3>3
  <2> QED BY <1>3, <2>1, <2>2
<1> QED BY <1>1, <1>2, <1>4 DEF Deliver

\* Every step keeps the invariant.
LEMMA AwaitStep ==
    ASSUME ListingAssumption, TypeInv, LedgerInv, OnceInv, AwaitInv, [Next]_vars
    PROVE  AwaitInv'
BY RequestAwait, CheckoutAwait, SaveCheckoutAwait, HandleAwait, OtherAwait DEF Next

\* However checkouts, deliveries, closing and crashes overlap, an open listing
\* forgets no checkout that the poster may still pay, unless another call was about
\* to write the row when the checkout was saved.
THEOREM AwaitingCorrect == Spec => []OneOrderAwaiting
<1>1. Init => AwaitInv
  BY DEF Init, AwaitInv
<1>2. TypeInv /\ LedgerInv /\ OnceInv /\ AwaitInv /\ [Next]_vars => AwaitInv'
  BY AwaitStep, ListingAssumption
<1>3. AwaitInv => OneOrderAwaiting
  BY DEF AwaitInv, Held, OneOrderAwaiting
<1> QED BY <1>1, <1>2, <1>3, ListingInvariants, PTL DEF Spec


=============================================================================
