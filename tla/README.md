# Verification of the rental marketplace API

TLA+ models of the backend in `src/apps/api` (NestJS over PostgreSQL through
Prisma, with Redis, an SMS carrier and a payment provider) and of the session
the dashboard in `src/apps/dashboard` keeps in the browser, TLC runs over small
instances, and TLAPS proofs.

All paths below are relative to `src/apps/api/src` unless they start with `src/`.

## The system

One Node process (or several: nothing in the code relies on there being one)
serves HTTP requests. A request is an `async` function: a chain of awaited
database statements and provider calls. With few exceptions there is no
transaction around the chain, no row lock, and no version column. So between
any two `await`s every other request may run, and a request that throws or
whose process dies leaves everything it did so far in place. Almost every
interesting behaviour of this system comes from that:

* a row is read and checked, and then updated by its id without the condition;
* a count or a lookup decides something that an insert makes true only later;
* carriers and the payment provider deliver the same event again, possibly to
  two requests at the same time;
* several statements that belong together can be cut apart by a failure.

### Components

| Component | State | Operations | What must hold |
|---|---|---|---|
| Message pipeline (`messages/`) | `Message`, `Conversation.status`, `.lastMessageAt`, `.isFlagged` | `compose`, `ingestInbound`, `recordDeliveryStatus` | blocked messages never leave; one row per inbound text; stored texts are forwarded |
| Moderation (`moderation/`) | `Violation`, `UserRestriction`, `ModerationFlag` | `evaluateWithHistory`, `recordViolationAndEscalate`, `imposeRestriction`, `liftRestriction` | sanctions no harsher than the record; split contact information is caught |
| SMS routing (`sms/`) | pending menu per relay number and phone (Redis) | `route`, inbound webhook | a text only lands where its sender put it |
| Sessions (`auth/`, `users/`) | `RefreshToken`, `PasswordResetToken`, `User.isActive`, `.passwordHash` | login, refresh, logout, reset request, reset, `setActive` | rotation with reuse detection; a reset ends sessions; superseded links are dead |
| Sponsored listings (`job-referrals/`) | `JobReferral`, `JobReferralClick` | create, top up, renew, close, click, payment webhook | the budget ledger balances; nothing is billed, credited or served beyond what was paid; no checkout is forgotten |
| Paid requests (`gig-jobs/`, `hqs-inspections/`, `tenant-screenings/`, `applications/`) | one row with a status and an order id each; `GigVoucher` | 18 endpoints, payment webhooks | nothing is delivered before it is paid; one voucher per payout; no payment is lost |
| Conversations and relay pool (`conversations/`) | `Conversation`, `RelayAssignment` | `startConversation`, `assignRelayNumber` | one open conversation per tenant and property; capacity of a relay number |
| Showings (`showings/`) | `Showing`, `ShowingTimeSlot`, `Conversation.status` | propose, accept, cancel, complete | one selected time, of which `scheduledAt` speaks |
| Housing vouchers (`housing-vouchers/`) | `VoucherAccessRequest`, `VoucherDocument` | ask, accept, decline, upload, download | a landlord downloads only what the tenant's last word grants |
| Papers (`id-submissions/`, `lenders/`) | `IdSubmission`, `LenderAssignment`, `LenderPaymentRequest` | open, submit by e-mail, cancel, decline, assign, revoke | the row says what was sent |
| Subscriptions and boosts (`subscriptions/`, `properties/`) | tier, pending tier, order | checkout, payment webhook | the tier in force was paid for |
| Phones (`phone/`) | `PhoneNumber`, `PhoneVerification` | send code, confirm | attempts are limited; a user has one primary number |
| Rate limiter (`redis/`) | a counter per key in Redis | `consume` | a window lets no more than its limit through, and ends |
| User administration (`users/`) | role, `isActive`, `canSuspendUsers` | `changeRole`, `setActive`, `setSuspendPermission` | moderators only act on whom they may |
| Browser session (dashboard) | tokens in `localStorage`, `refreshPromise` per tab | refresh, sign in, sign out | an honest browser is not taken for a thief |
| The rest | CRUD, reads, geocoding, schools, sockets, audit rows | | no state of their own that interleaves, except where "Not modelled" says so |

Interactions: the SMS webhook calls `route`, which hands a text to
`ingestInbound`; `compose` and `ingestInbound` call moderation before and after
they store a message; showings write the status of the conversation the
pipeline also writes; `PaymentWebhooksController` offers every payment event to
seven services in turn, each of which looks the order up in its own table; the
Redis menu is outside the database. `PROJECT.json` lists every component with
what is modelled of it, and the hazards at the lines where they bite.

## Modules

| Module | Models | Extends |
|---|---|---|
| `Messaging` | message pipeline and moderation | |
| `MessagingProofs` | proofs about `Messaging` | `Messaging`, TLAPS |
| `SmsRouting` | SMS routing, composed with the pipeline | `Messaging` |
| `Sessions` | login, rotation, logout, password reset | |
| `SessionsProofs` | proofs about `Sessions` | `Sessions`, TLAPS |
| `BrowserSession` | the dashboard's tabs in front of the session service | `Sessions` |
| `BrowserSessionProofs` | proofs about `BrowserSession`, its refinement of `Sessions` included | `BrowserSession`, `SessionsProofs` |
| `SponsoredListing` | one prepaid listing, its payments and clicks | instantiates `Ledger` |
| `Ledger` | what a prepaid click budget promises (abstract) | |
| `SponsoredListingProofs` | proofs about `SponsoredListing`, its refinement included | `SponsoredListing`, TLAPS |
| `PaidRequests` | gig jobs, inspections, screenings, applications | |
| `PaidRequestsProofs` | proofs about `PaidRequests` | `PaidRequests`, `SequenceTheorems`, TLAPS |
| `LiveServices` | what the routing, the listing and the paid requests get done | `SmsRouting`, instantiates the other two |
| `LiveServicesProofs` | proofs about `SmsRouting` and `LiveServices` | `LiveServices`, `MessagingProofs`, instantiates the proofs of the other two |
| `ApiCalls` | the slots, steps and deaths of calls shared by the small services | |
| `Conversations` | starting conversations, the relay pool | `ApiCalls` |
| `ConversationsProofs` | proofs about `Conversations` | `Conversations`, TLAPS |
| `Showings`, `VoucherAccess`, `PaperRequests`, `RateLimiter`, `Phones`, `Upgrades`, `UserAdmin` | one small service each | `ApiCalls` |
| `Workflows` | the eight small services side by side | those |
| `WorkflowsProofs` | proofs about the small services and `Workflows` | `Workflows`, `ConversationsProofs` |
| `MC...` | constants and symmetry sets for TLC | the module they name |

All of them have the same shape. A set of slots holds the requests being served
(`req`, `job`, `route`); a slot's record says at which `await` the request
stands and what it has read so far. `Begin...` is the code up to the first
statement whose result it acts on (including the early returns, as guards);
every further action is the code between two awaits, named after what it does.
`Abort` ends a request at any await and undoes nothing: a statement or provider
call that throws and a crash of the process look the same to the database. Rows
are records in sequences, in the order of creation, so a row's number is its id.
Variables and fields marked *history* exist only for the properties; no action
reads them. Some of them name the races the code does not exclude: `raced` holds
the orders of which two deliveries were in progress at the same time,
`overtaken` those saved while another call, having read the row before, was
still to write it, and `cut` the messages whose request died after storing
them. A property that excepts these says what every other behaviour keeps, and
so exactly how much the race can do.

**Messaging.** `BeginCompose`/`BeginIngest` read the conversation (the snapshot
`snap` the request works with to its end); `CheckRestriction`, `Evaluate`
(`evaluateWithHistory`), then either `StoreBlocked`, `CountPrior`,
`RecordViolation`, `TempRestrict`/`RaiseFlag`, `FlagConversation`/`Notice`, or
`Store`, `Send`, `MarkSent`, `Touch`. `BeginCallback`/`ApplyStatus` is
`recordDeliveryStatus`. Contents are abstracted to what the detector tells
apart: contact information, half of it, or neither. The unique index on
`providerMessageId` is a guard of `Insert`. Staff impose and lift restrictions;
`HistoryAges` moves messages out of the history window. `MessageDelivery` rows
are a log nothing reads and are left out.

**SmsRouting** adds Redis and the carrier in front: `Receive` (get),
`Consume` (del), `Resolve` (find the conversations), `StoreMenu` (set),
`SendMenu`, `Handoff` (into `BeginIngest`). Any text may be delivered any
number of times. Conversations and assignments do not change meanwhile.

**Sessions.** `tokens` keeps revoked rows, as the table does; `links` keeps the
deleted ones, marked. Only `CommitReset` is a transaction, as in the code.

**SponsoredListing.** One listing, its orders at the provider, its clicks.
Dates are counters: `today` for the click's day, `month` for the paid period,
which an update sets to an absolute date. An organic referral is the case of a
listing without orders.

**PaidRequests.** One row of one kind, chosen in `Init`. The endpoints of the
four services all read, check the status, and update by id; so they are a
table of operations (`GigOps`, `HqsOps`, ...: statuses accepted, status
written) executed by `BeginOp` and `FinishOp`. Checkouts are two further steps
(`Checkout`, `SaveCheckout`), the provider's page is `Pay`, the handlers are
`BeginWebhook` and `MarkPaid`/`IssueVoucher`/`VoucherFails`.

The small services follow. `ApiCalls` gives them the variable `call`, what
`Begin`, `Proceed`, `Return` and `Abort` mean, and `Overlap`, the number of
calls that can come between a read and a write.

**Conversations.** `threads` holds conversation rows with their relay
assignment. `BeginStart` is the lookup that found none, `AssignRelay` the count
over the pool, `CreateThread` the nested insert. The code neither closes a
conversation nor releases an assignment, so the model does not either.

**Showings.** One conversation, whose status `talk` the pipeline also writes
(`BeginReply`, `Touch`). The order inside each call is the code's: the showing
first, the conversation after. Only `Select` is a transaction. The invitations
are kept as a set of showing and time.

**VoucherAccess.** One conversation. Every answer is decided on the status read
first (`BeginGrant`, `BeginRefuse`, `BeginAsk`) and written over what it has
become. `handed` records under which decision of the tenant each download of
the landlord passed the check. Staff read any voucher by a path of their own
(`getForAdminDownload`, `voucher-documents.service.ts:105`), which asks for no
acceptance, and tenants their own: neither is part of the module.

**PaperRequests.** ID submissions and payment proofs are the same protocol with
different status names (`OpenStatus`, `DoneStatus`, `WithdrawnStatus`), so they
are rows of two kinds. `Email` is the provider call, `RecordAnswer` the update
that follows.

**RateLimiter.** A counter per key; `Incr` and `Expire` are two Redis commands,
`WindowEnds` the expiry. The counter stops one above the limit.

**Phones.** The numbers of one user and the codes sent to them. `Right` and
`Wrong` are the two outcomes of comparing the code; `Verify` is the transaction.

**Upgrades.** One landlord's subscription and one property's boost, as two rows
of the same shape, and the provider's orders. An event of a paid order may be
delivered any number of times.

**UserAdmin.** Accounts with role, flag and permission. The acting user is
re-read at the start of each request (`Acts`), the target before the update.

**Workflows.** The eight services share no table, so a behaviour picks one of
them in `Init`; all of them are checked in one run.

**BrowserSession** puts the browser in front of `Sessions`: `stored` is
`localStorage`, shared by the tabs; `fetch` ties a server slot to the tab call
it answers, so a tab's `refreshPromise` is a pending refresh of that tab.
`LoseAnswer` is a failing network, after which the server may still go on;
`SignOut` empties the store and tells nobody, as the navigation bar does.

**Ledger and LiveServices.** `Ledger` has a balance, credits of advertised
amounts and clicks the balance covers; `SponsoredListing` implements it with
`balance <- listing.budget` and `billed <- listing.clickCount`.
`LiveServices` runs the three parts whose liveness is at stake under the
fairness each of them has; a behaviour exercises one.

## Runs

Every run has `CHECK_DEADLOCK FALSE`: users may stop asking, and the bounds
stop the rest, so a final state is not an error. Slots (and workers, tenants)
are symmetry sets where the run checks safety only and nothing distinguishes
them; liveness runs use no symmetry.

| Run | Instance | What it shows |
|---|---|---|
| `MessagingInbound` | 2 slots, 3 messages, 2 texts (the landlord's answer, and one with contact information), carrier reports of two kinds, one restriction by staff, faults | `TypeOK`; blocked messages are never forwarded and never become visible; one row per text; a conversation is ACTIVE only after an unblocked message of its landlord; only a request that dies leaves an answered conversation NEW_INQUIRY (`QuietReplyActivates`) or a stored text unforwarded (`NoTextStranded`) |
| `MessagingModeration` | 2 slots of one tenant sending contact information and halves, 4 messages, window of 1, faults | the i-th violation brings at most tier i and a flag at least four violations; contact information split in two gets through only if the second half was evaluated before the first was stored |
| `SmsRouting` | 1 slot, 3 conversations on 2 numbers, 3 texts and one number, faults | a stored text is in the one conversation it can belong to, or the one its sender picked |
| `Sessions` | 2 slots, 3 tokens, 1 link, faults | a token with a successor is revoked and of the same family; a reset ends the sessions it finds; a superseded link never changes the password |
| `SessionsReuseRace` (violation) | 2 slots, 4 tokens | see divergences |
| `BrowserSession` | 2 tabs, 2 slots, 2 tokens, 1 link, faults and a lossy network | an honest user's family is burnt only if two tabs spent one token, an answer to a refresh was lost, or the password was reset |
| `ListingBudget` | 2 slots, 2 workers, 1 tenant, 3 orders, 2 days, 2 months, faults | the listing implements `Ledger`; the budget balances with what was credited and billed; an order is credited twice only if two of its deliveries overlapped; one bill per tenant and day; a checkout is forgotten only if it was overtaken |
| `ListingReplay` (violation) | 1 slot, 2 workers | see divergences |
| `ListingCheckouts` (violation) | 2 slots, 1 worker | see divergences |
| `PaidRequests` | 2 slots, 2 workers, all four kinds, 2 tenants, 3 orders, faults | nothing is delivered unpaid; one voucher per payout; a checkout is forgotten only if it was overtaken |
| `ServicesLive` | texts: 2 slots, 2 conversations, a text and a number; listing and requests: 2 callers, 2 workers, 3 orders, 3 months, all four kinds; fairness | a text whose conversation was chosen is stored; what is paid is applied or recorded, unless its checkout was overtaken; a listing is not served for a month nobody paid for |
| `Workflows` | 2 slots, faults; 2 tenants, properties and relay numbers of capacity 1; 2 showings with 2 times; 2 papers; 2 keys of limit 2; 2 numbers with 1 attempt; 3 checkouts; 2 accounts with 2 role changes | one property per service, below |

What `Workflows` shows, service by service. The rows are of their type in all
of them (`TablesTypeOK`), and:

* *Conversations*: two conversations of a tenant about one property exist only
  if the later start looked before the earlier insert
  (`DuplicateNeedsOverlap`); a relay number is overrun by at most `Overlap`
  (`OverrunNeedsOverlap`).
* *Showings*: whatever overlaps, a showing that was ever scheduled has exactly
  one selected time, the one `scheduledAt` holds; a conversation is
  SHOWING_SCHEDULED, and invitations go out, only with a showing that was
  scheduled (`OneTimeSelected`). Which time an invitation speaks of is not
  promised: after a second acceptance the first one's speaks of the other time.
* *Vouchers*: a landlord's download passes only while the tenant's last recorded word is
  an acceptance, and then a document exists (`DownloadsGranted`).
* *Papers*: a row that says its paper was e-mailed means it; a paper is out
  under an open row only while the call that sent it is in flight, or if it
  died (`AnsweredMeansSent`).
* *Rate limiter*: a window lets at most the limit through and ends, unless the
  call that was to set its expiry died (`WindowsLimitAndEnd`).
* *Phones*: every wrong guess is counted once unless its call died, so the
  limit is overrun by no more than `Overlap` (`EveryGuessCounts`); two primary
  numbers need overlapping confirmations, and a user without one needs a number
  confirmed twice (`PrimaryNumber`).
* *Upgrades*: the tier in force is one the landlord paid for (`TierPaidFor`).
* *Users*: a moderator's suspension hits staff only if they became staff in the
  middle of the call (`ModeratorsSpareStaff`).

Several of these say exactly how much a race can do, because the plain promise
("one conversation", "at most the limit") does not hold of this code.

**Bounds.** Two requests at a time suffice for every race in this code, because
each is a stale read followed by one write: the second request is the one that
comes in between. Three or four rows let a third event meet what two raced
about (the fourth violation for the moderator's flag, the successor of a
successor in a rotation chain, a top-up after a renewal). `Lookback = 1` makes
the count limit of the history matter with four messages; the 5 of the code
(`moderation.service.ts:12`) only delays it. `MaxRestrictions = 1` lets staff
restrict one user once, which is enough to fall between the check and the store
of a request. `Cost = 2` against budgets of 3 and 2 gives a click the budget
cannot pay. `ListingBudget` has two workers, so that deliveries of one event
overlap, and two callers, so that checkouts do; its two months let one period
end. Months are counted on in `ServicesLive`, where three of them and three
orders let two periods be served and a renewal extend from the later of the old
end and now: a period that counted its last day, or a renewal applied twice,
serves a month nobody paid for there. That run has no clicks (`Tenant = {}`), as
they touch neither dates nor orders. `Capacity = 1` with two numbers and four conversations
fills the pool, so that overruns and exhaustion happen; `MaxAttempts = 1` puts
the guess limit where two overlapping guesses meet it; `Limit = 2` lets a third
call be refused. In `BrowserSession` two tokens let each of the three causes
burn a family: dropping any of them from `FalseAlarmNeedsRace` makes TLC find a
counterexample.

**Fairness.** `WF` on `Serve` (and `RouteStep`): the event loop keeps running
a request it has accepted, and `ServicesLive` has `Faults = FALSE` because
a request that dies is not resumed by anyone. `WF` on `Deliver \/ HandleWebhook`:
the provider redelivers an event until a delivery succeeded. No fairness on
users, staff, payers or time.

Every property has a mutant, an operator beside the one it mutates (comments
`Mutant:`): a plausible slip in the code that makes TLC find the property
violated. The mutants are not part of any specification.

## Proofs

Every safety invariant and action property that a passing run checks is also
proved, for every value of the constants: any number of slots, users, rows,
texts, tabs, orders, however they overlap, with and without faults. A
property is seldom inductive as it stands. What strengthens it is, almost
everywhere, what the requests in flight know: a request carries what it has read
into its next statement, so the invariant says how much of that can have become
false meanwhile. TLC tries such invariants on the runs' instances first, which
is where the wrong ones fail.

**`MessagingProofs`**

* `TypeCorrect`: `Spec => []TypeOK`. Actions index `messages` with the row number
  a request carries; `RowsKept` says that a request past its insert names an
  existing row (rows are never deleted), and `TypeInv == TypeOK /\ RowsKept`.
* `SanctionsCorrect`: the count of prior violations a request carries may be
  stale, but only too small, since violations are never removed. `SanctionInv`
  says so of every request between count and insert, and of the flags still to
  be raised.
* `OneRowPerTextCorrect`: the unique index refuses a second row, and the provider
  ids `MarkSent` writes are no text's.
* `GateCorrect`: `GateInv` follows a row to the provider. A request past the
  insert of an accepted message has an unblocked row (`SendDue`); one that marks
  a row, or applies a carrier report to it, follows its send (`Marking`); and
  only a row that was handed over has an id a report can name (`JobIds`,
  `SentIds`). `BlockedStaysBlockedCorrect`, the action property, follows from the
  same invariant.
* `ActiveNeedsReplyCorrect`: `ThreadInv` says that a request writes in a
  conversation its user takes part in and about a row of that conversation.
* `QuietReplyActivatesCorrect`: `PendingInv`: as long as a conversation the
  landlord wrote in is a new inquiry, the request that stored the message has its
  last update before it, or died and left the message in `cut` (`ReplyPending`);
  and a snapshot of an answered conversation stays right, as none becomes a new
  inquiry again (`SnapshotKept`).
* `NoTextStrandedCorrect`: the insert puts the text and the intent to forward it
  into the same step, and only the mark, or death, ends that intent.
* `SplitNeedsOverlapCorrect`: a half about to be stored was found to have no other
  half among the rows it was evaluated against (`GateClean`), and so was every
  half that was stored (`RowsClean`), for any `Lookback`.

**`LiveServicesProofs`**

* `NeverGuessesCorrect`: `RoutingSpec => []NeverGuesses`. A pending menu, and the
  menu a route is about to store, list candidates of the text they were made for
  (`MenusKept`, `RoutesKept`); the conversation of a text handed to the pipeline
  was chosen before (`JobsChosen`).
* `RelayCorrect`: `RoutingSpec => [](OneRowPerText /\ GateHolds)`. Steps of the
  routing hand texts over and touch no row, so the invariants of the pipeline
  survive its composition with the routing.
* `PartsServed`: `ServicesSpec => RoutingSpec /\ Listing!Spec /\ Paid!Spec`.
* `MonthsServedCorrect`: `ServicesSpec => []ServedMonthsPaid`, from
  `MonthsPaidCorrect` about the part.

**`SessionsProofs`** and **`BrowserSessionProofs`**

* `SessionsTypeCorrect`, with the rows the requests in flight refer to
  (`RowsKept`).
* `RotationCorrect`: `ChainInv` adds that a request about to insert a successor
  has revoked the predecessor; nothing ever makes a revoked token live.
* `ResetCorrect`: rows inserted later have larger numbers than the reset looked at.
* `SupersededCorrect`: `Spec => SupersededLinkIsDead`, an action property: a
  step that changes the password uses a link that is not deleted, and deleting
  links is what a newer request does first.
* `BrowserServed`: `BrowserSpec => Spec`. The tabs make the server do nothing that
  `Sessions` does not say, so its theorems hold behind them.
* `FalseAlarmCorrect`: `BrowserSpec => []FalseAlarmNeedsRace`. A token is revoked
  because a tab spent it, because its family was burnt, or because of a reset
  (`RevokedForReason`); while the token that is stored was spent by one tab only,
  that tab waits for the answer or lost it (`SpentIsAwaited`); and an answer that
  has not arrived is newer than what is stored (`AnswersFresh`).

**`SponsoredListingProofs`**

* `ListingTypeCorrect`, the budget never negative included, and `BillsCorrect`,
  for which `BillInv` gives every bill made or under way a click row of its own.
* `LedgerCorrect` and `BudgetCorrect`: `Spec => ImplementsLedger` (initial states
  map to initial states, every step to a step of `Ledger` or a stutter) and
  `Spec => []BudgetLedger`. The first payment sets the budget where the others
  add to it; `Phases` shows that it is applied to a budget in use only if two of
  its deliveries overlapped (`1 \in raced`), which is when `Ledger` may start
  over from the opening amount.
* `CreditedOnceCorrect`: an order being saved is new, the one the listing awaits
  has not been applied, and a delivery is alone with its order unless the order
  is in `raced` (`OnceInv`).
* `MonthsPaidCorrect`: the months served, with those left of the period the row
  has, or a delivery has read and is about to extend, are at most the fees paid
  (`FeeInv`).
* `AwaitingCorrect`: `AwaitInv`: an order that was saved while nobody else was
  about to write the row keeps others from beginning, as the row awaits it, so
  nobody is about to write the row until its own payment arrives.

**`PaidRequestsProofs`**

* `PaidTypeCorrect`: `CallsKept` says what the calls in flight carry (a call
  writes a status of the row's kind, a checkout to be saved exists, a gig's
  payout has a tenant).
* `PaidFirstCorrect`: `PaidInv` says that a row with `paid` set, or with a status
  reached only by payment, has a paid order, and that so does any row with a call
  in flight towards such a status: calls outlive the row they read, but orders
  stay paid.
* `VoucherCorrect`: `CONFIRMED` is written by the transaction that makes the
  voucher, and by no operation in flight.
* `RememberedCorrect`: a call makes an order only for a row that has none, so
  after an order was saved with no other call about to save, none makes another
  (`RememberInv`).

**`ConversationsProofs`** and **`WorkflowsProofs`**

* `DuplicatesCorrect`: `SeenInv` says of every start in flight that the tenant's
  conversations about the property were all inserted after it looked.
* `OverrunCorrect`: `PoolInv` counts, beside the assignments of a number, the
  calls that have chosen it and not yet inserted: together they never exceed the
  capacity by more than `Overlap`.
* `GuessesCorrect` and `LimiterCorrect` count calls in the same way (`CodeCounted`,
  `LetThrough`). `PrimaryCorrect` orders confirmations in time (`Looked`): a call
  that found no primary number looked before any there is by now was confirmed.
* `ShowingsCorrect`: each showing's selected times are the one it is scheduled at
  (`Picked`), and the showing a call after the transaction writes about has been
  scheduled, at that time or by now at another.
* `DownloadsCorrect`, `PapersCorrect`, `TierCorrect`, `ModeratorsCorrect`: a call
  that will accept uploads first; a call past the e-mail has sent it
  (`PaperCallOK`); an order a row or a call holds is one of its product, for what
  is pending (`OrderOf`, `SaleOK`); a target read as a member and since promoted
  has changed since (`SparedInv`).
* `TablesTypeCorrect` and `PromisesCorrect`: types, and all ten properties
  together, of `Workflows`, where one service runs and the tables of the others
  stay as they were (`WorkflowsInv`).

**Assumptions.** The modules assume of their constants (`MessagingAssumption` and
so on; TLC evaluates them in every run) that they have their types, ids of
different kinds differ, a conversation's two participants differ, requests and
deliveries use different slots, the small services have finitely many slots, an
initial budget covers a click. Three came with the proofs: a text sent in by SMS
comes from a participant of its conversation (`sms/sms-routing.service.ts:79`
looks conversations up by sender), there are finitely many conversations, and a
browser has finitely many tabs. The last two make "more than one" a matter of
counting. No theorem assumes anything else: not that deliveries or calls come
one at a time, nor that requests survive. Where a race does break the plain
promise, the property itself excepts the rows concerned (`raced`, `overtaken`,
`cut`), and the violation runs show that the exception is needed.

**Only model-checked.** The liveness properties `ChosenTextIsStored`,
`PaidOrderIsApplied` and `PaymentIsRecorded`: TLAPS proves nothing about
fairness and ENABLED. The three violated properties need only TLC's
counterexamples.

## Divergences and weaknesses

Runs with expectation *violation* show a disagreement between code and comment:

* `SessionsReuseRace`: a detected reuse burns the family, but a rotation already
  past its revoke inserts a live successor into the burnt family afterwards.
* `ListingReplay`: clearing `pendingOperation` is said to make a replayed
  payment event a no-op (`schema.prisma:273`). Two overlapping deliveries of one
  top-up both find it pending and both increment the budget
  (`job-referrals.service.ts:352`), so clicks are billed that nobody paid for.
* `ListingCheckouts`: a second top-up or renewal is said to be rejected while
  one awaits payment (`src/README.md:368`). Two overlapping calls both pass the
  check (`job-referrals.service.ts:184`), both get a checkout, and one order is
  forgotten: `PaidOrderIsApplied` excepts it.

Met while modelling, reproducible in the modules, without a run of their own:

* The tiers of the escalation table get out of step with the number of
  violations when two blocked messages overlap (`moderation.service.ts:155`,
  `163`), and a request that dies between the violation and the restriction
  leaves the third hit unsanctioned.
* Two halves of a phone number sent at the same time both pass
  (`messages.service.ts:69`, `111`).
* A digit reply that the carrier delivers again after its menu was consumed is
  routed as an ordinary text, although `src/README.md:286` says it is never
  stored; a second ambiguous text replaces the menu the first one's sender is
  answering (`sms-routing.service.ts:100`).
* A login or rotation in flight survives a password reset (`auth.service.ts:242`);
  two overlapping reset requests leave two live links (`198`); one link can be
  used by two overlapping requests (`238`).
* Two overlapping deliveries of a listing's first payment set the budget twice:
  a click billed in between is paid for by nobody (`job-referrals.service.ts:342`).
  Two of a renewal on either side of the end of a period extend it from
  different dates (`358`). A listing closed while its activation is being
  applied comes back (`341`), against the comment at `328`.
* A text whose request dies between its insert and the send is never forwarded
  (`messages.service.ts:206` answers every later delivery from the row), and a
  late carrier report replaces a newer one (`413`).
* An HQS request that was already paid can be cancelled
  (`hqs-inspections.service.ts:95`), although `src/README.md:435` speaks of an
  unpaid request; one whose first checkout failed is returned for ever without
  a link to pay.
* A gig payout that is paid but whose completion the poster rejects before the
  event arrives is acknowledged and ignored (`gig-jobs.service.ts:251`); a
  late claim or completion can overwrite another tenant's (`132`). A landlord's
  decision on an application overwrites a withdrawal (`applications.service.ts:367`).
* Two overlapping starts make two conversations of one tenant about one property
  (`conversations.service.ts:76`) and overrun the relay pool (`189`); the pool
  only ever fills, as nothing sets `releasedAt`.
* No showing call looks at the status of the showing (`showings.service.ts:93`):
  a cancelled or completed one can be accepted, a completed one cancelled; and
  a late status write leaves the conversation SHOWING_SCHEDULED after a
  cancellation, or ACTIVE while a showing is scheduled (`111`, `140`).
* Accepting a voucher request and declining it at the same time leaves whichever
  was written last (`voucher-access-requests.service.ts:130`, `157`); a download
  past its check goes through although access is revoked meanwhile.
* An ID can be e-mailed and its submission then read as cancelled, or sent twice
  (`id-submissions.service.ts:122`); a payment proof goes out to a lender whose
  assignment was revoked (`lenders.service.ts:192` does not look).
* A limiter call that dies between INCR and EXPIRE locks its key for ever once
  the limit is reached (`rate-limiter.service.ts:22`).
* Overlapping wrong codes pass the attempt check together (`phone.service.ts:139`).
  Confirming the only primary number once more takes its rank away, since the
  number finds itself as the primary one (`153`, `160`), and the user gets no
  more texts. A number entered but never verified keeps its hash from others,
  the hash being unique (`69`, `74`).
* A second subscription or boost checkout makes the row forget the first order,
  whose payment then finds nothing; an event read before and written after the
  second one clears what it had pending (`subscriptions.service.ts:97`).
* An administrator may demote the last super administrator
  (`users.service.ts:108` looks at the role granted only); `canSuspendUsers`
  survives a change of role and is in force again when the account becomes a
  moderator again.
* Two tabs that meet a 401 at the same time both send the stored token, and the
  server takes the second for a thief (`src/apps/dashboard/src/lib/api.ts:19`
  shares the refresh within one tab only). A refresh refused for any reason, a
  server error included, signs the user out (`33`). Signing out never calls
  `/auth/logout`, and a refresh in flight stores its tokens afterwards
  (`src/apps/dashboard/src/components/NavBar.tsx:103`).

## Not modelled

`PROJECT.json` gives the reason for each component. In short: CRUD, search,
geocoding, schools, packets and homeownership content have no state that
interleaves; the realtime gateway is best effort; providers are environment;
guards appear as the sets of users an action ranges over; the detector's
regular expressions and the texts of notices are abstracted away.

Left out of components that are otherwise modelled: registration; `applyVoucher`
of gig jobs; sharing and downloading screenings; the form of an application;
`updateAssignment` of lenders; the review of moderation flags and admin notes;
and `refreshLocationData` of `properties.service.ts:738`, where an address
changed during the geocoding of the old one keeps the old one's coordinates if
the older refresh is the later to finish (a cache nothing else decides on).

The mapped lines are a small share of the repository: more than half of its
lines are a table of rent figures (`nationwide-fmr-baseline.data.ts`), most of
the rest are dashboard pages, DTOs, controllers and migrations. The services of
the backend have about 6000 lines, of which the longest (`properties.service.ts`)
is CRUD and search. Of the code that changes state under concurrency, the list
above is what is missing.

## Plan

1. The safety half of the remaining liveness properties, as `NoTextStranded` and
   `OneOrderAwaiting` are of theirs: a text whose conversation was chosen is in
   the hands of a route or a request.
2. Sharing of screenings and its downloads; registration in `Sessions`.
3. An abstract specification of the paid requests in the way of `Ledger`: what is
   paid is delivered at most once.
