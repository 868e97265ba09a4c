------------------------------ MODULE Messaging ------------------------------
(***************************************************************************)
(* The message pipeline of the API: MessagesService.compose (in-app),      *)
(* MessagesService.ingestInbound (a text already routed to a               *)
(* conversation), MessagesService.recordDeliveryStatus, and the            *)
(* ModerationService / ModerationAdminService calls they make.             *)
(*                                                                         *)
(* A request is a chain of awaited database statements and provider calls  *)
(* with no transaction around it, so each slot of `req' holds one request  *)
(* between two awaits and every action is the code from one await to the   *)
(* next.  Requests in different slots interleave freely.                   *)
(***************************************************************************)
EXTENDS Naturals, Sequences, FiniteSets

CONSTANTS
    Slot,             \* requests the API can be serving at the same time
    Conv, User,
    Tenant, Landlord, \* [Conv -> User]: the two participants
    Reachable,        \* users with a verified primary phone number
    Writer,           \* users who compose in the app
    Inbound,          \* carrier message ids of inbound texts
    Text,             \* [Inbound -> TextRow]: what each text says, and where it routes
    Contents,         \* the kinds of content composed in the app
    Reports,          \* the statuses the carrier calls back with
    Lookback,         \* HISTORY_LOOKBACK_MESSAGES
    MaxMessages,      \* bound: rows of the Message table
    MaxRestrictions,  \* bound: staff impose one while every user has fewer
    Faults            \* TRUE: a request may die between two awaits

VARIABLES
    convs,        \* Conversation rows
    clock,        \* number of lastMessageAt writes so far
    messages,     \* Message rows in createdAt order
    forwarded,    \* messages the SMS provider accepted; the send's provider id is the row number
    notices,      \* texts sent back to a sender about a refused message
    violations,   \* per user, actionTaken of its Violation rows
    restrictions, \* per user, its UserRestriction rows
    flags,        \* messages with a ModerationFlag row
    horizon,      \* messages up to this one are older than HISTORY_LOOKBACK_MINUTES
    cut,          \* history: messages whose request died after storing them
    req           \* per slot, the request being served

vars == <<convs, clock, messages, forwarded, notices, violations, restrictions,
          flags, horizon, cut, req>>
moderationVars == <<violations, restrictions, flags>>

(***************************************************************************)
(* Content is abstracted to what the detector tells apart: "contact" is    *)
(* blocked by itself (rules or AI fallback), two "half"s are blocked when  *)
(* joined, "clean" never is.                                               *)
(***************************************************************************)
ContentKind == {"clean", "half", "contact"}
ConvStatus == {"NEW_INQUIRY", "ACTIVE", "SHOWING_REQUESTED", "SHOWING_SCHEDULED"}
MessageStatus == {"RECEIVED", "BLOCKED", "QUEUED", "SENT", "DELIVERED",
                  "FAILED", "UNDELIVERABLE"}
CarrierStatus == {"queued", "sent", "delivered", "failed", "undelivered"}
ViolationAction == {"EDUCATIONAL_WARNING", "STRONG_WARNING", "TEMP_RESTRICTION",
                    "MODERATOR_REVIEW"}

ConvRow == [status : ConvStatus, flagged : BOOLEAN, lastMessageAt : Nat]
TextRow == [conv : Conv, user : User, content : ContentKind]
NoId == 0 \* providerMessageId is null
ProviderId == Inbound \cup Nat
\* seen and cutoff are history: how many rows existed, and which were too old,
\* when the moderation gate looked at the sender's recent messages.
MessageRow == [conv : Conv, sender : User, content : ContentKind,
               status : MessageStatus, pid : ProviderId, seen : Nat, cutoff : Nat]
RestrictionRow == {"timed", "indefinite", "over"}

ComposeStep == {"checkRestriction", "evaluate", "store", "storeBlocked",
                "countPrior", "recordViolation", "restrict", "raiseFlag",
                "flagConversation", "notice", "send", "markSent", "touch"}
Idle == [step |-> "idle"]
Job == [step : ComposeStep, op : {"compose", "ingest"}, conv : Conv, user : User,
        content : ContentKind, pid : ProviderId, snap : ConvRow, msg : Nat,
        prior : Nat, seen : Nat, cutoff : Nat]
Callback == [step : {"applyStatus"}, msg : Nat, status : CarrierStatus]

\* Carrier message ids are not row numbers, the two participants differ, and a
\* text is routed only to a conversation its sender takes part in.
ASSUME MessagingAssumption ==
    /\ Inbound \cap Nat = {}
    /\ Tenant \in [Conv -> User] /\ Landlord \in [Conv -> User]
    /\ \A c \in Conv : Tenant[c] # Landlord[c]
    /\ Text \in [Inbound -> TextRow]
    /\ \A p \in Inbound : Text[p].user \in {Tenant[Text[p].conv], Landlord[Text[p].conv]}
    /\ Writer \subseteq User /\ Reachable \subseteq User
    /\ Contents \subseteq ContentKind /\ Reports \subseteq CarrierStatus
    /\ Lookback \in Nat \ {0} /\ MaxMessages \in Nat /\ MaxRestrictions \in Nat
    /\ Faults \in BOOLEAN

-----------------------------------------------------------------------------
(* Helpers *)

Rows == DOMAIN messages
Busy == {r \in Slot : req[r].step # "idle"}
Participant(c, u) == u \in {Tenant[c], Landlord[c]}
Recipient(c, u) == IF u = Tenant[c] THEN Landlord[c] ELSE Tenant[c]
HasRow(p) == \E m \in Rows : messages[m].pid = p

\* isRestricted: a row neither lifted nor past its endsAt.
Restricted(u) == \E i \in DOMAIN restrictions[u] : restrictions[u][i] # "over"

\* Mutant: only messages already handed to the provider count as history.
RecentSent(c, u) ==
    LET own == {m \in forwarded : /\ m > horizon
                                  /\ messages[m].conv = c /\ messages[m].sender = u}
    IN {m \in own : Cardinality({n \in own : n > m}) < Lookback}

\* The sender's last Lookback unblocked messages inside the time window.
RecentOwn(c, u) ==
    LET own == {m \in Rows : /\ m > horizon
                             /\ messages[m].conv = c /\ messages[m].sender = u
                             /\ messages[m].status # "BLOCKED"}
    IN {m \in own : Cardinality({n \in own : n > m}) < Lookback}

Halves(S) == {m \in S : messages[m].content = "half"}

\* evaluateWithHistory: the direct rules, then the same rules over the joined text.
Blocks(c, u, k) ==
    \/ k = "contact"
    \/ /\ RecentOwn(c, u) # {}
       /\ Cardinality(Halves(RecentOwn(c, u))) + (IF k = "half" THEN 1 ELSE 0) >= 2

\* Mutant: the tiers start one violation early.
TierEarly(prior) == CASE prior = 0 -> "STRONG_WARNING"
                      [] prior = 1 -> "TEMP_RESTRICTION"
                      [] OTHER -> "MODERATOR_REVIEW"

Tier(prior) == CASE prior = 0 -> "EDUCATIONAL_WARNING"
                 [] prior = 1 -> "STRONG_WARNING"
                 [] prior = 2 -> "TEMP_RESTRICTION"
                 [] OTHER -> "MODERATOR_REVIEW"

\* Mutant: the carrier's word is stored as it came.
mapVerbatim(s) == s

mapToMessageStatus(s) == CASE s = "delivered" -> "DELIVERED"
                           [] s = "failed" -> "FAILED"
                           [] s = "undelivered" -> "UNDELIVERABLE"
                           [] s = "sent" -> "SENT"
                           [] OTHER -> "QUEUED"

At(r, s) == req[r].step = s
Goto(r, s) == req' = [req EXCEPT ![r].step = s]
Done(r) == req' = [req EXCEPT ![r] = Idle]

\* Bound: a request starts only while its message would still fit.
RoomForMessage == Len(messages) + Cardinality(Busy) < MaxMessages

-----------------------------------------------------------------------------
Init ==
    /\ convs = [c \in Conv |-> [status |-> "NEW_INQUIRY", flagged |-> FALSE,
                                lastMessageAt |-> 0]]
    /\ clock = 0
    /\ messages = <<>>
    /\ forwarded = {}
    /\ notices = {}
    /\ violations = [u \in User |-> <<>>]
    /\ restrictions = [u \in User |-> <<>>]
    /\ flags = {}
    /\ horizon = 0
    /\ cut = {}
    /\ req = [r \in Slot |-> Idle]

(***************************************************************************)
(* Arrivals.  The conversation row read first is the snapshot the request  *)
(* keeps using until its end.                                              *)
(***************************************************************************)
NewJob(o, c, u, k, p) ==
    [step |-> "checkRestriction", op |-> o, conv |-> c, user |-> u, content |-> k,
     pid |-> p, snap |-> convs[c], msg |-> 0, prior |-> 0, seen |-> 0, cutoff |-> 0]

BeginCompose(r, c, u, k) ==
    /\ At(r, "idle") /\ RoomForMessage
    /\ Participant(c, u)
    /\ req' = [req EXCEPT ![r] = NewJob("compose", c, u, k, NoId)]
    /\ UNCHANGED <<convs, clock, messages, forwarded, notices, moderationVars, horizon, cut>>

\* A text already stored is answered from its row and changes nothing.
BeginIngest(r, c, u, k, p) ==
    /\ At(r, "idle") /\ RoomForMessage
    /\ ~HasRow(p)
    /\ req' = [req EXCEPT ![r] = NewJob("ingest", c, u, k, p)]
    /\ UNCHANGED <<convs, clock, messages, forwarded, notices, moderationVars, horizon, cut>>

(***************************************************************************)
(* The moderation gate                                                     *)
(***************************************************************************)
CheckRestriction(r) ==
    /\ At(r, "checkRestriction")
    /\ \/ /\ ~Restricted(req[r].user)
          /\ Goto(r, "evaluate") /\ UNCHANGED notices
       \/ /\ Restricted(req[r].user)
          /\ Done(r)
          /\ notices' = IF req[r].op = "ingest" /\ req[r].user \in Reachable
                        THEN notices \cup {<<req[r].user, "restricted">>}
                        ELSE notices
    /\ UNCHANGED <<convs, clock, messages, forwarded, moderationVars, horizon, cut>>

Evaluate(r) ==
    LET j == req[r] IN
    /\ At(r, "evaluate")
    /\ req' = [req EXCEPT ![r].step = IF Blocks(j.conv, j.user, j.content)
                                      THEN "storeBlocked" ELSE "store",
                          ![r].seen = Len(messages), ![r].cutoff = horizon]
    /\ UNCHANGED <<convs, clock, messages, forwarded, notices, moderationVars, horizon, cut>>

\* Mutant: no unique index on providerMessageId.
InsertAny(r, status) ==
    LET j == req[r] IN
    messages' = Append(messages,
        [conv |-> j.conv, sender |-> j.user, content |-> j.content,
         status |-> status, pid |-> j.pid, seen |-> j.seen, cutoff |-> j.cutoff])

\* providerMessageId is unique: the insert of a second row for a text fails.
Insert(r, status) ==
    LET j == req[r] IN
    /\ j.pid = NoId \/ ~HasRow(j.pid)
    /\ messages' = Append(messages,
           [conv |-> j.conv, sender |-> j.user, content |-> j.content,
            status |-> status, pid |-> j.pid, seen |-> j.seen, cutoff |-> j.cutoff])

InsertFails(r) ==
    /\ At(r, "store") \/ At(r, "storeBlocked")
    /\ req[r].pid # NoId /\ HasRow(req[r].pid)
    /\ Done(r)
    /\ UNCHANGED <<convs, clock, messages, forwarded, notices, moderationVars, horizon, cut>>

\* Mutant: the blocked branch forgets to return and falls into the send.
StoreBlockedFallsThrough(r) ==
    /\ At(r, "storeBlocked")
    /\ Insert(r, "BLOCKED")
    /\ req' = [req EXCEPT ![r].step = "send", ![r].msg = Len(messages) + 1]
    /\ UNCHANGED <<convs, clock, forwarded, notices, moderationVars, horizon, cut>>

StoreBlocked(r) ==
    /\ At(r, "storeBlocked")
    /\ Insert(r, "BLOCKED")
    /\ req' = [req EXCEPT ![r].step = "countPrior", ![r].msg = Len(messages) + 1]
    /\ UNCHANGED <<convs, clock, forwarded, notices, moderationVars, horizon, cut>>

(***************************************************************************)
(* recordViolationAndEscalate: count, then insert, then the sanction.      *)
(***************************************************************************)
CountPrior(r) ==
    /\ At(r, "countPrior")
    /\ req' = [req EXCEPT ![r].step = "recordViolation",
                          ![r].prior = Len(violations[req[r].user])]
    /\ UNCHANGED <<convs, clock, messages, forwarded, notices, moderationVars, horizon, cut>>

\* What remains of a blocked request once the violation is on record:
\* compose flags a conversation that its snapshot shows unflagged, and
\* ingestInbound texts the sender.
FinishBlocked(j) ==
    IF j.op = "compose"
    THEN IF j.snap.flagged THEN Idle ELSE [j EXCEPT !.step = "flagConversation"]
    ELSE IF j.user \in Reachable THEN [j EXCEPT !.step = "notice"] ELSE Idle

RecordViolation(r) ==
    LET j == req[r]
        action == Tier(j.prior)
    IN
    /\ At(r, "recordViolation")
    /\ violations' = [violations EXCEPT ![j.user] = Append(@, action)]
    /\ req' = [req EXCEPT ![r] =
                  CASE action = "TEMP_RESTRICTION" -> [j EXCEPT !.step = "restrict"]
                    [] action = "MODERATOR_REVIEW" -> [j EXCEPT !.step = "raiseFlag"]
                    [] OTHER -> FinishBlocked(j)]
    /\ UNCHANGED <<convs, clock, messages, forwarded, notices, restrictions, flags, horizon, cut>>

TempRestrict(r) ==
    /\ At(r, "restrict")
    /\ restrictions' = [restrictions EXCEPT ![req[r].user] = Append(@, "timed")]
    /\ req' = [req EXCEPT ![r] = FinishBlocked(req[r])]
    /\ UNCHANGED <<convs, clock, messages, forwarded, notices, violations, flags, horizon, cut>>

RaiseFlag(r) ==
    /\ At(r, "raiseFlag")
    /\ flags' = flags \cup {req[r].msg}
    /\ req' = [req EXCEPT ![r] = FinishBlocked(req[r])]
    /\ UNCHANGED <<convs, clock, messages, forwarded, notices, violations, restrictions, horizon, cut>>

FlagConversation(r) ==
    /\ At(r, "flagConversation")
    /\ convs' = [convs EXCEPT ![req[r].conv].flagged = TRUE]
    /\ Done(r)
    /\ UNCHANGED <<clock, messages, forwarded, notices, moderationVars, horizon, cut>>

Notice(r) ==
    /\ At(r, "notice")
    /\ notices' = notices \cup {<<req[r].user, "blocked">>}
    /\ Done(r)
    /\ UNCHANGED <<convs, clock, messages, forwarded, moderationVars, horizon, cut>>

(***************************************************************************)
(* The accepted path: store, forward to the recipient's phone, mark, touch *)
(* the conversation.                                                       *)
(***************************************************************************)
Store(r) ==
    LET j == req[r] IN
    /\ At(r, "store")
    /\ Insert(r, IF j.op = "compose" THEN "QUEUED" ELSE "RECEIVED")
    /\ req' = [req EXCEPT
           ![r].step = IF Recipient(j.conv, j.user) \in Reachable THEN "send" ELSE "touch",
           ![r].msg = Len(messages) + 1]
    /\ UNCHANGED <<convs, clock, forwarded, notices, moderationVars, horizon, cut>>

\* Mutant: the send is skipped for texts that arrived by SMS.
SendComposedOnly(r) ==
    /\ At(r, "send")
    /\ forwarded' = IF req[r].op = "compose" THEN forwarded \cup {req[r].msg} ELSE forwarded
    /\ IF req[r].op = "compose" THEN Goto(r, "markSent") ELSE Goto(r, "touch")
    /\ UNCHANGED <<convs, clock, messages, notices, moderationVars, horizon, cut>>

Send(r) ==
    /\ At(r, "send")
    /\ forwarded' = forwarded \cup {req[r].msg}
    /\ Goto(r, "markSent")
    /\ UNCHANGED <<convs, clock, messages, notices, moderationVars, horizon, cut>>

\* compose keeps the send's provider id; ingestInbound keeps the inbound one.
MarkSent(r) ==
    LET j == req[r] IN
    /\ At(r, "markSent")
    /\ messages' = IF j.op = "compose"
                   THEN [messages EXCEPT ![j.msg].status = "SENT", ![j.msg].pid = j.msg]
                   ELSE [messages EXCEPT ![j.msg].status = "DELIVERED"]
    /\ Goto(r, "touch")
    /\ UNCHANGED <<convs, clock, forwarded, notices, moderationVars, horizon, cut>>

\* Mutant: any first answer to an inquiry activates it, the tenant's too.
TouchByAnyone(r) ==
    LET j == req[r] IN
    /\ At(r, "touch")
    /\ clock' = clock + 1
    /\ convs' = [convs EXCEPT ![j.conv].lastMessageAt = clock + 1,
           ![j.conv].status = IF j.snap.status = "NEW_INQUIRY" THEN "ACTIVE" ELSE @]
    /\ Done(r)
    /\ UNCHANGED <<messages, forwarded, notices, moderationVars, horizon, cut>>

\* Mutant: the status is written back from the snapshot when nothing changes it.
TouchWritesSnapshot(r) ==
    LET j == req[r]
        becameActive == j.snap.status = "NEW_INQUIRY" /\ j.user # Tenant[j.conv]
    IN
    /\ At(r, "touch")
    /\ clock' = clock + 1
    /\ convs' = [convs EXCEPT ![j.conv].lastMessageAt = clock + 1,
           ![j.conv].status = IF becameActive THEN "ACTIVE" ELSE j.snap.status]
    /\ Done(r)
    /\ UNCHANGED <<messages, forwarded, notices, moderationVars, horizon, cut>>

\* becameActive comes from the snapshot, not from the row being updated.
Touch(r) ==
    LET j == req[r]
        becameActive == j.snap.status = "NEW_INQUIRY" /\ j.user # Tenant[j.conv]
    IN
    /\ At(r, "touch")
    /\ clock' = clock + 1
    /\ convs' = [convs EXCEPT ![j.conv].lastMessageAt = clock + 1,
                              ![j.conv].status = IF becameActive THEN "ACTIVE" ELSE @]
    /\ Done(r)
    /\ UNCHANGED <<messages, forwarded, notices, moderationVars, horizon, cut>>

(***************************************************************************)
(* recordDeliveryStatus: the carrier reports on a send, any number of      *)
(* times and in any order; a report whose id matches no row is dropped.    *)
(***************************************************************************)
BeginCallback(r, id, s) ==
    /\ At(r, "idle")
    /\ \E m \in Rows :
          /\ messages[m].pid = id
          /\ req' = [req EXCEPT ![r] = [step |-> "applyStatus", msg |-> m, status |-> s]]
    /\ UNCHANGED <<convs, clock, messages, forwarded, notices, moderationVars, horizon, cut>>

ApplyStatus(r) ==
    /\ At(r, "applyStatus")
    /\ messages' = [messages EXCEPT ![req[r].msg].status = mapToMessageStatus(req[r].status)]
    /\ Done(r)
    /\ UNCHANGED <<convs, clock, forwarded, notices, moderationVars, horizon, cut>>

(***************************************************************************)
(* Staff, time and faults                                                  *)
(***************************************************************************)
ImposeRestriction(u, kind) ==
    /\ \A v \in User : Len(restrictions[v]) < MaxRestrictions
    /\ restrictions' = [restrictions EXCEPT ![u] = Append(@, kind)]
    /\ UNCHANGED <<convs, clock, messages, forwarded, notices, violations, flags, horizon, cut, req>>

LiftRestriction(u, i) ==
    /\ restrictions' = [restrictions EXCEPT ![u][i] = "over"]
    /\ UNCHANGED <<convs, clock, messages, forwarded, notices, violations, flags, horizon, cut, req>>

\* endsAt passes.
RestrictionExpires(u, i) ==
    /\ restrictions[u][i] = "timed"
    /\ restrictions' = [restrictions EXCEPT ![u][i] = "over"]
    /\ UNCHANGED <<convs, clock, messages, forwarded, notices, violations, flags, horizon, cut, req>>

\* HISTORY_LOOKBACK_MINUTES pass without a message.  Bound: only when that
\* takes a half out of the window; nothing else depends on the horizon.
HistoryAges ==
    /\ \E m \in Rows : m > horizon /\ messages[m].content = "half"
    /\ horizon' = Len(messages)
    /\ UNCHANGED <<convs, clock, messages, forwarded, notices, moderationVars, cut, req>>

\* A database or provider call throws, or the process dies: no rollback.
Abort(r) ==
    /\ Faults /\ ~At(r, "idle")
    /\ Done(r)
    /\ cut' = IF At(r, "applyStatus") THEN cut ELSE cut \cup ({req[r].msg} \cap Rows)
    /\ UNCHANGED <<convs, clock, messages, forwarded, notices, moderationVars, horizon>>

-----------------------------------------------------------------------------
Arrival(r) ==
    \/ \E c \in Conv, u \in Writer, k \in Contents : BeginCompose(r, c, u, k)
    \/ \E p \in Inbound : BeginIngest(r, Text[p].conv, Text[p].user, Text[p].content, p)
    \/ \E id \in forwarded, s \in Reports : BeginCallback(r, id, s)

Serve(r) ==
    \/ CheckRestriction(r) \/ Evaluate(r)
    \/ Store(r) \/ StoreBlocked(r) \/ InsertFails(r)
    \/ CountPrior(r) \/ RecordViolation(r) \/ TempRestrict(r) \/ RaiseFlag(r)
    \/ FlagConversation(r) \/ Notice(r)
    \/ Send(r) \/ MarkSent(r) \/ Touch(r) \/ ApplyStatus(r)

Staff ==
    \E u \in User :
        \/ \E kind \in {"timed", "indefinite"} : ImposeRestriction(u, kind)
        \/ \E i \in DOMAIN restrictions[u] : LiftRestriction(u, i) \/ RestrictionExpires(u, i)

Next ==
    \/ \E r \in Slot : Arrival(r) \/ Serve(r) \/ Abort(r)
    \/ Staff
    \/ HistoryAges

Spec == Init /\ [][Next]_vars

-----------------------------------------------------------------------------
(* Properties *)

\* Every row, request and sanction has the shape the schema gives it.
TypeOK ==
    /\ convs \in [Conv -> ConvRow] /\ clock \in Nat
    /\ messages \in Seq(MessageRow)
    /\ forwarded \subseteq Rows /\ flags \subseteq Rows
    /\ notices \subseteq User \X {"restricted", "blocked"}
    /\ violations \in [User -> Seq(ViolationAction)]
    /\ restrictions \in [User -> Seq(RestrictionRow)]
    /\ horizon \in Nat /\ cut \subseteq Rows
    /\ req \in [Slot -> {Idle} \cup Job \cup Callback]

\* However a user's requests overlap, recordViolationAndEscalate never punishes
\* harder than the record allows: the i-th violation is at most of tier i, and
\* a moderator is only called in after four of them.
SanctionsEarned ==
    /\ \A u \in User : \A i \in DOMAIN violations[u] :
          \E prior \in 0..(i - 1) : violations[u][i] = Tier(prior)
    /\ \A m \in flags : Len(violations[messages[m].sender]) >= 4

\* The gate in front of the relay: a message the moderation blocked was never
\* handed to the SMS provider, and a status that speaks of a send belongs to a
\* message that was.
GateHolds ==
    /\ \A m \in forwarded : messages[m].status # "BLOCKED"
    /\ \A m \in Rows :
          messages[m].status \in {"SENT", "DELIVERED", "FAILED", "UNDELIVERABLE"}
              => m \in forwarded

\* Neither a later request nor any carrier callback turns a blocked message
\* into a visible one (listForConversation hides exactly the BLOCKED rows).
BlockedStaysBlocked ==
    [][\A m \in Rows : messages[m].status = "BLOCKED" => messages'[m].status = "BLOCKED"]_vars

\* However often and however concurrently the carrier delivers a text, it
\* becomes at most one message (ingestInbound: idempotent on providerMessageId).
OneRowPerText ==
    \A m, n \in Rows : messages[m].pid \in Inbound /\ messages[m].pid = messages[n].pid => m = n

SameThread(m, n) ==
    /\ messages[m].conv = messages[n].conv /\ messages[m].sender = messages[n].sender
    /\ messages[m].status # "BLOCKED" /\ messages[n].status # "BLOCKED"

\* m and n are two halves that both got past the gate, m still in n's window.
SplitPair(m, n, last) ==
    /\ messages[m].content = "half" /\ messages[n].content = "half"
    /\ SameThread(m, n)
    /\ m > messages[n].cutoff
    /\ Cardinality({i \in (m + 1)..last : SameThread(i, n)}) < Lookback

\* Contact information split over two messages slips past history analysis
\* only when the second was evaluated before the first was stored.
SplitNeedsOverlap ==
    \A n \in Rows : \A m \in 1..messages[n].seen : ~SplitPair(m, n, messages[n].seen)

\* A conversation is ACTIVE only after its landlord wrote something the gate
\* let through, whatever tenants and blocked replies do (showings, which write the
\* other statuses, are not part of this module).
ActiveNeedsReply ==
    \A c \in Conv : convs[c].status = "ACTIVE" =>
        \E m \in Rows : /\ messages[m].conv = c /\ messages[m].sender = Landlord[c]
                        /\ messages[m].status # "BLOCKED"

\* Once no request is running, a conversation its landlord answered has left
\* NEW_INQUIRY, although each request decides from its own stale snapshot; only a
\* request that died between storing the answer and the last write leaves it there.
QuietReplyActivates ==
    Busy = {} => \A m \in Rows \ cut :
        /\ messages[m].status # "BLOCKED"
        /\ messages[m].sender = Landlord[messages[m].conv]
        => convs[messages[m].conv].status # "NEW_INQUIRY"

\* A stored text that has not reached its recipient's phone is still in the hands of
\* the request that stored it, unless that request died: every other delivery of the
\* text is answered from the row, so nobody else would ever forward it.
NoTextStranded ==
    \A m \in Rows \ cut :
        /\ messages[m].status = "RECEIVED"
        /\ Recipient(messages[m].conv, messages[m].sender) \in Reachable
        => \E r \in Busy : req[r].step \in {"send", "markSent"} /\ req[r].msg = m

=============================================================================
