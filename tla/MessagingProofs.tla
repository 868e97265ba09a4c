--------------------------- MODULE MessagingProofs ---------------------------
(***************************************************************************)
(* Theorems about Messaging for every value of its constants: any number   *)
(* of requests, users, conversations and texts, with or without faults.    *)
(***************************************************************************)
EXTENDS Messaging, FiniteSetTheorems, TLAPS

\* A request that has inserted its row, or that applies a carrier report.
AfterStore == {"countPrior", "recordViolation", "restrict", "raiseFlag",
               "flagConversation", "notice", "send", "markSent", "touch", "applyStatus"}

\* The row such a request goes on to use is in the table (rows are never deleted).
RowsKept == \A r \in Slot : req[r].step \in AfterStore => req[r].msg \in Rows

TypeInv == TypeOK /\ RowsKept

-----------------------------------------------------------------------------
(* Lemmas about requests and rows *)

\* A slot inside a compose or ingest request holds a full request record.
LEMMA JobAt ==
    ASSUME TypeOK, NEW r \in Slot, req[r].step \in ComposeStep
    PROVE  req[r] \in Job
  BY DEF TypeOK, ComposeStep, Idle, Callback

\* A slot that serves a delivery report holds the report.
LEMMA CallbackAt ==
    ASSUME TypeOK, NEW r \in Slot, At(r, "applyStatus")
    PROVE  req[r] \in Callback
<1>1. req[r] \in {Idle} \cup Job \cup Callback
  BY DEF TypeOK
<1>2. req[r] # Idle
  BY DEF At, Idle
<1>3. req[r] \notin Job
  <2> SUFFICES ASSUME req[r] \in Job PROVE FALSE
    OBVIOUS
  <2>1. req[r].step \in ComposeStep
    BY DEF Job
  <2> QED BY <2>1 DEF ComposeStep, At
<1> QED BY <1>1, <1>2, <1>3

\* A new value in one slot keeps the slots typed and the rows they refer to.
LEMMA SlotTyped ==
    ASSUME TypeInv, NEW r \in Slot, NEW j \in {Idle} \cup Job \cup Callback,
           req' = [req EXCEPT ![r] = j],
           Rows \subseteq Rows',
           j.step \in AfterStore => j.msg \in Rows'
    PROVE  /\ req' \in [Slot -> {Idle} \cup Job \cup Callback]
           /\ RowsKept'
  BY DEF TypeInv, TypeOK, RowsKept

\* What a tier and a mapped status can be.
LEMMA TierType == ASSUME NEW n \in Nat PROVE Tier(n) \in ViolationAction
  BY DEF Tier, ViolationAction

\* The carrier's statuses map to statuses of the schema.
LEMMA MapType == ASSUME NEW s \in CarrierStatus PROVE mapToMessageStatus(s) \in MessageStatus
  BY DEF mapToMessageStatus, MessageStatus, CarrierStatus

\* A blocked message leaves its slot idle or with the last step of a request.
LEMMA FinishType ==
    ASSUME NEW j \in Job
    PROVE  FinishBlocked(j) \in {Idle} \cup Job
  BY DEF FinishBlocked, Job, ComposeStep

\* Insert appends one typed row and leaves the earlier ones alone.
LEMMA InsertType ==
    ASSUME TypeOK, NEW r \in Slot, req[r] \in Job, NEW status \in MessageStatus,
           Insert(r, status)
    PROVE  /\ messages' \in Seq(MessageRow)
           /\ Len(messages') = Len(messages) + 1
           /\ DOMAIN messages' = 1..(Len(messages) + 1)
           /\ \A m \in Rows : messages'[m] = messages[m]
           /\ messages'[Len(messages) + 1] =
                 [conv |-> req[r].conv, sender |-> req[r].user, content |-> req[r].content,
                  status |-> status, pid |-> req[r].pid, seen |-> req[r].seen,
                  cutoff |-> req[r].cutoff]
<1> DEFINE row == [conv |-> req[r].conv, sender |-> req[r].user, content |-> req[r].content,
                   status |-> status, pid |-> req[r].pid, seen |-> req[r].seen,
                   cutoff |-> req[r].cutoff]
<1>1. row \in MessageRow
  BY DEF Job, MessageRow
<1>2. messages \in Seq(MessageRow) /\ messages' = Append(messages, row)
  BY DEF TypeOK, Insert
<1> HIDE DEF row
<1>3. QED BY <1>1, <1>2 DEF Rows, row

-----------------------------------------------------------------------------
(* Type correctness *)

\* The initial states are well-formed.
LEMMA InitTyped == Init => TypeInv
  BY MessagingAssumption
  DEF Init, TypeInv, TypeOK, RowsKept, ConvRow, ConvStatus, Rows, AfterStore, Idle

\* A new request is typed and refers to no row yet.
LEMMA NewJobType ==
    ASSUME TypeOK, NEW o \in {"compose", "ingest"}, NEW c \in Conv, NEW u \in User,
           NEW k \in ContentKind, NEW p \in ProviderId
    PROVE  NewJob(o, c, u, k, p) \in Job
  BY DEF TypeOK, NewJob, Job, ComposeStep

\* Requests that arrive keep the state well-formed.
LEMMA ArrivalTyped ==
    ASSUME TypeInv, NEW r \in Slot, Arrival(r)
    PROVE  TypeInv'
<1>1. CASE \E c \in Conv, u \in Writer, k \in Contents : BeginCompose(r, c, u, k)
  <2>1. PICK c \in Conv, u \in Writer, k \in Contents : BeginCompose(r, c, u, k)
    BY <1>1
  <2>2. u \in User /\ k \in ContentKind /\ NoId \in ProviderId
    BY <2>1, MessagingAssumption DEF NoId, ProviderId
  <2>3. NewJob("compose", c, u, k, NoId) \in Job
    BY <2>2, NewJobType DEF TypeInv
  <2>4. req' \in [Slot -> {Idle} \cup Job \cup Callback] /\ RowsKept'
    BY <2>1, <2>3, SlotTyped DEF BeginCompose, NewJob, AfterStore, Rows
  <2> QED BY <2>1, <2>4 DEF BeginCompose, moderationVars, TypeInv, TypeOK, Rows
<1>2. CASE \E p \in Inbound : BeginIngest(r, Text[p].conv, Text[p].user, Text[p].content, p)
  <2>1. PICK p \in Inbound : BeginIngest(r, Text[p].conv, Text[p].user, Text[p].content, p)
    BY <1>2
  <2>2. /\ Text[p].conv \in Conv /\ Text[p].user \in User
        /\ Text[p].content \in ContentKind /\ p \in ProviderId
    BY MessagingAssumption DEF TextRow, ProviderId
  <2>3. NewJob("ingest", Text[p].conv, Text[p].user, Text[p].content, p) \in Job
    BY <2>2, NewJobType DEF TypeInv
  <2>4. req' \in [Slot -> {Idle} \cup Job \cup Callback] /\ RowsKept'
    BY <2>1, <2>3, SlotTyped DEF BeginIngest, NewJob, AfterStore, Rows
  <2> QED BY <2>1, <2>4 DEF BeginIngest, moderationVars, TypeInv, TypeOK, Rows
<1>3. CASE \E id \in forwarded, s \in Reports : BeginCallback(r, id, s)
  <2>1. PICK id \in forwarded, s \in Reports : BeginCallback(r, id, s)
    BY <1>3
  <2>2. PICK m \in Rows : req' = [req EXCEPT ![r] =
                                      [step |-> "applyStatus", msg |-> m, status |-> s]]
    BY <2>1 DEF BeginCallback
  <2>3. [step |-> "applyStatus", msg |-> m, status |-> s] \in Callback
    BY <2>2, MessagingAssumption DEF Callback, Rows, TypeInv, TypeOK
  <2>4. req' \in [Slot -> {Idle} \cup Job \cup Callback] /\ RowsKept'
    BY <2>1, <2>2, <2>3, SlotTyped DEF BeginCallback, Rows
  <2> QED BY <2>1, <2>4 DEF BeginCallback, moderationVars, TypeInv, TypeOK, Rows
<1> QED BY <1>1, <1>2, <1>3 DEF Arrival

\* The steps of the gate before anything is stored.
LEMMA GateTyped ==
    ASSUME TypeInv, NEW r \in Slot,
           CheckRestriction(r) \/ Evaluate(r) \/ InsertFails(r) \/ Abort(r)
    PROVE  TypeInv'
<1>1. CASE CheckRestriction(r)
  <2>1. req[r] \in Job
    BY <1>1, JobAt DEF TypeInv, CheckRestriction, At, ComposeStep
  <2>2. PICK j \in {Idle, [req[r] EXCEPT !.step = "evaluate"]} : req' = [req EXCEPT ![r] = j]
    BY <1>1 DEF CheckRestriction, Goto, Done
  <2>3. j \in {Idle} \cup Job /\ j.step \in {"idle", "evaluate"}
    BY <2>1 DEF Job, ComposeStep, Idle
  <2>4. req' \in [Slot -> {Idle} \cup Job \cup Callback] /\ RowsKept'
    BY <1>1, <2>2, <2>3, SlotTyped DEF CheckRestriction, AfterStore, Rows
  <2>5. notices' \subseteq User \X {"restricted", "blocked"}
    BY <1>1, <2>1 DEF CheckRestriction, TypeInv, TypeOK, Job
  <2> QED BY <1>1, <2>4, <2>5 DEF CheckRestriction, moderationVars, TypeInv, TypeOK, Rows
<1>2. CASE Evaluate(r)
  <2> DEFINE next == IF Blocks(req[r].conv, req[r].user, req[r].content)
                     THEN "storeBlocked" ELSE "store"
             j == [req[r] EXCEPT !.step = next, !.seen = Len(messages), !.cutoff = horizon]
  <2>1. req[r] \in Job
    BY <1>2, JobAt DEF TypeInv, Evaluate, At, ComposeStep
  <2>2. next \in {"storeBlocked", "store"}
    OBVIOUS
  <2>3. req' = [req EXCEPT ![r] = j]
    BY <1>2 DEF Evaluate
  <2> HIDE DEF next
  <2>4. Len(messages) \in Nat /\ horizon \in Nat
    BY DEF TypeInv, TypeOK
  <2>5. j \in Job /\ j.step = next
    BY <2>1, <2>2, <2>4 DEF Job, ComposeStep
  <2> HIDE DEF j
  <2>6. req' \in [Slot -> {Idle} \cup Job \cup Callback] /\ RowsKept'
    BY <1>2, <2>2, <2>3, <2>5, SlotTyped DEF Evaluate, AfterStore, Rows
  <2> QED BY <1>2, <2>6 DEF Evaluate, moderationVars, TypeInv, TypeOK, Rows
<1>3. CASE InsertFails(r) \/ Abort(r)
  <2>1. req' = [req EXCEPT ![r] = Idle]
    BY <1>3 DEF InsertFails, Abort, Done
  <2>2. req' \in [Slot -> {Idle} \cup Job \cup Callback] /\ RowsKept'
    BY <1>3, <2>1, SlotTyped DEF InsertFails, Abort, AfterStore, Rows, Idle
  <2>3. cut' \subseteq Rows
    BY <1>3 DEF InsertFails, Abort, TypeInv, TypeOK
  <2> QED BY <1>3, <2>2, <2>3 DEF InsertFails, Abort, moderationVars, TypeInv, TypeOK, Rows
<1> QED BY <1>1, <1>2, <1>3

\* The two inserts.
LEMMA StoreTyped ==
    ASSUME TypeInv, NEW r \in Slot, Store(r) \/ StoreBlocked(r)
    PROVE  TypeInv'
<1>1. req[r] \in Job
  BY JobAt DEF TypeInv, Store, StoreBlocked, At, ComposeStep
<1>2. PICK status \in MessageStatus : Insert(r, status)
  BY DEF Store, StoreBlocked, MessageStatus
<1>3. /\ messages' \in Seq(MessageRow)
      /\ DOMAIN messages' = 1..(Len(messages) + 1)
  BY <1>1, <1>2, InsertType DEF TypeInv
<1>4. Rows = 1..Len(messages) /\ Rows' = 1..(Len(messages) + 1) /\ Len(messages) \in Nat
  BY <1>3 DEF Rows, TypeInv, TypeOK
<1>5. PICK next \in {"countPrior", "send", "touch"} :
         req' = [req EXCEPT ![r] = [req[r] EXCEPT !.step = next, !.msg = Len(messages) + 1]]
  BY DEF Store, StoreBlocked
<1>6. [req[r] EXCEPT !.step = next, !.msg = Len(messages) + 1] \in Job
  <2>1. next \in ComposeStep /\ Len(messages) + 1 \in Nat
    BY <1>4 DEF ComposeStep
  <2> QED BY <1>1, <2>1 DEF Job
<1>7. req' \in [Slot -> {Idle} \cup Job \cup Callback] /\ RowsKept'
  <2>1. [req[r] EXCEPT !.step = next, !.msg = Len(messages) + 1].msg \in Rows'
    BY <1>1, <1>4 DEF Job
  <2>2. Rows \subseteq Rows'
    BY <1>4
  <2> QED BY <1>5, <1>6, <2>1, <2>2, SlotTyped
<1>8. forwarded' \subseteq Rows' /\ flags' \subseteq Rows' /\ cut' \subseteq Rows'
  BY <1>4 DEF Store, StoreBlocked, moderationVars, TypeInv, TypeOK
<1> QED
  BY <1>3, <1>7, <1>8 DEF Store, StoreBlocked, moderationVars, TypeInv, TypeOK

\* Recording a violation and the sanction that follows.
LEMMA EscalationTyped ==
    ASSUME TypeInv, NEW r \in Slot,
           CountPrior(r) \/ RecordViolation(r) \/ TempRestrict(r) \/ RaiseFlag(r)
    PROVE  TypeInv'
<1>1. req[r] \in Job /\ req[r].msg \in Rows /\ req[r].user \in User
  <2>1. req[r].step \in ComposeStep /\ req[r].step \in AfterStore
    BY DEF CountPrior, RecordViolation, TempRestrict, RaiseFlag, At, ComposeStep, AfterStore
  <2>2. req[r] \in Job
    BY <2>1, JobAt DEF TypeInv
  <2> QED BY <2>1, <2>2 DEF TypeInv, RowsKept, Job
<1>2. FinishBlocked(req[r]) \in {Idle} \cup Job
  BY <1>1, FinishType
<1>3. FinishBlocked(req[r]).step \in AfterStore => FinishBlocked(req[r]).msg \in Rows
  BY <1>1 DEF FinishBlocked, Idle, AfterStore, Job
<1>4. CASE CountPrior(r)
  <2> DEFINE j == [req[r] EXCEPT !.step = "recordViolation",
                                 !.prior = Len(violations[req[r].user])]
  <2>1. req' = [req EXCEPT ![r] = j]
    BY <1>4 DEF CountPrior
  <2>2. Len(violations[req[r].user]) \in Nat
    BY <1>1 DEF TypeInv, TypeOK
  <2>3. j \in Job /\ j.msg = req[r].msg
    BY <1>1, <2>2 DEF Job, ComposeStep
  <2> HIDE DEF j
  <2>4. req' \in [Slot -> {Idle} \cup Job \cup Callback] /\ RowsKept'
    BY <1>1, <1>4, <2>1, <2>3, SlotTyped DEF CountPrior, Rows
  <2> QED BY <1>4, <2>4 DEF CountPrior, moderationVars, TypeInv, TypeOK, Rows
<1>5. CASE RecordViolation(r)
  <2>1. Tier(req[r].prior) \in ViolationAction
    BY <1>1, TierType DEF Job
  <2>2. violations' \in [User -> Seq(ViolationAction)]
    BY <1>1, <1>5, <2>1 DEF RecordViolation, TypeInv, TypeOK
  <2>3. PICK j \in {FinishBlocked(req[r]), [req[r] EXCEPT !.step = "restrict"],
                    [req[r] EXCEPT !.step = "raiseFlag"]} : req' = [req EXCEPT ![r] = j]
    BY <1>5 DEF RecordViolation
  <2>4. j \in {Idle} \cup Job /\ (j.step \in AfterStore => j.msg \in Rows)
    BY <1>1, <1>2, <1>3, <2>3 DEF Job, ComposeStep
  <2>5. req' \in [Slot -> {Idle} \cup Job \cup Callback] /\ RowsKept'
    BY <1>5, <2>3, <2>4, SlotTyped DEF RecordViolation, Rows
  <2> QED BY <1>5, <2>2, <2>5 DEF RecordViolation, TypeInv, TypeOK, Rows
<1>6. CASE TempRestrict(r) \/ RaiseFlag(r)
  <2>1. req' = [req EXCEPT ![r] = FinishBlocked(req[r])]
    BY <1>6 DEF TempRestrict, RaiseFlag
  <2>2. req' \in [Slot -> {Idle} \cup Job \cup Callback] /\ RowsKept'
    BY <1>2, <1>3, <1>6, <2>1, SlotTyped DEF TempRestrict, RaiseFlag, Rows
  <2>3. restrictions' \in [User -> Seq(RestrictionRow)]
    <3>1. CASE TempRestrict(r)
      <4>1. "timed" \in RestrictionRow
        BY DEF RestrictionRow
      <4>2. restrictions' = [restrictions EXCEPT ![req[r].user] = Append(@, "timed")]
        BY <3>1 DEF TempRestrict
      <4> QED BY <1>1, <4>1, <4>2 DEF TypeInv, TypeOK
    <3>2. CASE RaiseFlag(r)
      BY <3>2 DEF RaiseFlag, TypeInv, TypeOK
    <3> QED BY <1>6, <3>1, <3>2
  <2>4. flags' \subseteq Rows
    BY <1>1, <1>6 DEF TempRestrict, RaiseFlag, TypeInv, TypeOK
  <2> QED BY <1>6, <2>2, <2>3, <2>4 DEF TempRestrict, RaiseFlag, TypeInv, TypeOK, Rows
<1> QED BY <1>4, <1>5, <1>6

\* An update of a conversation's time and status.
LEMMA ConvUpdate ==
    ASSUME NEW f \in [Conv -> ConvRow], NEW c \in Conv, NEW t \in Nat, NEW s \in ConvStatus
    PROVE  [f EXCEPT ![c].lastMessageAt = t, ![c].status = s] \in [Conv -> ConvRow]
<1> DEFINE g == [f EXCEPT ![c].lastMessageAt = t]
<1>1. g \in [Conv -> ConvRow]
  BY DEF ConvRow
<1>2. [g EXCEPT ![c].status = s] \in [Conv -> ConvRow]
  <2> HIDE DEF g
  <2> QED BY <1>1 DEF ConvRow
<1> QED BY <1>2

\* What a request does once its row, or its refusal, is on record.
LEMMA FinishTyped ==
    ASSUME TypeInv, NEW r \in Slot,
           FlagConversation(r) \/ Notice(r) \/ Send(r) \/ Touch(r)
    PROVE  TypeInv'
<1>1. req[r] \in Job /\ req[r].msg \in Rows /\ req[r].user \in User /\ req[r].conv \in Conv
  <2>1. req[r].step \in ComposeStep /\ req[r].step \in AfterStore
    BY DEF FlagConversation, Notice, Send, Touch, At, ComposeStep, AfterStore
  <2>2. req[r] \in Job
    BY <2>1, JobAt DEF TypeInv
  <2> QED BY <2>1, <2>2 DEF TypeInv, RowsKept, Job
<1>2. PICK j \in {Idle, [req[r] EXCEPT !.step = "markSent"]} : req' = [req EXCEPT ![r] = j]
  BY DEF FlagConversation, Notice, Send, Touch, Done, Goto
<1>3. j \in {Idle} \cup Job /\ (j.step \in AfterStore => j.msg \in Rows)
  BY <1>1 DEF Job, ComposeStep, Idle, AfterStore
<1>4. req' \in [Slot -> {Idle} \cup Job \cup Callback] /\ RowsKept'
  BY <1>2, <1>3, SlotTyped DEF FlagConversation, Notice, Send, Touch, Rows
<1>5. CASE FlagConversation(r)
  <2>1. convs' \in [Conv -> ConvRow]
    BY <1>1, <1>5 DEF FlagConversation, TypeInv, TypeOK, ConvRow
  <2> QED BY <1>4, <1>5, <2>1 DEF FlagConversation, moderationVars, TypeInv, TypeOK, Rows
<1>6. CASE Notice(r)
  BY <1>1, <1>4, <1>6 DEF Notice, moderationVars, TypeInv, TypeOK, Rows
<1>7. CASE Send(r)
  BY <1>1, <1>4, <1>7 DEF Send, moderationVars, TypeInv, TypeOK, Rows
<1>8. CASE Touch(r)
  <2>1. clock' = clock + 1 /\ clock' \in Nat
    BY <1>8 DEF Touch, TypeInv, TypeOK
  <2> DEFINE c == req[r].conv
             becameActive == req[r].snap.status = "NEW_INQUIRY" /\ req[r].user # Tenant[c]
             status == IF becameActive THEN "ACTIVE" ELSE convs[c].status
  <2>2. convs' = [convs EXCEPT ![c].lastMessageAt = clock + 1, ![c].status = status]
    BY <1>8, Zenon DEF Touch
  <2>3. status \in ConvStatus
    BY <1>1 DEF TypeInv, TypeOK, ConvRow, ConvStatus
  <2>4. convs' \in [Conv -> ConvRow]
    <3>1. convs \in [Conv -> ConvRow] /\ c \in Conv /\ clock + 1 \in Nat
      BY <1>1, <2>1 DEF TypeInv, TypeOK
    <3> HIDE DEF c, status
    <3> QED BY <2>2, <2>3, <3>1, ConvUpdate
  <2> QED BY <1>4, <1>8, <2>1, <2>4 DEF Touch, moderationVars, TypeInv, TypeOK, Rows
<1> QED BY <1>5, <1>6, <1>7, <1>8

\* An update of one existing row.
LEMMA UpdateTyped ==
    ASSUME TypeInv, NEW m \in Rows, NEW row \in MessageRow,
           messages' = [messages EXCEPT ![m] = row]
    PROVE  messages' \in Seq(MessageRow) /\ Rows' = Rows
  BY DEF TypeInv, TypeOK, Rows

\* Steps that rewrite one message's status keep the state well-formed.
LEMMA StatusTyped ==
    ASSUME TypeInv, NEW r \in Slot, MarkSent(r) \/ ApplyStatus(r)
    PROVE  TypeInv'
<1>1. req[r].msg \in Rows /\ req[r].msg \in Nat
  <2>1. req[r].step \in AfterStore
    BY DEF MarkSent, ApplyStatus, At, AfterStore
  <2> QED BY <2>1 DEF TypeInv, TypeOK, RowsKept, Rows
<1>2. messages[req[r].msg] \in MessageRow
  BY <1>1 DEF TypeInv, TypeOK, Rows
<1>3. CASE MarkSent(r)
  <2>1. req[r] \in Job
    BY <1>3, JobAt DEF TypeInv, MarkSent, At, ComposeStep
  <2>2. PICK row \in {[messages[req[r].msg] EXCEPT !.status = "SENT", !.pid = req[r].msg],
                      [messages[req[r].msg] EXCEPT !.status = "DELIVERED"]} :
           messages' = [messages EXCEPT ![req[r].msg] = row]
    BY <1>3 DEF MarkSent
  <2>3. row \in MessageRow
    BY <1>1, <1>2 DEF MessageRow, MessageStatus, ProviderId
  <2>4. messages' \in Seq(MessageRow) /\ Rows' = Rows
    BY <1>1, <2>2, <2>3, UpdateTyped
  <2>5. /\ req' = [req EXCEPT ![r] = [req[r] EXCEPT !.step = "touch"]]
        /\ [req[r] EXCEPT !.step = "touch"] \in Job
        /\ [req[r] EXCEPT !.step = "touch"].msg \in Rows'
    BY <1>1, <1>3, <2>1, <2>4 DEF MarkSent, Goto, Job, ComposeStep
  <2>6. req' \in [Slot -> {Idle} \cup Job \cup Callback] /\ RowsKept'
    BY <2>4, <2>5, SlotTyped
  <2> QED BY <1>3, <2>4, <2>6 DEF MarkSent, moderationVars, TypeInv, TypeOK
<1>4. CASE ApplyStatus(r)
  <2>1. req[r].status \in CarrierStatus
    BY <1>4, CallbackAt DEF TypeInv, ApplyStatus, Callback
  <2>2. mapToMessageStatus(req[r].status) \in MessageStatus
    BY <2>1, MapType
  <2> DEFINE row == [messages[req[r].msg] EXCEPT !.status = mapToMessageStatus(req[r].status)]
  <2>3. row \in MessageRow
    BY <1>2, <2>2 DEF MessageRow
  <2>4. messages' = [messages EXCEPT ![req[r].msg] = row]
    BY <1>4 DEF ApplyStatus
  <2> HIDE DEF row
  <2>5. messages' \in Seq(MessageRow) /\ Rows' = Rows
    BY <1>1, <2>3, <2>4, UpdateTyped
  <2>6. req' \in [Slot -> {Idle} \cup Job \cup Callback] /\ RowsKept'
    BY <1>4, <2>5, SlotTyped DEF ApplyStatus, Done, AfterStore, Idle
  <2> QED BY <1>4, <2>5, <2>6 DEF ApplyStatus, moderationVars, TypeInv, TypeOK
<1> QED BY <1>3, <1>4

\* Staff, the passing of time, and steps that change nothing.
LEMMA EnvironmentTyped ==
    ASSUME TypeInv, Staff \/ HistoryAges \/ UNCHANGED vars
    PROVE  TypeInv'
<1>1. CASE Staff
  <2>1. PICK u \in User :
           \/ \E kind \in {"timed", "indefinite"} : ImposeRestriction(u, kind)
           \/ \E i \in DOMAIN restrictions[u] : LiftRestriction(u, i) \/ RestrictionExpires(u, i)
    BY <1>1 DEF Staff
  <2>2. restrictions[u] \in Seq(RestrictionRow)
    BY DEF TypeInv, TypeOK
  <2>3. PICK s \in Seq(RestrictionRow) : restrictions' = [restrictions EXCEPT ![u] = s]
    <3>1. CASE \E kind \in {"timed", "indefinite"} : ImposeRestriction(u, kind)
      <4>1. PICK kind \in RestrictionRow :
               restrictions' = [restrictions EXCEPT ![u] = Append(restrictions[u], kind)]
        BY <3>1 DEF ImposeRestriction, RestrictionRow
      <4>2. Append(restrictions[u], kind) \in Seq(RestrictionRow)
        BY <2>2, <4>1
      <4> QED BY <4>1, <4>2
    <3>2. CASE \E i \in DOMAIN restrictions[u] : LiftRestriction(u, i) \/ RestrictionExpires(u, i)
      <4>1. PICK i \in DOMAIN restrictions[u] :
               restrictions' = [restrictions EXCEPT ![u] = [restrictions[u] EXCEPT ![i] = "over"]]
        BY <3>2 DEF LiftRestriction, RestrictionExpires
      <4>2. [restrictions[u] EXCEPT ![i] = "over"] \in Seq(RestrictionRow)
        BY <2>2, <4>1 DEF RestrictionRow
      <4> QED BY <4>1, <4>2
    <3> QED BY <2>1, <3>1, <3>2
  <2>4. restrictions' \in [User -> Seq(RestrictionRow)]
    BY <2>3 DEF TypeInv, TypeOK
  <2> QED
    BY <2>1, <2>4 DEF ImposeRestriction, LiftRestriction, RestrictionExpires,
                      TypeInv, TypeOK, RowsKept, Rows
<1>2. CASE HistoryAges
  BY <1>2 DEF HistoryAges, moderationVars, TypeInv, TypeOK, RowsKept, Rows
<1>3. CASE UNCHANGED vars
  BY <1>3 DEF vars, TypeInv, TypeOK, RowsKept, Rows
<1> QED BY <1>1, <1>2, <1>3

\* Every step, by the lemma of its action.
LEMMA StepTyped == TypeInv /\ [Next]_vars => TypeInv'
<1> SUFFICES ASSUME TypeInv, [Next]_vars PROVE TypeInv'
  OBVIOUS
<1>1. CASE \E r \in Slot : Arrival(r) \/ Serve(r) \/ Abort(r)
  BY <1>1, ArrivalTyped, GateTyped, StoreTyped, EscalationTyped, FinishTyped, StatusTyped
  DEF Serve
<1>2. CASE Staff \/ HistoryAges \/ UNCHANGED vars
  BY <1>2, EnvironmentTyped
<1> QED BY <1>1, <1>2 DEF Next

\* Type correctness: the rows, requests and sanctions of Messaging always have
\* the shape the schema gives them, whatever the constants.
THEOREM TypeCorrect == Spec => []TypeOK
<1>1. Spec => []TypeInv
  BY InitTyped, StepTyped, PTL DEF Spec
<1>2. TypeInv => TypeOK
  BY DEF TypeInv
<1> QED BY <1>1, <1>2, PTL

-----------------------------------------------------------------------------
(***************************************************************************)
(* Sanctions.  SanctionsEarned is not inductive: it needs to know that the *)
(* count a request carries from CountPrior to RecordViolation never        *)
(* exceeds the table (violations are never deleted), that the row it would *)
(* flag is its own sender's, and that it only reaches RaiseFlag with four  *)
(* violations on record.                                                   *)
(***************************************************************************)
Owning == AfterStore \ {"applyStatus"}

CountedAtMost ==
    \A r \in Slot : At(r, "recordViolation") => req[r].prior <= Len(violations[req[r].user])

OwnRow ==
    \A r \in Slot : req[r].step \in Owning => messages[req[r].msg].sender = req[r].user

FlagDue ==
    \A r \in Slot : At(r, "raiseFlag") => Len(violations[req[r].user]) >= 4

SanctionInv == TypeInv /\ SanctionsEarned /\ CountedAtMost /\ OwnRow /\ FlagDue

\* Rows keep their sender, and only RecordViolation adds a violation.
LEMMA Monotone ==
    ASSUME TypeInv, [Next]_vars
    PROVE  /\ \A m \in Rows : m \in Rows' /\ messages'[m].sender = messages[m].sender
           /\ \/ violations' = violations
              \/ \E r \in Slot : RecordViolation(r)
<1>1. CASE \E r \in Slot : Store(r) \/ StoreBlocked(r)
  <2>1. PICK r \in Slot : Store(r) \/ StoreBlocked(r)
    BY <1>1
  <2>2. req[r] \in Job
    BY <2>1, JobAt DEF TypeInv, Store, StoreBlocked, At, ComposeStep
  <2>3. PICK status \in MessageStatus : Insert(r, status)
    BY <2>1 DEF Store, StoreBlocked, MessageStatus
  <2>4. /\ DOMAIN messages' = 1..(Len(messages) + 1)
        /\ \A m \in Rows : messages'[m] = messages[m]
    BY <2>2, <2>3, InsertType DEF TypeInv
  <2>5. Rows = 1..Len(messages) /\ Len(messages) \in Nat
    BY DEF TypeInv, TypeOK, Rows
  <2> QED BY <2>1, <2>4, <2>5 DEF Store, StoreBlocked, moderationVars, Rows
<1>2. CASE \E r \in Slot : MarkSent(r) \/ ApplyStatus(r)
  <2>1. PICK r \in Slot : MarkSent(r) \/ ApplyStatus(r)
    BY <1>2
  <2>2. messages \in Seq(MessageRow)
    BY DEF TypeInv, TypeOK
  <2>3. \A m \in Rows : m \in Rows' /\ messages'[m].sender = messages[m].sender
    <3>1. CASE MarkSent(r)
      BY <2>2, <3>1 DEF MarkSent, Rows, MessageRow
    <3>2. CASE ApplyStatus(r)
      BY <2>2, <3>2 DEF ApplyStatus, Rows, MessageRow
    <3> QED BY <2>1, <3>1, <3>2
  <2> QED BY <2>1, <2>3 DEF MarkSent, ApplyStatus, moderationVars
<1>3. CASE \E r \in Slot : RecordViolation(r)
  BY <1>3 DEF RecordViolation, Rows
<1>4. CASE \E r \in Slot : Arrival(r) \/ Abort(r) \/ CheckRestriction(r) \/ Evaluate(r)
                           \/ InsertFails(r) \/ CountPrior(r) \/ TempRestrict(r) \/ RaiseFlag(r)
                           \/ FlagConversation(r) \/ Notice(r) \/ Send(r) \/ Touch(r)
  <2>1. CASE \E r \in Slot : Arrival(r) \/ Abort(r) \/ CheckRestriction(r) \/ Evaluate(r)
    BY <2>1 DEF Arrival, BeginCompose, BeginIngest, BeginCallback, Abort, CheckRestriction,
                Evaluate, moderationVars, Rows
  <2>2. CASE \E r \in Slot : InsertFails(r) \/ CountPrior(r) \/ TempRestrict(r) \/ RaiseFlag(r)
    BY <2>2 DEF InsertFails, CountPrior, TempRestrict, RaiseFlag, moderationVars, Rows
  <2>3. CASE \E r \in Slot : FlagConversation(r) \/ Notice(r) \/ Send(r) \/ Touch(r)
    BY <2>3 DEF FlagConversation, Notice, Send, Touch, moderationVars, Rows
  <2> QED BY <1>4, <2>1, <2>2, <2>3
<1>5. CASE Staff \/ HistoryAges \/ UNCHANGED vars
  BY <1>5 DEF Staff, ImposeRestriction, LiftRestriction, RestrictionExpires, HistoryAges,
              vars, moderationVars, Rows
<1> QED BY <1>1, <1>2, <1>3, <1>4, <1>5 DEF Next, Serve

\* How a slot comes to be at the steps the invariant speaks of.
LEMMA SlotStep ==
    ASSUME TypeInv, NEW r \in Slot, Arrival(r) \/ Serve(r) \/ Abort(r)
    PROVE  /\ \A q \in Slot \ {r} : req'[q] = req[q]
           /\ req'[r].step \in Owning =>
                 /\ req'[r].user = req[r].user
                 /\ \/ req[r].step \in Owning /\ req'[r].msg = req[r].msg
                    \/ (Store(r) \/ StoreBlocked(r)) /\ req'[r].msg = Len(messages) + 1
           /\ req'[r].step = "recordViolation" =>
                 violations' = violations /\ req'[r].prior = Len(violations[req[r].user])
           /\ req'[r].step = "raiseFlag" => RecordViolation(r) /\ req[r].prior > 2
<1>1. req \in [Slot -> {Idle} \cup Job \cup Callback]
  BY DEF TypeInv, TypeOK
<1>2. CASE Arrival(r)
  BY <1>1, <1>2 DEF Arrival, BeginCompose, BeginIngest, BeginCallback, NewJob, Owning, AfterStore
<1>3. CASE CheckRestriction(r)
  <2>1. req[r] \in Job
    BY <1>3, JobAt DEF TypeInv, CheckRestriction, At, ComposeStep
  <2> QED BY <1>1, <1>3, <2>1 DEF CheckRestriction, Goto, Done, Idle, Owning, AfterStore, Job
<1>4. CASE Evaluate(r) \/ InsertFails(r) \/ Abort(r) \/ FlagConversation(r) \/ Notice(r)
           \/ Touch(r) \/ ApplyStatus(r)
  <2>1. \A q \in Slot \ {r} : req'[q] = req[q]
    BY <1>1, <1>4 DEF Evaluate, InsertFails, Abort, FlagConversation, Notice, Touch,
                      ApplyStatus, Done
  <2>2. req'[r].step \in {"idle", "store", "storeBlocked"}
    <3>1. CASE Evaluate(r)
      <4>1. req[r] \in Job
        BY <3>1, JobAt DEF TypeInv, Evaluate, At, ComposeStep
      <4> QED BY <1>1, <3>1, <4>1 DEF Evaluate, Job
    <3>2. CASE ~Evaluate(r)
      BY <1>1, <1>4, <3>2 DEF InsertFails, Abort, FlagConversation, Notice, Touch,
                              ApplyStatus, Done, Idle
    <3> QED BY <3>1, <3>2
  <2> QED BY <2>1, <2>2 DEF Owning, AfterStore
<1>5. CASE Store(r) \/ StoreBlocked(r)
  <2>1. req[r] \in Job
    BY <1>5, JobAt DEF TypeInv, Store, StoreBlocked, At, ComposeStep
  <2>2. PICK next \in {"countPrior", "send", "touch"} :
           req' = [req EXCEPT ![r] = [req[r] EXCEPT !.step = next, !.msg = Len(messages) + 1]]
    BY <1>5 DEF Store, StoreBlocked
  <2> QED BY <1>1, <1>5, <2>1, <2>2 DEF Job
<1>6. CASE CountPrior(r)
  <2>1. req[r] \in Job
    BY <1>6, JobAt DEF TypeInv, CountPrior, At, ComposeStep
  <2> QED BY <1>1, <1>6, <2>1 DEF CountPrior, At, Owning, AfterStore, Job, moderationVars
<1>7. CASE Send(r) \/ MarkSent(r)
  <2>1. req[r] \in Job
    BY <1>7, JobAt DEF TypeInv, Send, MarkSent, At, ComposeStep
  <2> QED BY <1>1, <1>7, <2>1 DEF Send, MarkSent, Goto, At, Owning, AfterStore, Job
<1>8. CASE RecordViolation(r) \/ TempRestrict(r) \/ RaiseFlag(r)
  <2>1. req[r] \in Job /\ req[r].step \in Owning
    BY <1>8, JobAt DEF TypeInv, RecordViolation, TempRestrict, RaiseFlag, At, ComposeStep,
                       Owning, AfterStore
  <2>2. \A q \in Slot \ {r} : req'[q] = req[q]
    BY <1>1, <1>8 DEF RecordViolation, TempRestrict, RaiseFlag
  <2>3. req'[r] \in {FinishBlocked(req[r]), [req[r] EXCEPT !.step = "restrict"],
                     [req[r] EXCEPT !.step = "raiseFlag"]}
    BY <1>1, <1>8 DEF RecordViolation, TempRestrict, RaiseFlag
  <2>4. FinishBlocked(req[r]) \in {Idle, [req[r] EXCEPT !.step = "flagConversation"],
                                   [req[r] EXCEPT !.step = "notice"]}
    BY DEF FinishBlocked
  <2>5. req'[r].step \in Owning => req'[r].user = req[r].user /\ req'[r].msg = req[r].msg
    BY <2>1, <2>3, <2>4 DEF Job, Idle, Owning, AfterStore
  <2>6. req'[r].step # "recordViolation"
    BY <2>1, <2>3, <2>4 DEF Job, Idle
  <2>7. req'[r].step = "raiseFlag" => RecordViolation(r) /\ req[r].prior > 2
    <3>1. FinishBlocked(req[r]).step # "raiseFlag"
      BY <2>1, <2>4 DEF Job, Idle
    <3>2. CASE RecordViolation(r)
      <4>1. req[r].prior \in Nat
        BY <2>1 DEF Job
      <4> QED BY <1>1, <2>1, <3>1, <3>2, <4>1 DEF RecordViolation, Tier, Job
    <3>3. CASE TempRestrict(r) \/ RaiseFlag(r)
      BY <1>1, <3>1, <3>3 DEF TempRestrict, RaiseFlag
    <3> QED BY <1>8, <3>2, <3>3
  <2> QED BY <2>1, <2>2, <2>5, <2>6, <2>7
<1> QED BY <1>2, <1>3, <1>4, <1>5, <1>6, <1>7, <1>8 DEF Serve

\* The table the four tiers are read from, one violation longer.
LEMMA RecordStep ==
    ASSUME SanctionInv, NEW r \in Slot, RecordViolation(r)
    PROVE  /\ req[r] \in Job
           /\ \A u \in User \ {req[r].user} : violations'[u] = violations[u]
           /\ Len(violations'[req[r].user]) = Len(violations[req[r].user]) + 1
           /\ \A i \in DOMAIN violations[req[r].user] :
                 violations'[req[r].user][i] = violations[req[r].user][i]
           /\ violations'[req[r].user][Len(violations[req[r].user]) + 1] = Tier(req[r].prior)
           /\ DOMAIN violations'[req[r].user] = 1..(Len(violations[req[r].user]) + 1)
           /\ req[r].prior \in 0..Len(violations[req[r].user])
<1>1. req[r] \in Job /\ req[r].user \in User /\ req[r].prior \in Nat
  <2>1. req[r] \in Job
    BY JobAt DEF SanctionInv, TypeInv, RecordViolation, At, ComposeStep
  <2> QED BY <2>1 DEF Job
<1>2. violations \in [User -> Seq(ViolationAction)] /\ Tier(req[r].prior) \in ViolationAction
  BY <1>1, TierType DEF SanctionInv, TypeInv, TypeOK
<1>3. violations' = [violations EXCEPT ![req[r].user] = Append(@, Tier(req[r].prior))]
  BY DEF RecordViolation
<1>4. req[r].prior <= Len(violations[req[r].user])
  BY DEF SanctionInv, CountedAtMost, RecordViolation
<1>5. req[r].prior \in 0..Len(violations[req[r].user])
  BY <1>1, <1>2, <1>4
<1> QED BY <1>1, <1>2, <1>3, <1>5

\* Every step keeps SanctionInv.
LEMMA SanctionStep == SanctionInv /\ [Next]_vars => SanctionInv'
<1> SUFFICES ASSUME SanctionInv, [Next]_vars PROVE SanctionInv'
  OBVIOUS
<1>1. TypeInv /\ TypeInv'
  BY StepTyped DEF SanctionInv
<1>2. \A u \in User : Len(violations[u]) \in Nat /\ Len(violations'[u]) >= Len(violations[u])
  <2>1. \A u \in User : Len(violations[u]) \in Nat
    BY <1>1 DEF TypeInv, TypeOK
  <2>2. CASE violations' = violations
    BY <2>1, <2>2
  <2>3. CASE \E r \in Slot : RecordViolation(r)
    BY <2>1, <2>3, RecordStep
  <2> QED BY <1>1, <2>1, <2>2, <2>3, Monotone
<1>3. SanctionsEarned'
  <2>1. \A u \in User : \A i \in DOMAIN violations'[u] :
           \E prior \in 0..(i - 1) : violations'[u][i] = Tier(prior)
    <3>1. CASE violations' = violations
      BY <3>1 DEF SanctionInv, SanctionsEarned
    <3>2. CASE \E r \in Slot : RecordViolation(r)
      <4>1. PICK r \in Slot : RecordViolation(r)
        BY <3>2
      <4>2. SUFFICES ASSUME NEW u \in User, NEW i \in DOMAIN violations'[u]
                     PROVE  \E prior \in 0..(i - 1) : violations'[u][i] = Tier(prior)
        OBVIOUS
      <4>3. CASE u # req[r].user
        BY <4>1, <4>3, RecordStep DEF SanctionInv, SanctionsEarned
      <4>4. CASE u = req[r].user /\ i # Len(violations[u]) + 1
        <5>1. i \in DOMAIN violations[u]
          BY <1>1, <4>1, <4>2, <4>4, RecordStep DEF TypeInv, TypeOK
        <5>2. violations'[u][i] = violations[u][i]
          BY <4>1, <4>4, <5>1, RecordStep
        <5>3. \E prior \in 0..(i - 1) : violations[u][i] = Tier(prior)
          BY <5>1 DEF SanctionInv, SanctionsEarned
        <5> QED BY <5>2, <5>3
      <4>5. CASE u = req[r].user /\ i = Len(violations[u]) + 1
        <5>1. /\ req[r].prior \in 0..(i - 1)
              /\ violations'[u][i] = Tier(req[r].prior)
          BY <1>2, <4>1, <4>5, RecordStep
        <5> QED BY <5>1
      <4> QED BY <4>3, <4>4, <4>5
    <3> QED BY <1>1, <3>1, <3>2, Monotone
  <2>2. \A m \in flags' : Len(violations'[messages'[m].sender]) >= 4
    <3>1. SUFFICES ASSUME NEW m \in flags' PROVE Len(violations'[messages'[m].sender]) >= 4
      OBVIOUS
    <3>2. \/ m \in flags
          \/ \E r \in Slot : RaiseFlag(r) /\ m = req[r].msg
      <4>1. CASE \E r \in Slot : Arrival(r) \/ Abort(r) \/ CheckRestriction(r) \/ Evaluate(r)
                                 \/ InsertFails(r) \/ CountPrior(r) \/ RecordViolation(r)
        BY <3>1, <4>1
        DEF Arrival, BeginCompose, BeginIngest, BeginCallback, Abort, CheckRestriction,
            Evaluate, InsertFails, CountPrior, RecordViolation, moderationVars
      <4>2. CASE \E r \in Slot : Store(r) \/ StoreBlocked(r) \/ FlagConversation(r) \/ Notice(r)
                                 \/ Send(r) \/ Touch(r) \/ MarkSent(r) \/ ApplyStatus(r)
        BY <3>1, <4>2
        DEF Store, StoreBlocked, FlagConversation, Notice, Send, Touch, MarkSent, ApplyStatus,
            moderationVars
      <4>3. CASE \E r \in Slot : TempRestrict(r) \/ RaiseFlag(r)
        BY <3>1, <4>3 DEF TempRestrict, RaiseFlag
      <4>4. CASE Staff \/ HistoryAges \/ UNCHANGED vars
        BY <3>1, <4>4
        DEF Staff, ImposeRestriction, LiftRestriction, RestrictionExpires, HistoryAges,
            vars, moderationVars
      <4> QED BY <4>1, <4>2, <4>3, <4>4 DEF Next, Serve
    <3>3. m \in Rows /\ Len(violations[messages[m].sender]) >= 4
      <4>1. CASE m \in flags
        BY <1>1, <4>1 DEF SanctionInv, SanctionsEarned, TypeInv, TypeOK
      <4>2. CASE \E r \in Slot : RaiseFlag(r) /\ m = req[r].msg
        BY <1>1, <4>2 DEF SanctionInv, FlagDue, OwnRow, TypeInv, RowsKept, RaiseFlag, At,
                          Owning, AfterStore
      <4> QED BY <3>2, <4>1, <4>2
    <3>4. messages[m].sender \in User /\ messages'[m].sender = messages[m].sender
      <4>1. messages[m] \in MessageRow
        BY <1>1, <3>3 DEF TypeInv, TypeOK, Rows
      <4> QED BY <1>1, <3>3, <4>1, Monotone DEF MessageRow
    <3> QED BY <1>2, <3>3, <3>4
  <2> QED BY <2>1, <2>2 DEF SanctionsEarned
<1>4. CountedAtMost' /\ OwnRow' /\ FlagDue'
  <2>1. SUFFICES ASSUME NEW q \in Slot
                 PROVE  /\ req'[q].step = "recordViolation" =>
                              req'[q].prior <= Len(violations'[req'[q].user])
                        /\ req'[q].step \in Owning =>
                              messages'[req'[q].msg].sender = req'[q].user
                        /\ req'[q].step = "raiseFlag" => Len(violations'[req'[q].user]) >= 4
    BY DEF CountedAtMost, OwnRow, FlagDue, At
  <2>2. req[q].step \in Owning =>
           /\ req[q] \in Job /\ req[q].user \in User /\ req[q].msg \in Rows
           /\ messages'[req[q].msg].sender = req[q].user
    <3> SUFFICES ASSUME req[q].step \in Owning
                 PROVE  /\ req[q] \in Job /\ req[q].user \in User /\ req[q].msg \in Rows
                        /\ messages'[req[q].msg].sender = req[q].user
      OBVIOUS
    <3>1. req[q] \in Job
      BY <1>1, JobAt DEF TypeInv, Owning, AfterStore, ComposeStep
    <3>2. req[q].user \in User
      BY <3>1 DEF Job
    <3>3. req[q].msg \in Rows
      BY <1>1 DEF TypeInv, RowsKept, Owning
    <3>4. messages'[req[q].msg].sender = messages[req[q].msg].sender
      BY <1>1, <3>3, Monotone
    <3> QED BY <3>1, <3>2, <3>3, <3>4 DEF SanctionInv, OwnRow
  <2>3. CASE req'[q] = req[q]
    <3>1. req[q].step = "recordViolation" => req[q].prior <= Len(violations'[req[q].user])
      BY <1>2, <2>2 DEF SanctionInv, CountedAtMost, At, Owning, AfterStore, Job
    <3>2. req[q].step = "raiseFlag" => Len(violations'[req[q].user]) >= 4
      BY <1>2, <2>2 DEF SanctionInv, FlagDue, At, Owning, AfterStore
    <3> QED BY <2>2, <2>3, <3>1, <3>2
  <2>4. CASE Arrival(q) \/ Serve(q) \/ Abort(q)
    <3>1. /\ req'[q].step \in Owning =>
                /\ req'[q].user = req[q].user
                /\ \/ req[q].step \in Owning /\ req'[q].msg = req[q].msg
                   \/ (Store(q) \/ StoreBlocked(q)) /\ req'[q].msg = Len(messages) + 1
          /\ req'[q].step = "recordViolation" =>
                violations' = violations /\ req'[q].prior = Len(violations[req[q].user])
          /\ req'[q].step = "raiseFlag" => RecordViolation(q) /\ req[q].prior > 2
      BY <1>1, <2>4, SlotStep
    <3>2. req'[q].step = "recordViolation" => req'[q].prior <= Len(violations'[req'[q].user])
      <4> SUFFICES ASSUME req'[q].step = "recordViolation"
                   PROVE  req'[q].prior <= Len(violations'[req'[q].user])
        OBVIOUS
      <4>1. req'[q].user = req[q].user
        BY <3>1 DEF Owning, AfterStore
      <4>2. req'[q] \in Job
        <5>1. req'[q] \in {Idle} \cup Job \cup Callback
          BY <1>1 DEF TypeInv, TypeOK
        <5> QED BY <5>1 DEF Idle, Callback
      <4>3. req'[q].user \in User
        BY <4>2 DEF Job
      <4>4. Len(violations[req[q].user]) \in Nat
        BY <1>2, <4>1, <4>3
      <4> QED BY <3>1, <4>1, <4>4
    <3>3. req'[q].step \in Owning => messages'[req'[q].msg].sender = req'[q].user
      <4>1. CASE Store(q) \/ StoreBlocked(q)
        <5>1. req[q] \in Job /\ req[q].step \notin Owning
          BY <1>1, <4>1, JobAt DEF TypeInv, Store, StoreBlocked, At, ComposeStep, Owning, AfterStore
        <5>2. PICK status \in MessageStatus : Insert(q, status)
          BY <4>1 DEF Store, StoreBlocked, MessageStatus
        <5>3. messages'[Len(messages) + 1] =
                [conv |-> req[q].conv, sender |-> req[q].user, content |-> req[q].content,
                 status |-> status, pid |-> req[q].pid, seen |-> req[q].seen,
                 cutoff |-> req[q].cutoff]
          BY <1>1, <5>1, <5>2, InsertType DEF TypeInv
        <5> QED BY <3>1, <5>1, <5>3
      <4>2. CASE ~(Store(q) \/ StoreBlocked(q))
        BY <2>2, <3>1, <4>2
      <4> QED BY <4>1, <4>2
    <3>4. req'[q].step = "raiseFlag" => Len(violations'[req'[q].user]) >= 4
      <4> SUFFICES ASSUME req'[q].step = "raiseFlag" PROVE Len(violations'[req'[q].user]) >= 4
        OBVIOUS
      <4>1. RecordViolation(q) /\ req[q].prior > 2 /\ req'[q].user = req[q].user
        BY <3>1 DEF Owning, AfterStore
      <4>2. /\ Len(violations'[req[q].user]) = Len(violations[req[q].user]) + 1
            /\ req[q].prior \in 0..Len(violations[req[q].user])
            /\ req[q] \in Job
        BY <4>1, RecordStep
      <4>3. Len(violations[req[q].user]) \in Nat
        BY <1>2, <4>2 DEF Job
      <4> QED BY <4>1, <4>2, <4>3
    <3> QED BY <3>2, <3>3, <3>4
  <2>5. req'[q] = req[q] \/ Arrival(q) \/ Serve(q) \/ Abort(q)
    <3>1. CASE \E r \in Slot : Arrival(r) \/ Serve(r) \/ Abort(r)
      <4>1. PICK r \in Slot : Arrival(r) \/ Serve(r) \/ Abort(r)
        BY <3>1
      <4>2. \A p \in Slot \ {r} : req'[p] = req[p]
        BY <1>1, <4>1, SlotStep
      <4> QED BY <4>1, <4>2
    <3>2. CASE Staff \/ HistoryAges \/ UNCHANGED vars
      BY <3>2 DEF Staff, ImposeRestriction, LiftRestriction, RestrictionExpires, HistoryAges, vars
    <3> QED BY <3>1, <3>2 DEF Next
  <2> QED BY <2>1, <2>3, <2>4, <2>5
<1> QED BY <1>1, <1>3, <1>4 DEF SanctionInv

\* Sanctions are earned: however many requests of a user overlap and wherever
\* they die, recordViolationAndEscalate never sanctions above the record.
THEOREM SanctionsCorrect == Spec => []SanctionsEarned
<1>1. Init => SanctionInv
  BY InitTyped DEF Init, SanctionInv, SanctionsEarned, CountedAtMost, OwnRow, FlagDue,
                   Idle, At, Owning, AfterStore
<1>2. Spec => []SanctionInv
  BY <1>1, SanctionStep, PTL DEF Spec
<1>3. SanctionInv => SanctionsEarned
  BY DEF SanctionInv
<1> QED BY <1>2, <1>3, PTL

-----------------------------------------------------------------------------
(***************************************************************************)
(* How rows and requests change: the facts the invariants below share.     *)
(* Only the two inserts add a row, only MarkSent and recordDeliveryStatus  *)
(* rewrite one, and a request keeps what it arrived with.                  *)
(***************************************************************************)
\* The statuses of a message that is, or will be, handed to the provider.
Sending == {"QUEUED", "SENT", "DELIVERED", "FAILED", "UNDELIVERABLE"}

\* The row a request inserts.
InsertedRow(r, status) ==
    [conv |-> req[r].conv, sender |-> req[r].user, content |-> req[r].content,
     status |-> status, pid |-> req[r].pid, seen |-> req[r].seen, cutoff |-> req[r].cutoff]

\* The last row is the one r has just inserted.
Stores(r) ==
    \/ Store(r) /\ messages'[Len(messages) + 1] \in
                       {InsertedRow(r, "QUEUED"), InsertedRow(r, "RECEIVED")}
    \/ StoreBlocked(r) /\ messages'[Len(messages) + 1] = InsertedRow(r, "BLOCKED")

\* An insert adds the request's row at the end and fits the unique index.
LEMMA StoreStep ==
    ASSUME TypeInv, NEW r \in Slot, Store(r) \/ StoreBlocked(r)
    PROVE  /\ req[r] \in Job /\ Len(messages) \in Nat /\ Rows = 1..Len(messages)
           /\ Rows' = 1..(Len(messages) + 1)
           /\ \A m \in Rows : messages'[m] = messages[m]
           /\ Stores(r)
           /\ req[r].pid = NoId \/ ~HasRow(req[r].pid)
           /\ forwarded' = forwarded
<1>1. req[r] \in Job
  BY JobAt DEF TypeInv, Store, StoreBlocked, At, ComposeStep
<1>2. PICK status \in MessageStatus :
         /\ Insert(r, status)
         /\ Store(r) => status \in {"QUEUED", "RECEIVED"}
         /\ StoreBlocked(r) => status = "BLOCKED"
  BY DEF Store, StoreBlocked, MessageStatus, At
<1>3. /\ DOMAIN messages' = 1..(Len(messages) + 1)
      /\ \A m \in Rows : messages'[m] = messages[m]
      /\ messages'[Len(messages) + 1] = InsertedRow(r, status)
  BY <1>1, <1>2, InsertType DEF TypeInv, InsertedRow
<1>4. Stores(r)
  <2>1. CASE Store(r)
    BY <2>1, <1>2, <1>3 DEF Stores
  <2>2. CASE StoreBlocked(r)
    BY <2>2, <1>2, <1>3 DEF Stores
  <2> QED BY <2>1, <2>2
<1>5. Rows = 1..Len(messages) /\ Len(messages) \in Nat
  BY DEF Rows, TypeInv, TypeOK
<1>6. req[r].pid = NoId \/ ~HasRow(req[r].pid)
  BY <1>2 DEF Insert
<1>7. forwarded' = forwarded
  BY DEF Store, StoreBlocked
<1> QED BY <1>1, <1>3, <1>4, <1>5, <1>6, <1>7 DEF Rows

\* MarkSent and recordDeliveryStatus rewrite the status of one row, never to
\* BLOCKED, and its id at most to the row's own number.
LEMMA RewriteStep ==
    ASSUME TypeInv, NEW r \in Slot, MarkSent(r) \/ ApplyStatus(r)
    PROVE  /\ req[r].msg \in Rows /\ Rows' = Rows /\ forwarded' = forwarded
           /\ \A m \in Rows \ {req[r].msg} : messages'[m] = messages[m]
           /\ messages'[req[r].msg].status \in Sending
           /\ messages'[req[r].msg].pid \in {messages[req[r].msg].pid, req[r].msg}
           /\ messages'[req[r].msg].conv = messages[req[r].msg].conv
           /\ messages'[req[r].msg].sender = messages[req[r].msg].sender
           /\ messages'[req[r].msg].content = messages[req[r].msg].content
           /\ messages'[req[r].msg].seen = messages[req[r].msg].seen
           /\ messages'[req[r].msg].cutoff = messages[req[r].msg].cutoff
<1>1. req[r].msg \in Rows
  <2>1. req[r].step \in AfterStore
    BY DEF MarkSent, ApplyStatus, At, AfterStore
  <2> QED BY <2>1 DEF TypeInv, RowsKept
<1>2. messages \in Seq(MessageRow) /\ messages[req[r].msg] \in MessageRow
  BY <1>1 DEF TypeInv, TypeOK, Rows
<1>3. CASE MarkSent(r)
  <2>1. PICK row \in {[messages[req[r].msg] EXCEPT !.status = "SENT", !.pid = req[r].msg],
                      [messages[req[r].msg] EXCEPT !.status = "DELIVERED"]} :
           messages' = [messages EXCEPT ![req[r].msg] = row]
    BY <1>3 DEF MarkSent
  <2> QED BY <1>1, <1>2, <1>3, <2>1 DEF MarkSent, Rows, MessageRow, Sending
<1>4. CASE ApplyStatus(r)
  <2>1. req[r].status \in CarrierStatus
    BY <1>4, CallbackAt DEF TypeInv, ApplyStatus, Callback
  <2>2. mapToMessageStatus(req[r].status) \in Sending
    BY <2>1 DEF mapToMessageStatus, CarrierStatus, Sending
  <2>3. messages' = [messages EXCEPT ![req[r].msg] =
                        [messages[req[r].msg] EXCEPT !.status = mapToMessageStatus(req[r].status)]]
    BY <1>4 DEF ApplyStatus
  <2> QED BY <1>1, <1>2, <1>4, <2>2, <2>3 DEF ApplyStatus, Rows, MessageRow
<1> QED BY <1>3, <1>4

\* Everything else leaves the messages alone; only Send hands one over.
LEMMA QuietStep ==
    ASSUME TypeInv, [Next]_vars,
           ~ \E r \in Slot : Store(r) \/ StoreBlocked(r) \/ MarkSent(r) \/ ApplyStatus(r)
    PROVE  /\ messages' = messages /\ Rows' = Rows
           /\ \/ forwarded' = forwarded
              \/ \E r \in Slot : Send(r) /\ forwarded' = forwarded \cup {req[r].msg}
<1>1. CASE \E r \in Slot : Arrival(r) \/ Abort(r) \/ CheckRestriction(r) \/ Evaluate(r)
  BY <1>1 DEF Arrival, BeginCompose, BeginIngest, BeginCallback, Abort, CheckRestriction,
              Evaluate, moderationVars, Rows
<1>2. CASE \E r \in Slot : InsertFails(r) \/ CountPrior(r) \/ RecordViolation(r)
                           \/ TempRestrict(r) \/ RaiseFlag(r)
  BY <1>2 DEF InsertFails, CountPrior, RecordViolation, TempRestrict, RaiseFlag,
              moderationVars, Rows
<1>3. CASE \E r \in Slot : FlagConversation(r) \/ Notice(r) \/ Send(r) \/ Touch(r)
  BY <1>3 DEF FlagConversation, Notice, Send, Touch, moderationVars, Rows
<1>4. CASE Staff \/ HistoryAges \/ UNCHANGED vars
  BY <1>4 DEF Staff, ImposeRestriction, LiftRestriction, RestrictionExpires, HistoryAges,
              vars, moderationVars, Rows
<1> QED BY <1>1, <1>2, <1>3, <1>4 DEF Next, Serve

\* What a message keeps for good, and what an unblocked one never becomes.
LEMMA RowStep ==
    ASSUME TypeInv, [Next]_vars, NEW m \in Rows
    PROVE  /\ m \in Rows'
           /\ messages'[m].conv = messages[m].conv
           /\ messages'[m].sender = messages[m].sender
           /\ messages'[m].content = messages[m].content
           /\ messages'[m].seen = messages[m].seen
           /\ messages'[m].cutoff = messages[m].cutoff
           /\ messages[m].status # "BLOCKED" => messages'[m].status # "BLOCKED"
           /\ messages'[m].pid \in {messages[m].pid, m}
<1>1. CASE \E r \in Slot : Store(r) \/ StoreBlocked(r)
  <2>1. m \in Rows' /\ messages'[m] = messages[m]
    BY <1>1, StoreStep
  <2> QED BY <2>1
<1>2. CASE \E r \in Slot : MarkSent(r) \/ ApplyStatus(r)
  <2>1. PICK r \in Slot : MarkSent(r) \/ ApplyStatus(r)
    BY <1>2
  <2>2. CASE m = req[r].msg
    BY <2>1, <2>2, RewriteStep DEF Sending
  <2>3. CASE m # req[r].msg
    <3>1. m \in Rows' /\ messages'[m] = messages[m]
      BY <2>1, <2>3, RewriteStep
    <3> QED BY <3>1
  <2> QED BY <2>2, <2>3
<1>3. CASE ~ \E r \in Slot : Store(r) \/ StoreBlocked(r) \/ MarkSent(r) \/ ApplyStatus(r)
  BY <1>3, QuietStep
<1> QED BY <1>1, <1>2, <1>3

\* A new row is the one a request has just inserted.
LEMMA NewRow ==
    ASSUME TypeInv, [Next]_vars, NEW m \in Rows', m \notin Rows
    PROVE  \E r \in Slot : (Store(r) \/ StoreBlocked(r)) /\ m = Len(messages) + 1
<1>1. CASE \E r \in Slot : Store(r) \/ StoreBlocked(r)
  <2>1. PICK r \in Slot : Store(r) \/ StoreBlocked(r)
    BY <1>1
  <2>2. Len(messages) \in Nat /\ Rows = 1..Len(messages) /\ Rows' = 1..(Len(messages) + 1)
    BY <2>1, StoreStep
  <2> QED BY <2>1, <2>2
<1>2. CASE ~ \E r \in Slot : Store(r) \/ StoreBlocked(r)
  BY <1>2, RewriteStep, QuietStep
<1> QED BY <1>1, <1>2

\* A request keeps what it arrived with.
Continues(r) ==
    /\ req[r].step \in ComposeStep
    /\ req'[r].op = req[r].op /\ req'[r].conv = req[r].conv /\ req'[r].user = req[r].user
    /\ req'[r].content = req[r].content /\ req'[r].pid = req[r].pid
    /\ req'[r].snap = req[r].snap

\* A request arrives with what its first statement read.
Arrives(r) ==
    /\ At(r, "idle") /\ req'[r].step = "checkRestriction"
    /\ req'[r].pid \in Inbound \cup {NoId}
    /\ req'[r].conv \in Conv /\ Participant(req'[r].conv, req'[r].user)
    /\ req'[r].snap = convs[req'[r].conv] /\ UNCHANGED convs

\* A carrier report arrives for a message the provider accepted.
Reported(r) ==
    /\ UNCHANGED <<messages, forwarded>>
    /\ req'[r].msg \in Rows /\ messages[req'[r].msg].pid \in forwarded

\* Where a request can come from at each of its steps.
Origin(r) ==
    /\ req'[r].step \in ComposeStep => Continues(r) \/ Arrives(r)
    /\ req'[r].step \in {"store", "storeBlocked"} => Evaluate(r)
    /\ req'[r].step = "send" => Store(r) /\ req'[r].msg = Len(messages) + 1
    /\ req'[r].step = "markSent" => Send(r) /\ req'[r].msg = req[r].msg
    /\ req'[r].step = "touch" => \/ Store(r) /\ req'[r].msg = Len(messages) + 1
                                 \/ MarkSent(r) /\ req'[r].msg = req[r].msg
    /\ req'[r].step = "applyStatus" => Reported(r)

\* The step of a slot that is not on the accepted path.
LEMMA OriginArrival ==
    ASSUME TypeInv, NEW r \in Slot, Arrival(r)
    PROVE  Origin(r)
<1>1. req \in [Slot -> {Idle} \cup Job \cup Callback]
  BY DEF TypeInv, TypeOK
<1>2. CASE \E c \in Conv, u \in Writer, k \in Contents : BeginCompose(r, c, u, k)
  <2>1. PICK c \in Conv, u \in Writer, k \in Contents : BeginCompose(r, c, u, k)
    BY <1>2
  <2>2. /\ req'[r] = NewJob("compose", c, u, k, NoId) /\ At(r, "idle")
        /\ Participant(c, u) /\ UNCHANGED convs
    BY <1>1, <2>1 DEF BeginCompose
  <2>3. Arrives(r)
    BY <2>2 DEF NewJob, Arrives
  <2> QED BY <2>3 DEF Arrives, Origin
<1>3. CASE \E p \in Inbound : BeginIngest(r, Text[p].conv, Text[p].user, Text[p].content, p)
  <2>1. PICK p \in Inbound : BeginIngest(r, Text[p].conv, Text[p].user, Text[p].content, p)
    BY <1>3
  <2>2. Text[p].conv \in Conv /\ Participant(Text[p].conv, Text[p].user)
    BY MessagingAssumption DEF TextRow, Participant
  <2>3. /\ req'[r] = NewJob("ingest", Text[p].conv, Text[p].user, Text[p].content, p)
        /\ At(r, "idle") /\ UNCHANGED convs
    BY <1>1, <2>1 DEF BeginIngest
  <2>4. Arrives(r)
    BY <2>2, <2>3 DEF NewJob, Arrives
  <2> QED BY <2>4 DEF Arrives, Origin
<1>4. CASE \E id \in forwarded, s \in Reports : BeginCallback(r, id, s)
  <2>1. PICK id \in forwarded, s \in Reports : BeginCallback(r, id, s)
    BY <1>4
  <2>2. PICK m \in Rows : /\ messages[m].pid = id
                          /\ req' = [req EXCEPT ![r] =
                                        [step |-> "applyStatus", msg |-> m, status |-> s]]
    BY <2>1 DEF BeginCallback
  <2>3. req'[r].step = "applyStatus" /\ req'[r].msg = m
    BY <1>1, <2>2
  <2>4. Reported(r)
    BY <2>1, <2>2, <2>3 DEF BeginCallback, Reported
  <2> QED BY <2>3, <2>4 DEF Origin, ComposeStep
<1> QED BY <1>2, <1>3, <1>4 DEF Arrival

\* Serving a request, or cutting it short, never changes what it arrived with.
LEMMA OriginServe ==
    ASSUME TypeInv, NEW r \in Slot, Serve(r) \/ Abort(r)
    PROVE  Origin(r)
<1>1. req \in [Slot -> {Idle} \cup Job \cup Callback]
  BY DEF TypeInv, TypeOK
<1>2. CASE req'[r] = Idle
  BY <1>2 DEF Idle, Origin, ComposeStep
<1>3. CASE req'[r] # Idle
  <2>1. ~(InsertFails(r) \/ Abort(r) \/ FlagConversation(r) \/ Notice(r) \/ Touch(r)
          \/ ApplyStatus(r))
    BY <1>1, <1>3 DEF InsertFails, Abort, FlagConversation, Notice, Touch, ApplyStatus, Done
  <2>2. \/ CheckRestriction(r) \/ Evaluate(r) \/ Store(r) \/ StoreBlocked(r)
        \/ CountPrior(r) \/ RecordViolation(r) \/ TempRestrict(r) \/ RaiseFlag(r)
        \/ Send(r) \/ MarkSent(r)
    BY <2>1 DEF Serve
  <2>3. req[r] \in Job /\ req[r].step \in ComposeStep
    <3>1. req[r].step \in ComposeStep
      BY <2>2 DEF CheckRestriction, Evaluate, Store, StoreBlocked, CountPrior, RecordViolation,
                  TempRestrict, RaiseFlag, Send, MarkSent, At, ComposeStep
    <3> QED BY <3>1, JobAt DEF TypeInv
  <2>4. CASE CheckRestriction(r)
    <3>1. req'[r] = [req[r] EXCEPT !.step = "evaluate"]
      BY <1>1, <1>3, <2>4 DEF CheckRestriction, Goto, Done
    <3> QED BY <2>3, <3>1 DEF Job, Origin, Continues
  <2>5. CASE Evaluate(r)
    <3>1. PICK next \in {"store", "storeBlocked"} :
             req' = [req EXCEPT ![r] = [req[r] EXCEPT !.step = next, !.seen = Len(messages),
                                                      !.cutoff = horizon]]
      BY <2>5 DEF Evaluate
    <3> QED BY <1>1, <2>3, <2>5, <3>1 DEF Job, Origin, Continues
  <2>6. CASE Store(r)
    <3>1. PICK next \in {"send", "touch"} :
             req' = [req EXCEPT ![r] = [req[r] EXCEPT !.step = next, !.msg = Len(messages) + 1]]
      BY <2>6 DEF Store
    <3> QED BY <1>1, <2>3, <2>6, <3>1 DEF Job, Origin, Continues
  <2>7. CASE StoreBlocked(r)
    <3>1. req' = [req EXCEPT ![r] = [req[r] EXCEPT !.step = "countPrior",
                                                   !.msg = Len(messages) + 1]]
      BY <2>7 DEF StoreBlocked
    <3> QED BY <1>1, <2>3, <3>1 DEF Job, Origin, Continues
  <2>8. CASE CountPrior(r)
    <3>1. req' = [req EXCEPT ![r] = [req[r] EXCEPT !.step = "recordViolation",
                                                   !.prior = Len(violations[req[r].user])]]
      BY <2>8 DEF CountPrior
    <3> QED BY <1>1, <2>3, <3>1 DEF Job, Origin, Continues
  <2>9. CASE RecordViolation(r) \/ TempRestrict(r) \/ RaiseFlag(r)
    <3>1. req'[r] \in {FinishBlocked(req[r]), [req[r] EXCEPT !.step = "restrict"],
                       [req[r] EXCEPT !.step = "raiseFlag"]}
      BY <1>1, <2>9 DEF RecordViolation, TempRestrict, RaiseFlag
    <3>2. FinishBlocked(req[r]) \in {Idle, [req[r] EXCEPT !.step = "flagConversation"],
                                     [req[r] EXCEPT !.step = "notice"]}
      BY DEF FinishBlocked
    <3>3. PICK next \in {"restrict", "raiseFlag", "flagConversation", "notice"} :
             req'[r] = [req[r] EXCEPT !.step = next]
      BY <1>3, <3>1, <3>2
    <3> QED BY <2>3, <3>3 DEF Job, Origin, Continues
  <2>10. CASE Send(r)
    <3>1. req'[r] = [req[r] EXCEPT !.step = "markSent"]
      BY <1>1, <2>10 DEF Send, Goto
    <3> QED BY <2>3, <2>10, <3>1 DEF Job, Origin, Continues
  <2>11. CASE MarkSent(r)
    <3>1. req'[r] = [req[r] EXCEPT !.step = "touch"]
      BY <1>1, <2>11 DEF MarkSent, Goto
    <3> QED BY <2>3, <2>11, <3>1 DEF Job, Origin, Continues
  <2> QED BY <2>2, <2>4, <2>5, <2>6, <2>7, <2>8, <2>9, <2>10, <2>11
<1> QED BY <1>2, <1>3

\* A step leaves a slot as it is or is that slot's own.
LEMMA SlotOrigin ==
    ASSUME TypeInv, [Next]_vars, NEW q \in Slot
    PROVE  req'[q] = req[q] \/ (Origin(q) /\ (Arrival(q) \/ Serve(q) \/ Abort(q)))
<1>1. CASE \E r \in Slot : Arrival(r) \/ Serve(r) \/ Abort(r)
  BY <1>1, SlotStep, OriginArrival, OriginServe
<1>2. CASE Staff \/ HistoryAges \/ UNCHANGED vars
  BY <1>2 DEF Staff, ImposeRestriction, LiftRestriction, RestrictionExpires, HistoryAges, vars
<1> QED BY <1>1, <1>2 DEF Next

-----------------------------------------------------------------------------
\* Row numbers are numbers, and carrier ids are none.
LEMMA IdsDisjoint == NoId \notin Inbound /\ \A n \in Nat : n \notin Inbound
  BY MessagingAssumption DEF NoId

\* An invariant of one row per text, by itself inductive.
RowInv == TypeInv /\ OneRowPerText

\* Every step keeps it: the unique index refuses a second row, and compose's
\* MarkSent writes a provider id that is no text's.
LEMMA RowInvStep == RowInv /\ [Next]_vars => RowInv'
<1> SUFFICES ASSUME RowInv, [Next]_vars PROVE RowInv'
  OBVIOUS
<1>1. TypeInv /\ TypeInv'
  BY StepTyped DEF RowInv
<1>2. Rows \subseteq Nat
  BY <1>1 DEF TypeInv, TypeOK, Rows
<1>3. \A m \in Rows : messages'[m].pid \in Inbound => messages'[m].pid = messages[m].pid
  <2> SUFFICES ASSUME NEW m \in Rows, messages'[m].pid \in Inbound
               PROVE  messages'[m].pid = messages[m].pid
    OBVIOUS
  <2>1. messages'[m].pid \in {messages[m].pid, m}
    BY <1>1, RowStep
  <2>2. m \notin Inbound
    BY <1>2, IdsDisjoint
  <2> QED BY <2>1, <2>2
<1>4. SUFFICES ASSUME NEW m \in Rows', NEW n \in Rows',
                      messages'[m].pid \in Inbound, messages'[m].pid = messages'[n].pid
               PROVE  m = n
  BY <1>1 DEF RowInv, OneRowPerText
<1>5. CASE m \in Rows /\ n \in Rows
  BY <1>3, <1>4, <1>5 DEF RowInv, OneRowPerText
<1>6. ASSUME NEW a \in Rows', NEW b \in Rows', a \notin Rows, a # b,
             messages'[a].pid \in Inbound, messages'[a].pid = messages'[b].pid
      PROVE  FALSE
  <2>1. PICK r \in Slot : (Store(r) \/ StoreBlocked(r)) /\ a = Len(messages) + 1
    BY <1>1, <1>6, NewRow
  <2>2. b \in Rows /\ messages'[b].pid = messages[b].pid
    BY <1>1, <1>3, <1>6, <2>1, NewRow
  <2>3. messages'[a].pid = req[r].pid
    <3>1. Stores(r)
      BY <1>1, <2>1, StoreStep
    <3> QED BY <2>1, <3>1 DEF Stores, InsertedRow
  <2>4. req[r].pid # NoId
    BY <1>6, <2>3, IdsDisjoint
  <2>5. ~HasRow(req[r].pid)
    BY <1>1, <2>1, <2>4, StoreStep
  <2> QED BY <1>6, <2>2, <2>3, <2>5 DEF HasRow
<1>7. CASE m \notin Rows
  BY <1>4, <1>6, <1>7
<1>8. CASE n \notin Rows
  <2>1. messages'[n].pid \in Inbound /\ messages'[n].pid = messages'[m].pid
    BY <1>4
  <2> QED BY <1>6, <1>8, <2>1
<1> QED BY <1>5, <1>7, <1>8

\* However often and however concurrently the carrier delivers a text, it
\* becomes at most one Message row (ingestInbound, unique providerMessageId).
THEOREM OneRowPerTextCorrect == Spec => []OneRowPerText
<1>1. Init => RowInv
  BY InitTyped DEF Init, RowInv, OneRowPerText, Rows
<1>2. Spec => []RowInv
  BY <1>1, RowInvStep, PTL DEF Spec
<1>3. RowInv => OneRowPerText
  BY DEF RowInv
<1> QED BY <1>2, <1>3, PTL

-----------------------------------------------------------------------------
(***************************************************************************)
(* The gate.  GateHolds is not inductive: it needs to know that the row of *)
(* a request at the send passed the gate, that a delivery report only ever *)
(* finds a row that was handed over, because the provider's ids are the    *)
(* row numbers MarkSent writes and no inbound text's id is one of them.    *)
(***************************************************************************)
\* A request carries an inbound text's id, or none.
JobIds == \A r \in Slot : req[r].step \in ComposeStep => req[r].pid \in Inbound \cup {NoId}

\* Only a message that was handed over has an id of the provider's.
SentIds == \A m \in Rows : \/ messages[m].pid \in Inbound \cup {NoId}
                           \/ messages[m].pid = m /\ m \in forwarded

\* The steps that follow an accepted message's insert.
Accepted == {"send", "markSent", "touch"}

SendDue == \A r \in Slot : req[r].step \in Accepted => messages[req[r].msg].status # "BLOCKED"

Marking == \A r \in Slot : req[r].step \in {"markSent", "applyStatus"} => req[r].msg \in forwarded

GateInv == TypeInv /\ GateHolds /\ JobIds /\ SentIds /\ SendDue /\ Marking

\* The requests: their ids, their unblocked row, their accepted send.
LEMMA GateRequests ==
    ASSUME GateInv, [Next]_vars
    PROVE  JobIds' /\ SendDue' /\ Marking'
<1>1. TypeInv /\ TypeInv'
  BY StepTyped DEF GateInv
<1>2. forwarded \subseteq forwarded'
  <2>1. CASE \E r \in Slot : Store(r) \/ StoreBlocked(r) \/ MarkSent(r) \/ ApplyStatus(r)
    BY <1>1, <2>1, StoreStep, RewriteStep
  <2>2. CASE ~ \E r \in Slot : Store(r) \/ StoreBlocked(r) \/ MarkSent(r) \/ ApplyStatus(r)
    BY <1>1, <2>2, QuietStep
  <2> QED BY <2>1, <2>2
<1>3. SUFFICES ASSUME NEW q \in Slot
               PROVE  /\ req'[q].step \in ComposeStep => req'[q].pid \in Inbound \cup {NoId}
                      /\ req'[q].step \in Accepted =>
                            messages'[req'[q].msg].status # "BLOCKED"
                      /\ req'[q].step \in {"markSent", "applyStatus"} => req'[q].msg \in forwarded'
  BY DEF JobIds, SendDue, Marking
<1>4. ASSUME req[q].step \in Accepted
      PROVE  messages'[req[q].msg].status # "BLOCKED"
  <2>1. req[q].msg \in Rows
    BY <1>1, <1>4 DEF TypeInv, RowsKept, Accepted, AfterStore
  <2> QED BY <1>1, <1>4, <2>1, RowStep DEF GateInv, SendDue
<1>5. CASE req'[q] = req[q]
  BY <1>2, <1>4, <1>5 DEF GateInv, JobIds, Marking
<1>6. CASE Origin(q)
  <2>1. req'[q].step \in ComposeStep => req'[q].pid \in Inbound \cup {NoId}
    BY <1>6 DEF Origin, Continues, Arrives, GateInv, JobIds
  <2>2. ASSUME Store(q), req'[q].msg = Len(messages) + 1
        PROVE  messages'[req'[q].msg].status # "BLOCKED"
    <3>1. Stores(q) /\ ~StoreBlocked(q)
      BY <1>1, <2>2, StoreStep DEF Store, StoreBlocked, At
    <3> QED BY <2>2, <3>1 DEF Stores, InsertedRow
  <2>3. req'[q].step \in Accepted => messages'[req'[q].msg].status # "BLOCKED"
    <3>1. CASE req'[q].step = "send"
      BY <1>6, <2>2, <3>1 DEF Origin
    <3>2. CASE req'[q].step = "markSent"
      BY <1>4, <1>6, <3>2 DEF Origin, Send, At, Accepted
    <3>3. CASE req'[q].step = "touch"
      BY <1>4, <1>6, <2>2, <3>3 DEF Origin, MarkSent, At, Accepted
    <3> QED BY <3>1, <3>2, <3>3 DEF Accepted
  <2>4. req'[q].step = "markSent" => req'[q].msg \in forwarded'
    BY <1>6 DEF Origin, Send
  <2>5. req'[q].step = "applyStatus" => req'[q].msg \in forwarded'
    <3> SUFFICES ASSUME req'[q].step = "applyStatus" PROVE req'[q].msg \in forwarded'
      OBVIOUS
    <3>1. Reported(q)
      BY <1>6 DEF Origin
    <3>2. req'[q].msg \in Rows /\ messages[req'[q].msg].pid \in forwarded
      BY <3>1 DEF Reported
    <3>3. messages[req'[q].msg].pid \in Nat /\ messages[req'[q].msg].pid # 0
      BY <1>1, <3>2 DEF TypeInv, TypeOK, Rows
    <3>4. messages[req'[q].msg].pid \notin Inbound \cup {NoId}
      BY <3>3, MessagingAssumption DEF NoId
    <3>5. req'[q].msg \in forwarded
      BY <3>2, <3>4 DEF GateInv, SentIds
    <3> QED BY <1>2, <3>5
  <2> QED BY <2>1, <2>3, <2>4, <2>5
<1> QED BY <1>1, <1>5, <1>6, SlotOrigin

\* The rows: who has an id of the provider's, and who was handed over.
LEMMA GateRows ==
    ASSUME GateInv, [Next]_vars
    PROVE  GateHolds' /\ SentIds'
<1>1. TypeInv /\ TypeInv' /\ forwarded \subseteq Rows
  BY StepTyped DEF GateInv, TypeInv, TypeOK
<1>2. CASE \E r \in Slot : Store(r) \/ StoreBlocked(r)
  <2>1. PICK r \in Slot : Store(r) \/ StoreBlocked(r)
    BY <1>2
  <2>2. /\ req[r] \in Job /\ Len(messages) \in Nat /\ Rows = 1..Len(messages)
        /\ Rows' = 1..(Len(messages) + 1)
        /\ \A m \in Rows : messages'[m] = messages[m]
        /\ Stores(r)
        /\ forwarded' = forwarded
    BY <1>1, <2>1, StoreStep
  <2>3. /\ messages'[Len(messages) + 1].status \in {"QUEUED", "RECEIVED", "BLOCKED"}
        /\ messages'[Len(messages) + 1].pid = req[r].pid
    BY <2>2 DEF Stores, InsertedRow
  <2>4. req[r].pid \in Inbound \cup {NoId}
    BY <2>2 DEF GateInv, JobIds, Job
  <2>5. \A m \in Rows' : m \in Rows \/ m = Len(messages) + 1
    BY <2>2
  <2>6. GateHolds'
    <3>1. \A m \in forwarded' : messages'[m].status # "BLOCKED"
      BY <1>1, <2>2 DEF GateInv, GateHolds
    <3>2. \A m \in Rows' : messages'[m].status \in {"SENT", "DELIVERED", "FAILED", "UNDELIVERABLE"}
                              => m \in forwarded'
      BY <2>2, <2>3, <2>5 DEF GateInv, GateHolds
    <3> QED BY <3>1, <3>2 DEF GateHolds
  <2>7. SentIds'
    BY <2>2, <2>3, <2>4, <2>5 DEF GateInv, SentIds
  <2> QED BY <2>6, <2>7
<1>3. CASE \E r \in Slot : MarkSent(r) \/ ApplyStatus(r)
  <2>1. PICK r \in Slot : MarkSent(r) \/ ApplyStatus(r)
    BY <1>3
  <2>2. req[r].msg \in forwarded
    BY <2>1 DEF GateInv, Marking, MarkSent, ApplyStatus, At
  <2>3. GateHolds'
    BY <1>1, <2>1, <2>2, RewriteStep DEF GateInv, GateHolds, Sending
  <2>4. SentIds'
    BY <1>1, <2>1, <2>2, RewriteStep DEF GateInv, SentIds
  <2> QED BY <2>3, <2>4
<1>4. CASE ~ \E r \in Slot : Store(r) \/ StoreBlocked(r) \/ MarkSent(r) \/ ApplyStatus(r)
  <2>1. messages' = messages /\ Rows' = Rows
    BY <1>1, <1>4, QuietStep
  <2>2. CASE forwarded' = forwarded
    BY <2>1, <2>2 DEF GateInv, GateHolds, SentIds
  <2>3. CASE \E r \in Slot : Send(r) /\ forwarded' = forwarded \cup {req[r].msg}
    <3>1. PICK r \in Slot : Send(r) /\ forwarded' = forwarded \cup {req[r].msg}
      BY <2>3
    <3>2. messages[req[r].msg].status # "BLOCKED"
      BY <3>1 DEF GateInv, SendDue, Send, At, Accepted
    <3> QED BY <2>1, <3>1, <3>2 DEF GateInv, GateHolds, SentIds
  <2> QED BY <1>1, <1>4, <2>2, <2>3, QuietStep
<1> QED BY <1>2, <1>3, <1>4

\* Every step keeps the gate's invariant.
LEMMA GateStep == GateInv /\ [Next]_vars => GateInv'
  BY StepTyped, GateRequests, GateRows DEF GateInv

\* Initially there is no row and no request.
LEMMA GateInit == Init => GateInv
  BY InitTyped DEF Init, GateInv, GateHolds, JobIds, SentIds, SendDue, Marking, Rows,
                   Idle, ComposeStep, Accepted

\* The gate's invariant holds throughout.
LEMMA GateAlways == Spec => []GateInv
  BY GateInit, GateStep, PTL DEF Spec

\* The gate in front of the relay: whatever interleaves and wherever requests
\* die, no blocked message reaches the SMS provider, and no status speaks of a
\* send that did not happen.
THEOREM GateCorrect == Spec => []GateHolds
<1>1. GateInv => GateHolds
  BY DEF GateInv
<1> QED BY <1>1, GateAlways, PTL

\* Rows that are handed over or reported on are not blocked ones.
LEMMA BlockedKept ==
    ASSUME GateInv, [Next]_vars, NEW m \in Rows, messages[m].status = "BLOCKED"
    PROVE  messages'[m].status = "BLOCKED"
<1>1. TypeInv /\ m \notin forwarded
  BY DEF GateInv, GateHolds
<1>2. CASE \E r \in Slot : Store(r) \/ StoreBlocked(r)
  BY <1>1, <1>2, StoreStep
<1>3. CASE \E r \in Slot : MarkSent(r) \/ ApplyStatus(r)
  <2>1. PICK r \in Slot : MarkSent(r) \/ ApplyStatus(r)
    BY <1>3
  <2>2. req[r].msg \in forwarded
    BY <2>1 DEF GateInv, Marking, MarkSent, ApplyStatus, At
  <2>3. messages'[m] = messages[m]
    BY <1>1, <2>1, <2>2, RewriteStep
  <2> QED BY <2>3
<1>4. CASE ~ \E r \in Slot : Store(r) \/ StoreBlocked(r) \/ MarkSent(r) \/ ApplyStatus(r)
  BY <1>1, <1>4, QuietStep
<1> QED BY <1>2, <1>3, <1>4

\* A blocked message stays hidden: no later step of any request and no carrier
\* report makes it visible.
THEOREM BlockedStaysBlockedCorrect == Spec => BlockedStaysBlocked
<1>1. GateInv /\ [Next]_vars =>
         [\A m \in Rows : messages[m].status = "BLOCKED" => messages'[m].status = "BLOCKED"]_vars
  BY BlockedKept
<1> QED BY <1>1, GateAlways, PTL DEF Spec, BlockedStaysBlocked

-----------------------------------------------------------------------------
(***************************************************************************)
(* Activation.  A request writes for a participant of its conversation,    *)
(* and the row it inserted is that participant's.                          *)
(***************************************************************************)
Members == \A r \in Slot : req[r].step \in ComposeStep => Participant(req[r].conv, req[r].user)

OwnThread == \A r \in Slot : req[r].step \in Owning =>
    messages[req[r].msg].conv = req[r].conv /\ messages[req[r].msg].sender = req[r].user

ThreadInv == GateInv /\ Members /\ OwnThread

\* Every step keeps it.
LEMMA ThreadStep == ThreadInv /\ [Next]_vars => ThreadInv'
<1> SUFFICES ASSUME ThreadInv, [Next]_vars PROVE ThreadInv'
  OBVIOUS
<1>1. GateInv' /\ TypeInv /\ TypeInv'
  BY GateStep DEF ThreadInv, GateInv
<1>2. Members'
  <2> SUFFICES ASSUME NEW q \in Slot, req'[q].step \in ComposeStep
               PROVE  Participant(req'[q].conv, req'[q].user)
    BY DEF Members, Participant
  <2>1. CASE req'[q] = req[q]
    BY <2>1 DEF ThreadInv, Members
  <2>2. CASE Origin(q)
    BY <2>2 DEF Origin, Continues, Arrives, ThreadInv, Members
  <2> QED BY <1>1, <2>1, <2>2, SlotOrigin
<1>3. OwnThread'
  <2> SUFFICES ASSUME NEW q \in Slot, req'[q].step \in Owning
               PROVE  /\ messages'[req'[q].msg].conv = req'[q].conv
                      /\ messages'[req'[q].msg].sender = req'[q].user
    BY DEF OwnThread
  <2>1. ASSUME req[q].step \in Owning
        PROVE  /\ messages'[req[q].msg].conv = req[q].conv
               /\ messages'[req[q].msg].sender = req[q].user
    <3>1. req[q].msg \in Rows
      BY <1>1, <2>1 DEF TypeInv, RowsKept, Owning
    <3> QED BY <1>1, <2>1, <3>1, RowStep DEF ThreadInv, OwnThread
  <2>2. CASE req'[q] = req[q]
    BY <2>1, <2>2
  <2>3. CASE Origin(q) /\ (Arrival(q) \/ Serve(q) \/ Abort(q))
    <3>1. Continues(q)
      BY <2>3 DEF Origin, Arrives, Owning, AfterStore, ComposeStep
    <3>2. \/ req[q].step \in Owning /\ req'[q].msg = req[q].msg
          \/ (Store(q) \/ StoreBlocked(q)) /\ req'[q].msg = Len(messages) + 1
      BY <1>1, <2>3, SlotStep
    <3>3. CASE req[q].step \in Owning /\ req'[q].msg = req[q].msg
      BY <2>1, <3>1, <3>3 DEF Continues
    <3>4. CASE (Store(q) \/ StoreBlocked(q)) /\ req'[q].msg = Len(messages) + 1
      <4>1. Stores(q)
        BY <1>1, <3>4, StoreStep
      <4>2. /\ messages'[Len(messages) + 1].conv = req[q].conv
            /\ messages'[Len(messages) + 1].sender = req[q].user
        BY <4>1 DEF Stores, InsertedRow
      <4> QED BY <3>1, <3>4, <4>2 DEF Continues
    <3> QED BY <3>2, <3>3, <3>4
  <2> QED BY <1>1, <2>2, <2>3, SlotOrigin
<1> QED BY <1>1, <1>2, <1>3 DEF ThreadInv

\* Initially nobody is served.
LEMMA ThreadInit == Init => ThreadInv
  BY GateInit DEF Init, ThreadInv, Members, OwnThread, Idle, ComposeStep, Owning, AfterStore

\* Only a landlord's Touch changes a conversation's status, to ACTIVE.
LEMMA ConvStep ==
    ASSUME ThreadInv, [Next]_vars, NEW c \in Conv
    PROVE  \/ convs'[c].status = convs[c].status
           \/ \E r \in Slot : /\ Touch(r) /\ req[r] \in Job /\ c = req[r].conv
                              /\ req[r].user # Tenant[c] /\ convs'[c].status = "ACTIVE"
<1>1. CASE \E r \in Slot : Touch(r)
  <2>1. PICK r \in Slot : Touch(r)
    BY <1>1
  <2>2. req[r] \in Job
    BY <2>1, JobAt DEF ThreadInv, GateInv, TypeInv, Touch, At, ComposeStep
  <2>3. convs \in [Conv -> ConvRow] /\ req[r].conv \in Conv
    BY <2>2 DEF ThreadInv, GateInv, TypeInv, TypeOK, Job
  <2> DEFINE status == IF req[r].snap.status = "NEW_INQUIRY" /\ req[r].user # Tenant[req[r].conv]
                       THEN "ACTIVE" ELSE convs[req[r].conv].status
  <2>4. convs' = [convs EXCEPT ![req[r].conv].lastMessageAt = clock + 1,
                               ![req[r].conv].status = status]
    BY <2>1, Zenon DEF Touch
  <2>5. CASE c # req[r].conv
    BY <2>3, <2>4, <2>5
  <2>6. CASE c = req[r].conv
    <3>1. convs'[c].status = status
      <4> HIDE DEF status
      <4> QED BY <2>3, <2>4, <2>6 DEF ConvRow
    <3> QED BY <2>1, <2>2, <2>6, <3>1
  <2> QED BY <2>5, <2>6
<1>2. CASE \E r \in Slot : FlagConversation(r)
  <2>1. PICK r \in Slot : FlagConversation(r)
    BY <1>2
  <2>2. convs' = [convs EXCEPT ![req[r].conv].flagged = TRUE] /\ convs \in [Conv -> ConvRow]
    BY <2>1 DEF FlagConversation, ThreadInv, GateInv, TypeInv, TypeOK
  <2> QED BY <2>2 DEF ConvRow
<1>3. CASE ~ \E r \in Slot : Touch(r) \/ FlagConversation(r)
  <2>1. CASE \E r \in Slot : Arrival(r) \/ Abort(r) \/ CheckRestriction(r) \/ Evaluate(r)
    BY <2>1 DEF Arrival, BeginCompose, BeginIngest, BeginCallback, Abort, CheckRestriction,
                Evaluate
  <2>2. CASE \E r \in Slot : InsertFails(r) \/ CountPrior(r) \/ RecordViolation(r)
                             \/ TempRestrict(r) \/ RaiseFlag(r) \/ Store(r) \/ StoreBlocked(r)
    BY <2>2 DEF InsertFails, CountPrior, RecordViolation, TempRestrict, RaiseFlag, Store,
                StoreBlocked
  <2>3. CASE \E r \in Slot : Notice(r) \/ Send(r) \/ MarkSent(r) \/ ApplyStatus(r)
    BY <2>3 DEF Notice, Send, MarkSent, ApplyStatus
  <2>4. CASE Staff \/ HistoryAges \/ UNCHANGED vars
    BY <2>4 DEF Staff, ImposeRestriction, LiftRestriction, RestrictionExpires, HistoryAges, vars
  <2> QED BY <1>3, <2>1, <2>2, <2>3, <2>4 DEF Next, Serve
<1> QED BY <1>1, <1>2, <1>3

ReplyInv == ThreadInv /\ ActiveNeedsReply

\* Every step keeps it: the conversation is activated by the landlord's own
\* request, whose row passed the gate, and rows that did never become blocked.
LEMMA ReplyStep == ReplyInv /\ [Next]_vars => ReplyInv'
<1> SUFFICES ASSUME ReplyInv, [Next]_vars PROVE ReplyInv'
  OBVIOUS
<1>1. ThreadInv /\ ThreadInv' /\ TypeInv
  BY ThreadStep DEF ReplyInv, ThreadInv, GateInv
<1>2. SUFFICES ASSUME NEW c \in Conv, convs'[c].status = "ACTIVE"
               PROVE  \E m \in Rows' : /\ messages'[m].conv = c
                                       /\ messages'[m].sender = Landlord[c]
                                       /\ messages'[m].status # "BLOCKED"
  BY <1>1 DEF ReplyInv, ActiveNeedsReply
<1>3. SUFFICES \E m \in Rows : /\ messages[m].conv = c /\ messages[m].sender = Landlord[c]
                               /\ messages[m].status # "BLOCKED"
  BY <1>1, RowStep
<1>4. CASE convs'[c].status = convs[c].status
  BY <1>2, <1>4 DEF ReplyInv, ActiveNeedsReply
<1>5. CASE \E r \in Slot : /\ Touch(r) /\ req[r] \in Job /\ c = req[r].conv
                           /\ req[r].user # Tenant[c]
  <2>1. PICK r \in Slot : Touch(r) /\ req[r] \in Job /\ c = req[r].conv /\ req[r].user # Tenant[c]
    BY <1>5
  <2>2. req[r].step = "touch"
    BY <2>1 DEF Touch, At
  <2>3. req[r].msg \in Rows
    BY <1>1, <2>2 DEF TypeInv, RowsKept, AfterStore
  <2>4. messages[req[r].msg].conv = c /\ messages[req[r].msg].sender = req[r].user
    BY <1>1, <2>1, <2>2 DEF ThreadInv, OwnThread, Owning, AfterStore
  <2>5. req[r].user = Landlord[c]
    BY <1>1, <2>1, <2>2 DEF ThreadInv, Members, Participant, ComposeStep
  <2>6. messages[req[r].msg].status # "BLOCKED"
    BY <1>1, <2>2 DEF ThreadInv, GateInv, SendDue, Accepted
  <2> QED BY <2>3, <2>4, <2>5, <2>6
<1> QED BY <1>1, <1>4, <1>5, ConvStep

\* A conversation is ACTIVE only after its landlord wrote something the gate let
\* through, whatever interleaves and wherever requests die.
THEOREM ActiveNeedsReplyCorrect == Spec => []ActiveNeedsReply
<1>1. Init => ReplyInv
  BY ThreadInit DEF Init, ReplyInv, ActiveNeedsReply
<1>2. Spec => []ReplyInv
  BY <1>1, ReplyStep, PTL DEF Spec
<1>3. ReplyInv => ActiveNeedsReply
  BY DEF ReplyInv
<1> QED BY <1>2, <1>3, PTL

-----------------------------------------------------------------------------
(***************************************************************************)
(* Between the insert of a landlord's reply and its touch the conversation *)
(* may still be a new inquiry, but some request is about to touch it,      *)
(* unless it died and left the row in `cut'; and a snapshot that shows     *)
(* another status is proof that the row has left NEW_INQUIRY for good.     *)
(***************************************************************************)
SnapshotKept == \A r \in Slot :
    req[r].step \in ComposeStep /\ req[r].snap.status # "NEW_INQUIRY"
        => convs[req[r].conv].status # "NEW_INQUIRY"

LandlordSpoke(m) ==
    messages[m].status # "BLOCKED" /\ messages[m].sender = Landlord[messages[m].conv]

ReplyPending == \A m \in Rows \ cut :
    LandlordSpoke(m) /\ convs[messages[m].conv].status = "NEW_INQUIRY"
        => \E r \in Slot : req[r].step \in Accepted /\ req[r].msg = m

PendingInv == ThreadInv /\ SnapshotKept /\ ReplyPending

\* A conversation that has left NEW_INQUIRY does not return to it, and every
\* snapshot is of a row no later than now.
LEMMA SnapshotStep ==
    ASSUME ThreadInv, SnapshotKept, [Next]_vars
    PROVE  SnapshotKept'
<1> SUFFICES ASSUME NEW q \in Slot, req'[q].step \in ComposeStep,
                    req'[q].snap.status # "NEW_INQUIRY"
             PROVE  convs'[req'[q].conv].status # "NEW_INQUIRY"
  BY DEF SnapshotKept
<1>1. TypeInv /\ TypeInv'
  BY StepTyped DEF ThreadInv, GateInv
<1>2. req'[q] \in Job /\ req'[q].conv \in Conv
  <2>1. req'[q] \in {Idle} \cup Job \cup Callback
    BY <1>1 DEF TypeInv, TypeOK
  <2>2. req'[q] \in Job
    BY <2>1 DEF Idle, Callback, ComposeStep
  <2> QED BY <2>2 DEF Job
<1>3. ASSUME convs[req'[q].conv].status # "NEW_INQUIRY"
      PROVE  convs'[req'[q].conv].status # "NEW_INQUIRY"
  BY <1>2, <1>3, ConvStep
<1>4. CASE req'[q] = req[q]
  BY <1>3, <1>4 DEF SnapshotKept
<1>5. CASE Origin(q)
  <2>1. Continues(q) \/ Arrives(q)
    BY <1>5 DEF Origin
  <2>2. CASE Continues(q)
    BY <1>3, <2>2 DEF Continues, SnapshotKept
  <2>3. CASE Arrives(q)
    BY <2>3 DEF Arrives
  <2> QED BY <2>1, <2>2, <2>3
<1> QED BY <1>1, <1>4, <1>5, SlotOrigin

\* A request on the accepted path goes on until it has touched the conversation,
\* or dies and leaves its row among those cut short.
LEMMA AcceptedStep ==
    ASSUME ThreadInv, [Next]_vars, NEW q \in Slot, req[q].step \in Accepted
    PROVE  \/ req'[q].step \in Accepted /\ req'[q].msg = req[q].msg
           \/ Touch(q)
           \/ req[q].msg \in cut'
<1>1. CASE req'[q] = req[q]
  BY <1>1
<1>2. CASE Arrival(q) \/ Serve(q) \/ Abort(q)
  <2>1. req \in [Slot -> {Idle} \cup Job \cup Callback] /\ req[q] \in Job
    BY JobAt DEF ThreadInv, GateInv, TypeInv, TypeOK, Accepted, ComposeStep
  <2>2. Send(q) \/ MarkSent(q) \/ Touch(q) \/ Abort(q)
    <3>1. ~Arrival(q)
      BY DEF Arrival, BeginCompose, BeginIngest, BeginCallback, At, Accepted
    <3>2. CASE Abort(q)
      BY <3>2
    <3>3. CASE Serve(q)
      BY <3>3 DEF Serve, CheckRestriction, Evaluate, Store, StoreBlocked, InsertFails, CountPrior,
                  RecordViolation, TempRestrict, RaiseFlag, FlagConversation, Notice, ApplyStatus,
                  At, Accepted
    <3> QED BY <1>2, <3>1, <3>2, <3>3
  <2>3. CASE Send(q)
    BY <2>1, <2>3 DEF Send, Goto, Job, Accepted
  <2>4. CASE MarkSent(q)
    BY <2>1, <2>4 DEF MarkSent, Goto, Job, Accepted
  <2>5. CASE Abort(q)
    <3>1. req[q].msg \in Rows
      BY DEF ThreadInv, GateInv, TypeInv, RowsKept, Accepted, AfterStore
    <3> QED BY <2>5, <3>1 DEF Abort, At, Accepted
  <2> QED BY <2>2, <2>3, <2>4, <2>5
<1> QED BY <1>1, <1>2, SlotOrigin DEF ThreadInv, GateInv

\* What was cut short stays so.
LEMMA CutKept ==
    ASSUME [Next]_vars
    PROVE  cut \subseteq cut'
<1>1. CASE \E r \in Slot : Arrival(r)
  BY <1>1 DEF Arrival, BeginCompose, BeginIngest, BeginCallback
<1>2. CASE \E r \in Slot : Serve(r)
  BY <1>2 DEF Serve, CheckRestriction, Evaluate, Store, StoreBlocked, InsertFails, CountPrior,
              RecordViolation, TempRestrict, RaiseFlag, FlagConversation, Notice, Send, MarkSent,
              Touch, ApplyStatus
<1>3. CASE \E r \in Slot : Abort(r)
  BY <1>3 DEF Abort
<1>4. CASE Staff \/ HistoryAges \/ UNCHANGED vars
  BY <1>4 DEF Staff, ImposeRestriction, LiftRestriction, RestrictionExpires, HistoryAges, vars
<1> QED BY <1>1, <1>2, <1>3, <1>4 DEF Next

\* The landlord's own Touch leaves no conversation in NEW_INQUIRY.
LEMMA TouchActivates ==
    ASSUME TypeInv, NEW r \in Slot, Touch(r), req[r].user # Tenant[req[r].conv],
           req[r].snap.status = "NEW_INQUIRY"
    PROVE  convs'[req[r].conv].status = "ACTIVE"
<1>1. req[r] \in Job
  BY JobAt DEF TypeInv, Touch, At, ComposeStep
<1>2. convs \in [Conv -> ConvRow] /\ req[r].conv \in Conv
  BY <1>1 DEF TypeInv, TypeOK, Job
<1>3. convs' = [convs EXCEPT ![req[r].conv].lastMessageAt = clock + 1,
                             ![req[r].conv].status = "ACTIVE"]
  BY DEF Touch
<1> QED BY <1>2, <1>3 DEF ConvRow

\* Every step keeps it: the row is stored together with the intent to touch, and
\* only the touch, which activates the conversation, ends that intent.
LEMMA PendingStep ==
    ASSUME PendingInv, [Next]_vars
    PROVE  PendingInv'
<1>1. ThreadInv /\ ThreadInv' /\ GateInv /\ TypeInv /\ TypeInv' /\ SnapshotKept'
  BY ThreadStep, SnapshotStep DEF PendingInv, ThreadInv, GateInv
<1>2. SUFFICES ASSUME NEW m \in Rows', m \notin cut', messages'[m].status # "BLOCKED",
                      messages'[m].sender = Landlord[messages'[m].conv],
                      convs'[messages'[m].conv].status = "NEW_INQUIRY"
               PROVE  \E r \in Slot : req'[r].step \in Accepted /\ req'[r].msg = m
  BY <1>1 DEF PendingInv, ReplyPending, LandlordSpoke
<1>3. CASE m \in Rows
  <2> DEFINE c == messages[m].conv
  <2>1. messages'[m].conv = c /\ messages'[m].sender = messages[m].sender /\ c \in Conv
    <3>1. messages[m] \in MessageRow
      BY <1>1, <1>3 DEF TypeInv, TypeOK, Rows
    <3> QED BY <1>1, <1>3, <3>1, RowStep DEF MessageRow
  <2>2. convs[c].status = "NEW_INQUIRY"
    BY <1>1, <1>2, <2>1, ConvStep
  <2>3. LandlordSpoke(m)
    BY <1>1, <1>2, <1>3, <2>1, BlockedKept DEF LandlordSpoke
  <2>4. PICK r \in Slot : req[r].step \in Accepted /\ req[r].msg = m
    BY <1>2, <1>3, <2>2, <2>3, CutKept DEF PendingInv, ReplyPending
  <2>5. req[r].conv = c /\ req[r].user = Landlord[c]
    BY <1>1, <2>3, <2>4 DEF ThreadInv, OwnThread, Owning, AfterStore, Accepted, LandlordSpoke
  <2>6. ~Touch(r)
    <3> SUFFICES ASSUME Touch(r) PROVE FALSE
      OBVIOUS
    <3>1. req[r].user # Tenant[req[r].conv]
      BY <2>1, <2>5, MessagingAssumption
    <3>2. req[r].snap.status = "NEW_INQUIRY"
      BY <2>2, <2>4, <2>5 DEF PendingInv, SnapshotKept, Accepted, ComposeStep
    <3>3. convs'[req[r].conv].status = "ACTIVE"
      BY <1>1, <3>1, <3>2, TouchActivates
    <3> QED BY <1>2, <2>1, <2>5, <3>3
  <2> QED BY <1>1, <1>2, <2>4, <2>6, AcceptedStep
<1>4. CASE m \notin Rows
  <2>1. PICK r \in Slot : (Store(r) \/ StoreBlocked(r)) /\ m = Len(messages) + 1
    BY <1>1, <1>4, NewRow
  <2>2. Stores(r) /\ req[r] \in Job
    BY <1>1, <2>1, StoreStep
  <2>3. Store(r)
    BY <1>2, <2>1, <2>2 DEF Stores, InsertedRow
  <2>4. PICK next \in {"send", "touch"} :
           req' = [req EXCEPT ![r] = [req[r] EXCEPT !.step = next, !.msg = Len(messages) + 1]]
    BY <2>3 DEF Store
  <2>5. req'[r].step \in Accepted /\ req'[r].msg = m
    BY <1>1, <2>1, <2>2, <2>4 DEF TypeInv, TypeOK, Job, Accepted
  <2> QED BY <2>5
<1> QED BY <1>3, <1>4

\* A quiet system has no conversation that its landlord answered and that is still a
\* new inquiry, although every request decides from the snapshot it took at its
\* start; only an answer whose own request died may leave it one.
THEOREM QuietReplyActivatesCorrect == Spec => []QuietReplyActivates
<1>1. Init => PendingInv
  BY ThreadInit DEF Init, PendingInv, SnapshotKept, ReplyPending, Rows, Idle, ComposeStep
<1>2. PendingInv /\ [Next]_vars => PendingInv'
  BY PendingStep
<1>3. Spec => []PendingInv
  BY <1>1, <1>2, PTL DEF Spec
<1>4. PendingInv => QuietReplyActivates
  <2> SUFFICES ASSUME PendingInv, Busy = {}, NEW m \in Rows \ cut, LandlordSpoke(m),
                      convs[messages[m].conv].status = "NEW_INQUIRY"
               PROVE  FALSE
    BY DEF QuietReplyActivates, LandlordSpoke
  <2>1. PICK r \in Slot : req[r].step \in Accepted
    BY DEF PendingInv, ReplyPending
  <2>2. r \in Busy
    BY <2>1 DEF Busy, Accepted
  <2> QED BY <2>2
<1> QED BY <1>3, <1>4, PTL

-----------------------------------------------------------------------------
(* Forwarding *)

\* A text is received only once, and nobody else changes its thread.
LEMMA ReceivedStep ==
    ASSUME TypeInv, [Next]_vars, NEW m \in Rows, messages'[m].status = "RECEIVED"
    PROVE  /\ messages[m].status = "RECEIVED"
           /\ messages'[m].conv = messages[m].conv /\ messages'[m].sender = messages[m].sender
<1>1. messages'[m].conv = messages[m].conv /\ messages'[m].sender = messages[m].sender
  BY RowStep
<1>2. messages[m].status = "RECEIVED"
  <2>1. CASE \E r \in Slot : Store(r) \/ StoreBlocked(r)
    BY <2>1, StoreStep
  <2>2. CASE \E r \in Slot : MarkSent(r) \/ ApplyStatus(r)
    BY <2>2, RewriteStep DEF Sending
  <2>3. CASE ~ \E r \in Slot : Store(r) \/ StoreBlocked(r) \/ MarkSent(r) \/ ApplyStatus(r)
    BY <2>3, QuietStep
  <2> QED BY <2>1, <2>2, <2>3
<1> QED BY <1>1, <1>2

\* A request that forwards a text goes on with it until the text is marked, or dies.
LEMMA ForwardStep ==
    ASSUME TypeInv, [Next]_vars, NEW q \in Slot, req[q].step \in {"send", "markSent"},
           req[q].msg \notin cut', messages'[req[q].msg].status = "RECEIVED"
    PROVE  req'[q].step \in {"send", "markSent"} /\ req'[q].msg = req[q].msg
<1>1. CASE req'[q] = req[q]
  BY <1>1
<1>2. CASE Arrival(q) \/ Serve(q) \/ Abort(q)
  <2>1. req \in [Slot -> {Idle} \cup Job \cup Callback] /\ req[q] \in Job /\ req[q].msg \in Rows
    BY JobAt DEF TypeInv, TypeOK, RowsKept, AfterStore, ComposeStep
  <2>2. ~Arrival(q)
    BY DEF Arrival, BeginCompose, BeginIngest, BeginCallback, At
  <2>3. ~Abort(q)
    BY <2>1 DEF Abort, At
  <2>4. ~MarkSent(q)
    BY RewriteStep DEF Sending
  <2>5. Send(q)
    BY <1>2, <2>2, <2>3, <2>4
       DEF Serve, CheckRestriction, Evaluate, Store, StoreBlocked, InsertFails, CountPrior,
           RecordViolation, TempRestrict, RaiseFlag, FlagConversation, Notice, Touch,
           ApplyStatus, At
  <2> QED BY <2>1, <2>5 DEF Send, Goto, Job
<1> QED BY <1>1, <1>2, SlotOrigin

\* Every step keeps it: the text is stored together with the intent to forward it,
\* and that intent ends with the mark, or with the request.
LEMMA StrandedStep ==
    ASSUME ThreadInv, NoTextStranded, [Next]_vars
    PROVE  NoTextStranded'
<1>1. ThreadInv' /\ GateInv /\ TypeInv /\ TypeInv'
  BY ThreadStep DEF ThreadInv, GateInv
<1>2. SUFFICES ASSUME NEW m \in Rows', m \notin cut', messages'[m].status = "RECEIVED",
                      Recipient(messages'[m].conv, messages'[m].sender) \in Reachable
               PROVE  \E r \in Slot : req'[r].step \in {"send", "markSent"} /\ req'[r].msg = m
  <2>1. ASSUME NEW r \in Slot, req'[r].step \in {"send", "markSent"}
        PROVE  r \in Busy'
    BY <2>1 DEF Busy
  <2> QED BY <2>1 DEF NoTextStranded
<1>3. CASE m \in Rows
  <2>1. /\ messages'[m].conv = messages[m].conv /\ messages'[m].sender = messages[m].sender
        /\ messages[m].status = "RECEIVED"
    BY <1>1, <1>2, <1>3, ReceivedStep
  <2>2. m \notin cut
    BY <1>2, CutKept
  <2>3. PICK r \in Busy : req[r].step \in {"send", "markSent"} /\ req[r].msg = m
    BY <1>2, <1>3, <2>1, <2>2 DEF NoTextStranded
  <2>4. r \in Slot /\ req[r].step \in Accepted
    BY <2>3 DEF Busy, Accepted
  <2> QED BY <1>1, <1>2, <2>1, <2>3, <2>4, ForwardStep
<1>4. CASE m \notin Rows
  <2>1. PICK r \in Slot : (Store(r) \/ StoreBlocked(r)) /\ m = Len(messages) + 1
    BY <1>1, <1>4, NewRow
  <2>2. Stores(r) /\ req[r] \in Job
    BY <1>1, <2>1, StoreStep
  <2>3. Store(r) /\ messages'[m].conv = req[r].conv /\ messages'[m].sender = req[r].user
    BY <1>2, <2>1, <2>2 DEF Stores, InsertedRow
  <2>4. req' = [req EXCEPT ![r] = [req[r] EXCEPT !.step = "send", !.msg = Len(messages) + 1]]
    BY <1>2, <2>3 DEF Store
  <2>5. req'[r].step = "send" /\ req'[r].msg = m
    BY <1>1, <2>1, <2>2, <2>4 DEF TypeInv, TypeOK, Job
  <2> QED BY <2>5
<1> QED BY <1>3, <1>4

\* A stored text is forwarded by the request that stored it or by nobody: wherever
\* requests overlap and the carrier repeats itself, only a request that died leaves a
\* text in RECEIVED whose recipient could have been reached.
THEOREM NoTextStrandedCorrect == Spec => []NoTextStranded
<1>1. Init => ThreadInv /\ NoTextStranded
  BY ThreadInit DEF Init, NoTextStranded, Rows
<1>2. ThreadInv /\ NoTextStranded /\ [Next]_vars => (ThreadInv /\ NoTextStranded)'
  BY ThreadStep, StrandedStep
<1> QED BY <1>1, <1>2, PTL DEF Spec

-----------------------------------------------------------------------------
(***************************************************************************)
(* History analysis.  SplitNeedsOverlap speaks of stored rows; the         *)
(* invariant also says what a request at `store' brings from its           *)
(* evaluation, and that rows were evaluated before they were numbered.     *)
(***************************************************************************)
\* One user's unblocked messages of one conversation among rows S of a table.
ThreadRows(rows, S, c, u) ==
    {i \in S : rows[i].conv = c /\ rows[i].sender = u /\ rows[i].status # "BLOCKED"}

\* Row m is one half of a pair for a "half" of u evaluated when the table had
\* `last' rows and those up to `old' were too old.
OtherHalf(rows, m, c, u, last, old) ==
    /\ m \in ThreadRows(rows, 1..last, c, u) /\ rows[m].content = "half" /\ m > old
    /\ Cardinality(ThreadRows(rows, (m + 1)..last, c, u)) < Lookback

Evaluated == \A r \in Slot : req[r].step \in {"store", "storeBlocked"} =>
    req[r].seen <= Len(messages)

GateClean == \A r \in Slot : req[r].step = "store" /\ req[r].content = "half" =>
    \A m \in 1..req[r].seen :
       ~OtherHalf(messages, m, req[r].conv, req[r].user, req[r].seen, req[r].cutoff)

RowsClean == \A n \in Rows :
    /\ messages[n].seen < n
    /\ messages[n].content = "half" /\ messages[n].status # "BLOCKED" =>
          \A m \in 1..messages[n].seen :
             ~OtherHalf(messages, m, messages[n].conv, messages[n].sender, messages[n].seen,
                        messages[n].cutoff)

SplitInv == GateInv /\ Evaluated /\ GateClean /\ RowsClean

\* Rows already stored keep their thread, so what was no pair never becomes one.
LEMMA OtherHalfKept ==
    ASSUME GateInv, [Next]_vars
    PROVE  \A last \in Nat, m \in Nat : \A c, u, old :
              last <= Len(messages) /\ m \in 1..last /\ ~OtherHalf(messages, m, c, u, last, old)
                 => ~OtherHalf(messages', m, c, u, last, old)
<1> SUFFICES ASSUME NEW last \in Nat, NEW m \in 1..last, NEW c, NEW u, NEW old,
                    last <= Len(messages), OtherHalf(messages', m, c, u, last, old)
             PROVE  OtherHalf(messages, m, c, u, last, old)
  OBVIOUS
<1>1. TypeInv /\ Rows = 1..Len(messages) /\ Len(messages) \in Nat
  BY DEF GateInv, TypeInv, TypeOK, Rows
<1>2. ASSUME NEW i \in 1..last
      PROVE  /\ messages'[i].conv = messages[i].conv /\ messages'[i].sender = messages[i].sender
             /\ messages'[i].content = messages[i].content
             /\ messages'[i].status # "BLOCKED" <=> messages[i].status # "BLOCKED"
  <2>1. i \in Rows
    BY <1>1
  <2> QED BY <1>1, <2>1, RowStep, BlockedKept
<1>3. ThreadRows(messages', (m + 1)..last, c, u) = ThreadRows(messages, (m + 1)..last, c, u)
  <2>1. \A i \in (m + 1)..last : i \in 1..last
    OBVIOUS
  <2> QED BY <1>2, <2>1 DEF ThreadRows
<1>4. m \in ThreadRows(messages, 1..last, c, u)
  BY <1>2 DEF ThreadRows, OtherHalf
<1> QED BY <1>2, <1>3, <1>4 DEF OtherHalf

\* What the gate lets through completes no split with a message already stored.
LEMMA EvaluateClean ==
    ASSUME TypeInv, NEW c, NEW u, ~Blocks(c, u, "half"), NEW m \in 1..Len(messages)
    PROVE  ~OtherHalf(messages, m, c, u, Len(messages), horizon)
<1> SUFFICES ASSUME OtherHalf(messages, m, c, u, Len(messages), horizon) PROVE FALSE
  OBVIOUS
<1>1. Len(messages) \in Nat /\ Rows = 1..Len(messages) /\ horizon \in Nat
  BY DEF TypeInv, TypeOK, Rows
<1> DEFINE own == {i \in Rows : /\ i > horizon
                                /\ messages[i].conv = c /\ messages[i].sender = u
                                /\ messages[i].status # "BLOCKED"}
<1>2. m \in own /\ messages[m].content = "half"
  BY <1>1 DEF OtherHalf, ThreadRows
<1>3. {n \in own : n > m} = ThreadRows(messages, (m + 1)..Len(messages), c, u)
  BY <1>1, <1>2 DEF ThreadRows
<1>4. m \in RecentOwn(c, u)
  <2>1. RecentOwn(c, u) = {k \in own : Cardinality({n \in own : n > k}) < Lookback}
    BY DEF RecentOwn
  <2>2. Cardinality({n \in own : n > m}) < Lookback
    <3> HIDE DEF own
    <3> QED BY <1>3 DEF OtherHalf
  <2> HIDE DEF own
  <2> QED BY <1>2, <2>1, <2>2
<1>5. m \in Halves(RecentOwn(c, u))
  BY <1>2, <1>4 DEF Halves
<1>6. IsFiniteSet(Halves(RecentOwn(c, u)))
  <2>1. IsFiniteSet(Rows)
    BY <1>1, FS_Interval
  <2>2. Halves(RecentOwn(c, u)) \subseteq Rows
    BY DEF Halves, RecentOwn
  <2> QED BY <2>1, <2>2, FS_Subset
<1>7. Cardinality(Halves(RecentOwn(c, u))) \in Nat /\ Cardinality(Halves(RecentOwn(c, u))) # 0
  BY <1>5, <1>6, FS_CardinalityType, FS_EmptySet
<1>8. Blocks(c, u, "half") <=> Cardinality(Halves(RecentOwn(c, u))) + 1 >= 2
  BY <1>4 DEF Blocks
<1> QED BY <1>7, <1>8

\* A request at one of the two inserts has just been evaluated or has waited.
LEMMA EvaluatedStep ==
    ASSUME SplitInv, [Next]_vars
    PROVE  Evaluated' /\ GateClean'
<1>1. TypeInv /\ TypeInv' /\ GateInv /\ Len(messages) \in Nat
  <2>1. TypeInv /\ TypeInv' /\ GateInv
    BY StepTyped DEF SplitInv, GateInv
  <2> QED BY <2>1 DEF TypeInv, TypeOK
<1>2. Len(messages') \in Nat /\ Len(messages) <= Len(messages')
  <2>1. Rows = 1..Len(messages) /\ Rows' = 1..Len(messages') /\ Len(messages') \in Nat
    BY <1>1 DEF TypeInv, TypeOK, Rows
  <2>2. Rows \subseteq Rows'
    BY <1>1, RowStep
  <2> QED BY <1>1, <2>1, <2>2
<1>3. SUFFICES ASSUME NEW q \in Slot, req'[q].step \in {"store", "storeBlocked"}
               PROVE  /\ req'[q].seen <= Len(messages')
                      /\ req'[q].step = "store" /\ req'[q].content = "half" =>
                            \A m \in 1..req'[q].seen :
                               ~OtherHalf(messages', m, req'[q].conv, req'[q].user, req'[q].seen,
                                          req'[q].cutoff)
  BY DEF Evaluated, GateClean
<1>4. CASE req'[q] = req[q]
  <2>1. req[q] \in Job
    BY <1>1, <1>3, <1>4, JobAt DEF TypeInv, ComposeStep
  <2>2. req[q].seen \in Nat /\ req[q].seen <= Len(messages)
    BY <1>3, <1>4, <2>1 DEF SplitInv, Evaluated, Job
  <2>3. ASSUME req[q].step = "store", req[q].content = "half", NEW m \in 1..req[q].seen
        PROVE  ~OtherHalf(messages', m, req[q].conv, req[q].user, req[q].seen, req[q].cutoff)
    <3>1. ~OtherHalf(messages, m, req[q].conv, req[q].user, req[q].seen, req[q].cutoff)
      BY <2>3 DEF SplitInv, GateClean
    <3> QED BY <1>1, <2>2, <3>1, OtherHalfKept
  <2> QED BY <1>1, <1>2, <1>4, <2>2, <2>3
<1>5. CASE Origin(q)
  <2>1. Evaluate(q)
    BY <1>3, <1>5 DEF Origin
  <2>2. req[q] \in Job
    BY <1>1, <2>1, JobAt DEF TypeInv, Evaluate, At, ComposeStep
  <2>3. /\ req'[q].seen = Len(messages) /\ req'[q].cutoff = horizon
        /\ req'[q].conv = req[q].conv /\ req'[q].user = req[q].user
        /\ req'[q].content = req[q].content
        /\ req'[q].step = "store" => ~Blocks(req[q].conv, req[q].user, req[q].content)
    BY <1>1, <2>1, <2>2 DEF Evaluate, TypeInv, TypeOK, Job
  <2>4. messages' = messages
    BY <2>1 DEF Evaluate
  <2>5. ASSUME req'[q].step = "store", req'[q].content = "half", NEW m \in 1..Len(messages)
        PROVE  ~OtherHalf(messages, m, req[q].conv, req[q].user, Len(messages), horizon)
    BY <1>1, <2>3, <2>5, EvaluateClean
  <2> QED BY <1>1, <2>3, <2>4, <2>5
<1> QED BY <1>1, <1>4, <1>5, SlotOrigin

\* A row keeps what it was evaluated against, and a new row brings its request's.
LEMMA RowsCleanStep ==
    ASSUME SplitInv, [Next]_vars
    PROVE  RowsClean'
<1>1. TypeInv /\ TypeInv' /\ GateInv /\ Len(messages) \in Nat /\ Rows = 1..Len(messages)
  <2>1. TypeInv /\ TypeInv' /\ GateInv
    BY StepTyped DEF SplitInv, GateInv
  <2> QED BY <2>1 DEF TypeInv, TypeOK, Rows
<1>2. SUFFICES ASSUME NEW n \in Rows'
               PROVE  /\ messages'[n].seen < n
                      /\ messages'[n].content = "half" /\ messages'[n].status # "BLOCKED" =>
                            \A m \in 1..messages'[n].seen :
                               ~OtherHalf(messages', m, messages'[n].conv, messages'[n].sender,
                                          messages'[n].seen, messages'[n].cutoff)
  BY DEF RowsClean
<1>3. CASE n \in Rows
  <2>1. /\ messages'[n].conv = messages[n].conv /\ messages'[n].sender = messages[n].sender
        /\ messages'[n].content = messages[n].content /\ messages'[n].seen = messages[n].seen
        /\ messages'[n].cutoff = messages[n].cutoff
        /\ messages'[n].status # "BLOCKED" => messages[n].status # "BLOCKED"
    BY <1>1, <1>3, RowStep, BlockedKept
  <2>2. messages[n].seen \in Nat /\ messages[n].seen < n /\ messages[n].seen <= Len(messages)
    <3>1. messages[n] \in MessageRow /\ messages[n].seen < n
      BY <1>1, <1>3 DEF SplitInv, RowsClean, TypeInv, TypeOK, Rows
    <3> QED BY <1>1, <1>3, <3>1 DEF MessageRow
  <2>3. ASSUME messages[n].content = "half", messages[n].status # "BLOCKED",
               NEW m \in 1..messages[n].seen
        PROVE  ~OtherHalf(messages', m, messages[n].conv, messages[n].sender, messages[n].seen,
                          messages[n].cutoff)
    <3>1. ~OtherHalf(messages, m, messages[n].conv, messages[n].sender, messages[n].seen,
                     messages[n].cutoff)
      BY <1>3, <2>3 DEF SplitInv, RowsClean
    <3> QED BY <1>1, <2>2, <3>1, OtherHalfKept
  <2> QED BY <2>1, <2>2, <2>3
<1>4. CASE n \notin Rows
  <2>1. PICK r \in Slot : (Store(r) \/ StoreBlocked(r)) /\ n = Len(messages) + 1
    BY <1>1, <1>4, NewRow
  <2>2. Stores(r) /\ req[r] \in Job
    BY <1>1, <2>1, StoreStep
  <2>3. /\ messages'[n].conv = req[r].conv /\ messages'[n].sender = req[r].user
        /\ messages'[n].content = req[r].content /\ messages'[n].seen = req[r].seen
        /\ messages'[n].cutoff = req[r].cutoff
        /\ messages'[n].status # "BLOCKED" => Store(r)
    BY <2>1, <2>2 DEF Stores, InsertedRow
  <2>4. req[r].seen \in Nat /\ req[r].seen <= Len(messages)
    BY <2>1, <2>2 DEF SplitInv, Evaluated, Store, StoreBlocked, At, Job
  <2>5. ASSUME Store(r), req[r].content = "half", NEW m \in 1..req[r].seen
        PROVE  ~OtherHalf(messages', m, req[r].conv, req[r].user, req[r].seen, req[r].cutoff)
    <3>1. ~OtherHalf(messages, m, req[r].conv, req[r].user, req[r].seen, req[r].cutoff)
      BY <2>5 DEF SplitInv, GateClean, Store, At
    <3> QED BY <1>1, <2>4, <3>1, OtherHalfKept
  <2> QED BY <1>1, <2>1, <2>3, <2>4, <2>5
<1> QED BY <1>3, <1>4

\* History analysis closes the gap between two requests that do not overlap:
\* contact information split over two messages gets past it only when the second
\* was evaluated before the first was stored, whatever the look-back.
THEOREM SplitNeedsOverlapCorrect == Spec => []SplitNeedsOverlap
<1>1. Init => SplitInv
  BY ThreadInit DEF Init, SplitInv, ThreadInv, Evaluated, GateClean, RowsClean, Rows, Idle
<1>2. SplitInv /\ [Next]_vars => SplitInv'
  BY GateStep, EvaluatedStep, RowsCleanStep DEF SplitInv
<1>3. Spec => []SplitInv
  BY <1>1, <1>2, PTL DEF Spec
<1>4. SplitInv => SplitNeedsOverlap
  <2> SUFFICES ASSUME SplitInv, NEW n \in Rows, NEW m \in 1..messages[n].seen,
                      SplitPair(m, n, messages[n].seen)
               PROVE  FALSE
    BY DEF SplitNeedsOverlap
  <2>1. {i \in (m + 1)..messages[n].seen : SameThread(i, n)} =
           ThreadRows(messages, (m + 1)..messages[n].seen, messages[n].conv, messages[n].sender)
    BY DEF SplitPair, SameThread, ThreadRows
  <2>2. OtherHalf(messages, m, messages[n].conv, messages[n].sender, messages[n].seen,
                  messages[n].cutoff)
    BY <2>1 DEF SplitPair, SameThread, ThreadRows, OtherHalf
  <2>3. messages[n].content = "half" /\ messages[n].status # "BLOCKED"
    BY DEF SplitPair, SameThread
  <2> QED BY <2>2, <2>3 DEF SplitInv, RowsClean
<1> QED BY <1>3, <1>4, PTL

=============================================================================
