------------------------------- MODULE Showings -------------------------------
(***************************************************************************)
(* ShowingsService for one conversation: proposing times, accepting one,   *)
(* cancelling and completing.  Each call changes the showing first and the *)
(* conversation's status afterwards; only acceptSlot's three updates are a *)
(* transaction.  No call looks at the status of the showing it changes.    *)
(* The message pipeline writes the same conversation status from a         *)
(* snapshot of its own (MessagesService, module Messaging).                *)
(***************************************************************************)
EXTENDS ApiCalls

CONSTANTS
    MaxShowings, \* bound: rows of Showing
    MaxTimes     \* bound: time slots of a showing

VARIABLES
    talk,     \* Conversation.status
    showings, \* Showing rows with their time slots
    invited   \* the calendar invitations sent: <<showing, time slot>>

showingVars == <<talk, showings, invited, call>>

TalkStatus == {"NEW_INQUIRY", "ACTIVE", "SHOWING_REQUESTED", "SHOWING_SCHEDULED"}
ShowingStatus == {"REQUESTED", "SLOT_PROPOSED", "SCHEDULED", "CANCELLED", "COMPLETED"}
OpenStatuses == {"REQUESTED", "SLOT_PROPOSED", "SCHEDULED"}
\* times: isSelected of each time slot; scheduledAt: the slot's number, 0 is null.
ShowingRow == [status : ShowingStatus, times : Seq(BOOLEAN), scheduledAt : Nat]
ShowingCall == [step : {"createShowing", "markRequested", "markActive", "touch"}]
               \cup [step : {"addTime", "markProposed"}, showing : Nat]
               \cup [step : {"select", "markScheduled", "invite"}, showing : Nat, time : Nat]

ASSUME ShowingsAssumption == MaxShowings \in Nat /\ MaxTimes \in Nat

ShowingsInit ==
    /\ talk = "NEW_INQUIRY"
    /\ showings = <<>>
    /\ invited = {}
    /\ call = NoCalls

OpenShowings == {s \in DOMAIN showings : showings[s].status \in OpenStatuses}
Newest(S) == {s \in S : \A o \in S : o <= s}

\* Bounds: proposals in progress count, as what they add has to fit.
Proposals(s) == {r \in Slot : At(r, "addTime") /\ call[r].showing = s}
RoomForTime(s) == Len(showings[s].times) + Cardinality(Proposals(s)) < MaxTimes
RoomForShowing == Len(showings) + Cardinality({r \in Slot : At(r, "createShowing")}) < MaxShowings

-----------------------------------------------------------------------------
(* propose *)

BeginPropose(r) ==
    /\ \/ /\ OpenShowings = {} /\ RoomForShowing
          /\ Begin(r, [step |-> "createShowing"])
       \/ \E s \in Newest(OpenShowings) :
             RoomForTime(s) /\ Begin(r, [step |-> "addTime", showing |-> s])
    /\ UNCHANGED <<talk, showings, invited>>

CreateShowing(r) ==
    /\ At(r, "createShowing")
    /\ showings' = Append(showings, [status |-> "REQUESTED", times |-> <<FALSE>>,
                                     scheduledAt |-> 0])
    /\ Proceed(r, "markRequested")
    /\ UNCHANGED <<talk, invited>>

AddTime(r) ==
    /\ At(r, "addTime")
    /\ showings' = [showings EXCEPT ![call[r].showing].times = Append(@, FALSE)]
    /\ Proceed(r, "markProposed")
    /\ UNCHANGED <<talk, invited>>

\* Whatever became of the showing since it was found open.
MarkProposed(r) ==
    /\ At(r, "markProposed")
    /\ showings' = [showings EXCEPT ![call[r].showing].status = "SLOT_PROPOSED"]
    /\ call' = [call EXCEPT ![r] = [step |-> "markRequested"]]
    /\ UNCHANGED <<talk, invited>>

MarkRequested(r) ==
    /\ At(r, "markRequested")
    /\ talk' = "SHOWING_REQUESTED"
    /\ Return(r)
    /\ UNCHANGED <<showings, invited>>

-----------------------------------------------------------------------------
(* acceptSlot *)

\* Any slot of any showing of the conversation; rows are never deleted.
BeginAccept(r, s, t) ==
    /\ t \in DOMAIN showings[s].times
    /\ Begin(r, [step |-> "select", showing |-> s, time |-> t])
    /\ UNCHANGED <<talk, showings, invited>>

\* Mutant: the time selected before is not cleared.
SelectToo(r) ==
    LET c == call[r] IN
    /\ At(r, "select")
    /\ showings' = [showings EXCEPT ![c.showing].status = "SCHEDULED",
                                    ![c.showing].scheduledAt = c.time,
                                    ![c.showing].times[c.time] = TRUE]
    /\ Proceed(r, "markScheduled")
    /\ UNCHANGED <<talk, invited>>

\* One transaction: clear every slot, select this one, schedule the showing.
Select(r) ==
    LET c == call[r] IN
    /\ At(r, "select")
    /\ showings' = [showings EXCEPT ![c.showing].status = "SCHEDULED",
                                    ![c.showing].scheduledAt = c.time,
                                    ![c.showing].times = [t \in DOMAIN @ |-> t = c.time]]
    /\ Proceed(r, "markScheduled")
    /\ UNCHANGED <<talk, invited>>

MarkScheduled(r) ==
    /\ At(r, "markScheduled")
    /\ talk' = "SHOWING_SCHEDULED"
    /\ Proceed(r, "invite")
    /\ UNCHANGED <<showings, invited>>

\* sendCalendarInvites, for the slot that was read at the start.
Invite(r) ==
    /\ At(r, "invite")
    /\ invited' = invited \cup {<<call[r].showing, call[r].time>>}
    /\ Return(r)
    /\ UNCHANGED <<talk, showings>>

-----------------------------------------------------------------------------
(* cancel, complete, and the pipeline *)

Cancel(r, s) ==
    /\ showings' = [showings EXCEPT ![s].status = "CANCELLED"]
    /\ Begin(r, [step |-> "markActive"])
    /\ UNCHANGED <<talk, invited>>

MarkActive(r) ==
    /\ At(r, "markActive")
    /\ talk' = "ACTIVE"
    /\ Return(r)
    /\ UNCHANGED <<showings, invited>>

Complete(s) ==
    /\ showings' = [showings EXCEPT ![s].status = "COMPLETED"]
    /\ UNCHANGED <<talk, invited, call>>

\* A landlord's message: becameActive is decided on the row read first.
BeginReply(r) ==
    /\ talk = "NEW_INQUIRY"
    /\ Begin(r, [step |-> "touch"])
    /\ UNCHANGED <<talk, showings, invited>>

Touch(r) ==
    /\ At(r, "touch")
    /\ talk' = "ACTIVE"
    /\ Return(r)
    /\ UNCHANGED <<showings, invited>>

AbortShowing(r) == Abort(r) /\ UNCHANGED <<talk, showings, invited>>

-----------------------------------------------------------------------------
ShowingsNext ==
    \/ \E r \in Slot :
          \/ BeginPropose(r) \/ CreateShowing(r) \/ AddTime(r) \/ MarkProposed(r)
          \/ MarkRequested(r) \/ Select(r) \/ MarkScheduled(r) \/ Invite(r)
          \/ MarkActive(r) \/ BeginReply(r) \/ Touch(r) \/ AbortShowing(r)
          \/ \E s \in DOMAIN showings :
                Cancel(r, s) \/ \E t \in DOMAIN showings[s].times : BeginAccept(r, s, t)
    \/ \E s \in DOMAIN showings : Complete(s)

ShowingsSpec == ShowingsInit /\ [][ShowingsNext]_showingVars

-----------------------------------------------------------------------------
(* Properties *)

\* Rows and calls have their shape.
ShowingsTypeOK ==
    /\ talk \in TalkStatus
    /\ showings \in Seq(ShowingRow)
    /\ invited \subseteq Nat \X Nat
    /\ \A r \in Slot : call[r] \in {Free} \cup ShowingCall

\* However acceptances of different times overlap with proposals, cancellations
\* and crashes: a showing that was ever scheduled has exactly one selected time,
\* the one its scheduledAt speaks of; only such a showing is SCHEDULED, is what
\* the conversation calls scheduled, or has had invitations sent.
OneTimeSelected ==
    /\ \A s \in DOMAIN showings : LET row == showings[s] IN
          /\ {t \in DOMAIN row.times : row.times[t]} = {row.scheduledAt} \ {0}
          /\ row.status = "SCHEDULED" => row.scheduledAt # 0
    /\ talk = "SHOWING_SCHEDULED" => \E s \in DOMAIN showings : showings[s].scheduledAt # 0
    /\ \A i \in invited : showings[i[1]].scheduledAt # 0

=============================================================================
