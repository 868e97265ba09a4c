----------------------------- MODULE Conversations -----------------------------
(***************************************************************************)
(* ConversationsService.startConversation and assignRelayNumber: a tenant  *)
(* writes to a property's landlord for the first time, or again, and a new *)
(* conversation takes a number from the relay pool.  The lookup of an open *)
(* conversation, the choice of a number and the insert are three           *)
(* statements; nothing in the schema makes a tenant's conversation about a *)
(* property unique, and nothing locks the pool.  No code closes a          *)
(* conversation or releases an assignment.                                 *)
(***************************************************************************)
EXTENDS ApiCalls

CONSTANTS
    Seeker,    \* the tenants
    Home,      \* the properties
    Relay,     \* the active relay numbers
    Capacity,  \* capacityLimit
    MaxThreads \* bound: rows of Conversation

VARIABLE threads \* Conversation rows with their relay assignment

threadVars == <<threads, call>>

\* seen is history: how many conversations existed when this one's start
\* looked for one to reuse.
ThreadRow == [tenant : Seeker, home : Home, relay : Relay,
              status : {"NEW_INQUIRY", "ACTIVE"}, seen : Nat]
StartCall == [step : {"assignRelay"}, tenant : Seeker, home : Home, seen : Nat]
             \cup [step : {"createThread"}, tenant : Seeker, home : Home, seen : Nat,
                   relay : Relay]

ASSUME ConversationsAssumption == Capacity \in Nat /\ MaxThreads \in Nat

\* Bound: a start that finds no conversation goes on only while a new one fits.
Starting == {r \in Slot : At(r, "assignRelay") \/ At(r, "createThread")}
RoomForThread == Len(threads) + Cardinality(Starting) < MaxThreads

\* Mutant: only conversations nobody has answered yet are reused.
OpenThreadsUnanswered(u, h) ==
    {i \in DOMAIN threads : /\ threads[i].tenant = u /\ threads[i].home = h
                            /\ threads[i].status = "NEW_INQUIRY"}

\* The tenant's conversations about the property that are neither closed nor
\* blocked, which no conversation ever is.
OpenThreads(u, h) == {i \in DOMAIN threads : threads[i].tenant = u /\ threads[i].home = h}

Assigned(n) == Cardinality({i \in DOMAIN threads : threads[i].relay = n})

\* Mutant: a number at its limit still counts as available.
AvailableAtLimit == {n \in Relay : Assigned(n) <= Capacity}

Available == {n \in Relay : Assigned(n) < Capacity}

ThreadsInit == threads = <<>> /\ call = NoCalls

\* An open conversation is reused, which changes nothing here: the message goes
\* through the pipeline of module Messaging either way.
BeginStart(r, u, h) ==
    /\ OpenThreads(u, h) = {} /\ RoomForThread
    /\ Begin(r, [step |-> "assignRelay", tenant |-> u, home |-> h, seen |-> Len(threads)])
    /\ UNCHANGED threads

\* The least loaded number below its limit, as counted now.
AssignRelay(r) ==
    LET c == call[r] IN
    /\ At(r, "assignRelay")
    /\ \E n \in Available :
          /\ \A o \in Available : Assigned(n) <= Assigned(o)
          /\ call' = [call EXCEPT ![r] = [step |-> "createThread", tenant |-> c.tenant,
                                          home |-> c.home, seen |-> c.seen, relay |-> n]]
    /\ UNCHANGED threads

\* "No relay numbers are currently available."
PoolExhausted(r) ==
    /\ At(r, "assignRelay") /\ Available = {}
    /\ Return(r)
    /\ UNCHANGED threads

\* One nested insert: the conversation, its participants, its assignment.
CreateThread(r) ==
    LET c == call[r] IN
    /\ At(r, "createThread")
    /\ threads' = Append(threads, [tenant |-> c.tenant, home |-> c.home, relay |-> c.relay,
                                   status |-> "NEW_INQUIRY", seen |-> c.seen])
    /\ Return(r)

\* The landlord's first reply, through the pipeline.
Answered(i) ==
    /\ threads[i].status = "NEW_INQUIRY"
    /\ threads' = [threads EXCEPT ![i].status = "ACTIVE"]
    /\ UNCHANGED call

AbortStart(r) == Abort(r) /\ UNCHANGED threads

ThreadsNext ==
    \/ \E r \in Slot : \/ \E u \in Seeker, h \in Home : BeginStart(r, u, h)
                       \/ AssignRelay(r) \/ PoolExhausted(r) \/ CreateThread(r) \/ AbortStart(r)
    \/ \E i \in DOMAIN threads : Answered(i)

ThreadsSpec == ThreadsInit /\ [][ThreadsNext]_threadVars

-----------------------------------------------------------------------------
(* Properties *)

\* Rows and calls have their shape.
ThreadsTypeOK ==
    /\ threads \in Seq(ThreadRow)
    /\ \A r \in Slot : call[r] \in {Free} \cup StartCall

\* README.md promises one conversation per tenant and property.  Two exist only
\* when the second start looked before the first one's insert: a tenant who
\* writes again later, answered or not, always gets the old conversation.
DuplicateNeedsOverlap ==
    \A i, j \in DOMAIN threads :
        (i < j /\ threads[i].tenant = threads[j].tenant /\ threads[i].home = threads[j].home)
            => threads[j].seen < i

\* The pool's limit is read before the insert, so overlapping starts overrun it,
\* but never by more than the calls that can be between the two.
OverrunNeedsOverlap == \A n \in Relay : Assigned(n) <= Capacity + Overlap

=============================================================================
