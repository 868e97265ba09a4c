------------------------------ MODULE SmsRouting ------------------------------
(***************************************************************************)
(* SmsRoutingService.route and SmsWebhooksController.inbound in front of   *)
(* Messaging: which conversation a text belongs to, and the numbered menu  *)
(* texted back when the sender has several on the relay number.  The       *)
(* pending menu lives in Redis, outside the database, and the carrier may  *)
(* deliver any text any number of times.                                   *)
(*                                                                         *)
(* A slot serves a routing step (route) or, once the text is handed over,  *)
(* ingestInbound (req); Messaging's own way in for texts is not used here. *)
(***************************************************************************)
EXTENDS Messaging, SequencesExt

CONSTANTS
    Relay,
    RelayOf,  \* [Conv -> Relay]: the assignment row of each conversation
    SentTo,   \* [Inbound -> Relay]
    Pick      \* [Inbound -> Nat]: parseInt of the body, 0 when it is not a number

VARIABLES
    menus,    \* Redis: the pending menu per relay and phone
    route,    \* per slot, the text being routed
    sent,     \* texts the phones have sent so far
    choices   \* history: <<q, p, c>> when text q picked conversation c for text p

routingVars == <<menus, route, sent, choices>>
allVars == <<vars, routingVars>>

Key == Relay \X User
NoMenu == [convs |-> <<>>]
Free == [step |-> "free"]

\* The table of conversations is finite.
ASSUME RoutingAssumption ==
    /\ IsFiniteSet(Conv)
    /\ RelayOf \in [Conv -> Relay] /\ SentTo \in [Inbound -> Relay]
    /\ Pick \in [Inbound -> Nat]

menuKey(relay, user) == <<relay, user>>

KeyOf(p) == menuKey(SentTo[p], Text[p].user)

\* The sender's conversations through the number that was texted.
Candidates(p) == {c \in Conv : Participant(c, Text[p].user) /\ RelayOf[c] = SentTo[p]}

\* lastMessageAt descending, which puts NULLs first.
NotAfter(c, d) ==
    \/ convs[c].lastMessageAt = 0
    \/ convs[d].lastMessageAt # 0 /\ convs[c].lastMessageAt >= convs[d].lastMessageAt
MenuOrders(p) == {list \in SetToSeqs(Candidates(p)) :
                    \A i, j \in DOMAIN list : i < j => NotAfter(list[i], list[j])}

InRoute(r, s) == route[r].step = s
Finish(r) == route' = [route EXCEPT ![r] = Free]

-----------------------------------------------------------------------------
RoutingInit ==
    /\ Init
    /\ menus = [k \in Key |-> NoMenu]
    /\ route = [r \in Slot |-> Free]
    /\ sent = {}
    /\ choices = {}

\* A phone sends a text.  A number may answer a menu or just be what the
\* sender wanted to say: the code cannot tell them apart.
PhoneSends(p) ==
    /\ p \notin sent
    /\ sent' = sent \cup {p}
    /\ UNCHANGED <<vars, menus, route, choices>>

\* redis.get: a number that fits the pending menu selects from it.
Receive(r, p) ==
    LET pending == menus[KeyOf(p)]
        valid == Pick[p] \in DOMAIN pending.convs
    IN
    /\ p \in sent
    /\ InRoute(r, "free") /\ At(r, "idle")
    /\ route' = [route EXCEPT ![r] =
                    IF valid
                    THEN [step |-> "consume", by |-> p, text |-> pending.text,
                          conv |-> pending.convs[Pick[p]]]
                    ELSE [step |-> "resolve", text |-> p]]
    /\ UNCHANGED <<vars, menus, sent, choices>>

\* Mutant: the digit reply itself goes on to the chosen conversation.
ConsumeForwardsDigit(r) ==
    LET s == route[r] IN
    /\ InRoute(r, "consume")
    /\ menus' = [menus EXCEPT ![KeyOf(s.by)] = NoMenu]
    /\ route' = [route EXCEPT ![r].step = "handoff", ![r].text = s.by]
    /\ choices' = choices \cup {<<s.by, s.text, s.conv>>}
    /\ UNCHANGED <<vars, sent>>

\* redis.del, then the original text goes on under its own provider id.
Consume(r) ==
    LET s == route[r] IN
    /\ InRoute(r, "consume")
    /\ menus' = [menus EXCEPT ![KeyOf(s.by)] = NoMenu]
    /\ route' = [route EXCEPT ![r].step = "handoff"]
    /\ choices' = choices \cup {<<s.by, s.text, s.conv>>}
    /\ UNCHANGED <<vars, sent>>

\* Mutant: several candidates, and the most recent conversation is taken.
ResolveGuesses(r) ==
    LET p == route[r].text IN
    /\ InRoute(r, "resolve")
    /\ Candidates(p) # {}
    /\ \E list \in MenuOrders(p) :
          route' = [route EXCEPT ![r] = [step |-> "handoff", text |-> p, conv |-> list[1]]]
    /\ UNCHANGED <<vars, menus, sent, choices>>

Resolve(r) ==
    LET p == route[r].text IN
    /\ InRoute(r, "resolve")
    /\ \E list \in MenuOrders(p) :
          route' = [route EXCEPT ![r] =
             CASE Len(list) = 0 -> Free
               [] Len(list) = 1 -> [step |-> "handoff", text |-> p, conv |-> list[1]]
               [] OTHER -> [step |-> "storeMenu", text |-> p, convs |-> list]]
    /\ UNCHANGED <<vars, menus, sent, choices>>

\* redis.set replaces whatever menu was pending for this relay and phone.
StoreMenu(r) ==
    LET s == route[r] IN
    /\ InRoute(r, "storeMenu")
    /\ menus' = [menus EXCEPT ![KeyOf(s.text)] = [text |-> s.text, convs |-> s.convs]]
    /\ route' = [route EXCEPT ![r].step = "sendMenu"]
    /\ UNCHANGED <<vars, sent, choices>>

\* The menu is texted back; only the phone sees it.
SendMenu(r) ==
    /\ InRoute(r, "sendMenu")
    /\ Finish(r)
    /\ UNCHANGED <<vars, menus, sent, choices>>

\* ingestInbound takes over, or answers from the row it finds.
Handoff(r) ==
    LET s == route[r] IN
    /\ InRoute(r, "handoff")
    /\ IF HasRow(s.text) THEN UNCHANGED vars
       ELSE BeginIngest(r, s.conv, Text[s.text].user, Text[s.text].content, s.text)
    /\ Finish(r)
    /\ UNCHANGED <<menus, sent, choices>>

\* MENU_TTL_SECONDS pass.
MenuExpires(k) ==
    /\ menus[k] # NoMenu
    /\ menus' = [menus EXCEPT ![k] = NoMenu]
    /\ UNCHANGED <<vars, route, sent, choices>>

\* A Redis, database or provider call throws, or the process dies.
AbortRoute(r) ==
    /\ Faults /\ ~InRoute(r, "free")
    /\ Finish(r)
    /\ UNCHANGED <<vars, menus, sent, choices>>

-----------------------------------------------------------------------------
RouteStep(r) ==
    Consume(r) \/ Resolve(r) \/ StoreMenu(r) \/ SendMenu(r) \/ Handoff(r)

\* Conversations also move because people write in the app.
AppStep(r) ==
    /\ \/ /\ InRoute(r, "free")
          /\ \E c \in Conv, u \in Writer, k \in Contents : BeginCompose(r, c, u, k)
       \/ Serve(r)
       \/ Abort(r)
    /\ UNCHANGED routingVars

RoutingNext ==
    \/ \E p \in Inbound : PhoneSends(p)
    \/ \E r \in Slot : \/ \E p \in Inbound : Receive(r, p)
                       \/ RouteStep(r) \/ AbortRoute(r) \/ AppStep(r)
    \/ \E k \in Key : MenuExpires(k)

RoutingSpec == RoutingInit /\ [][RoutingNext]_allVars

-----------------------------------------------------------------------------
(* Properties *)

\* A stored text is in one of its sender's conversations on the number it was
\* sent to; with several of those, in one the sender picked for that very text.
\* Retries, expired menus and texts to other numbers change nothing about it.
NeverGuesses ==
    \A m \in Rows : LET p == messages[m].pid IN
        p \in Inbound =>
            /\ messages[m].conv \in Candidates(p)
            /\ Cardinality(Candidates(p)) > 1 =>
                  \E q \in Inbound : <<q, p, messages[m].conv>> \in choices

\* While requests are not cut short, a text its sender chose a conversation for
\* is stored, whichever of several overlapping replies consumed the menu.
ChosenTextIsStored ==
    \A p \in Inbound : (\E ch \in choices : ch[2] = p) ~> HasRow(p)

=============================================================================
