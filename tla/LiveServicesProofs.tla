-------------------------- MODULE LiveServicesProofs --------------------------
(***************************************************************************)
(* SmsRouting and LiveServices, for any number of texts, relay numbers,    *)
(* conversations, calls, deliveries and orders, with or without faults,    *)
(* lost menus and repeated deliveries: a text is stored only where its     *)
(* sender meant it to go, the three parts of LiveServices do nothing but   *)
(* what their own modules say, and no listing is shown for unpaid months.  *)
(***************************************************************************)
EXTENDS LiveServices, MessagingProofs

-----------------------------------------------------------------------------
(***************************************************************************)
(* The invariant.  NeverGuesses speaks of stored rows; what makes it hold  *)
(* is that the conversation of a text was already chosen when the text was *)
(* handed to ingestInbound, and that a menu only ever lists candidates of  *)
(* the very text it was made for.                                          *)
(***************************************************************************)
\* What is being routed, and the menus a phone may answer.
Route == {Free}
         \cup [step : {"resolve"}, text : Inbound]
         \cup [step : {"consume", "handoff"}, by : Inbound, text : Inbound, conv : Conv]
         \cup [step : {"handoff"}, text : Inbound, conv : Conv]
         \cup [step : {"storeMenu", "sendMenu"}, text : Inbound, convs : Seq(Conv)]
Menu == [text : Inbound, convs : Seq(Conv)]

\* A menu of p offers candidates of p only.
Offers(p, list) == \A i \in DOMAIN list : list[i] \in Candidates(p)

\* The sender of p picked c for it, or there was nothing to pick.
Chosen(p, c) ==
    /\ c \in Candidates(p)
    /\ Cardinality(Candidates(p)) > 1 => \E q \in Inbound : <<q, p, c>> \in choices

MenusKept ==
    /\ menus \in [Key -> {NoMenu} \cup Menu]
    /\ \A k \in Key : menus[k] # NoMenu => Offers(menus[k].text, menus[k].convs)

\* A text on its way goes where it was chosen to go, or is still to be chosen for.
Sound(s) ==
    /\ s.step = "consume" => s.conv \in Candidates(s.text)
    /\ s.step = "handoff" => Chosen(s.text, s.conv)
    /\ s.step = "storeMenu" => Offers(s.text, s.convs)

RoutesKept == route \in [Slot -> Route] /\ \A r \in Slot : Sound(route[r])

JobsChosen ==
    \A r \in Slot : req[r].step \in ComposeStep /\ req[r].pid \in Inbound
                        => Chosen(req[r].pid, req[r].conv)

RoutingInv == TypeInv /\ MenusKept /\ RoutesKept /\ JobsChosen /\ NeverGuesses

-----------------------------------------------------------------------------
(* Choices and lists *)

\* What was chosen stays chosen.
LEMMA ChosenKept ==
    ASSUME NEW p, NEW c, Chosen(p, c), choices \subseteq choices'
    PROVE  Chosen(p, c)'
  BY DEF Chosen, Candidates, Participant

\* A menu of p lists each of p's candidates once, and nothing else.
LEMMA ListOfCandidates ==
    ASSUME NEW p \in Inbound, NEW list \in MenuOrders(p)
    PROVE  /\ list \in Seq(Conv) /\ Offers(p, list)
           /\ Len(list) = Cardinality(Candidates(p)) /\ Len(list) \in Nat
           /\ DOMAIN list = 1..Len(list)
<1>1. Candidates(p) \subseteq Conv
  BY DEF Candidates
<1>2. Cardinality(Candidates(p)) \in Nat
  BY <1>1, RoutingAssumption, FS_Subset, FS_CardinalityType
<1>3. list \in [1..Cardinality(Candidates(p)) -> Candidates(p)]
  BY DEF MenuOrders, SetToSeqs
<1>4. list \in [1..Cardinality(Candidates(p)) -> Conv]
  BY <1>1, <1>3
<1>5. list \in Seq(Conv) /\ Len(list) = Cardinality(Candidates(p))
  BY <1>2, <1>4
<1>6. Offers(p, list)
  BY <1>3 DEF Offers
<1> QED BY <1>2, <1>3, <1>5, <1>6

\* The list of one is the only candidate there is.
LEMMA OnlyCandidate ==
    ASSUME NEW p \in Inbound, NEW list \in MenuOrders(p), Len(list) = 1
    PROVE  list[1] \in Conv /\ Chosen(p, list[1])
<1>1. /\ Offers(p, list) /\ DOMAIN list = 1..Len(list)
      /\ Len(list) = Cardinality(Candidates(p))
  BY ListOfCandidates
<1>2. list[1] \in Candidates(p)
  BY <1>1 DEF Offers
<1>3. ~(Cardinality(Candidates(p)) > 1)
  BY <1>1
<1>4. list[1] \in Conv
  BY <1>2 DEF Candidates
<1> QED BY <1>2, <1>3, <1>4 DEF Chosen

-----------------------------------------------------------------------------
(* Routing steps *)

\* A sound route stays sound.
LEMMA SoundKept ==
    ASSUME NEW s, Sound(s), choices \subseteq choices'
    PROVE  Sound(s)'
<1>1. s.step = "handoff" => Chosen(s.text, s.conv)'
  BY ChosenKept DEF Sound
<1> QED BY <1>1 DEF Sound, Candidates, Participant, Offers

\* A new value in one slot keeps the routes.
LEMMA OneRoute ==
    ASSUME RoutesKept, NEW r \in Slot, NEW s \in Route, route' = [route EXCEPT ![r] = s],
           choices \subseteq choices', Sound(s)'
    PROVE  RoutesKept'
<1>1. route \in [Slot -> Route] /\ route' \in [Slot -> Route]
  BY DEF RoutesKept
<1>2. ASSUME NEW q \in Slot PROVE Sound(route[q])'
  <2>1. PICK t : t = route'[q]
    OBVIOUS
  <2>2. t = s \/ t = route[q]
    BY <1>1, <2>1
  <2>3. Sound(t)'
    <3>1. CASE t = s
      BY <3>1
    <3>2. CASE t = route[q]
      <4>1. Sound(t)
        BY <3>2 DEF RoutesKept
      <4> QED BY <4>1, SoundKept
    <3> QED BY <2>2, <3>1, <3>2
  <2> QED BY <2>1, <2>3 DEF Sound
<1> QED BY <1>1, <1>2 DEF RoutesKept

\* A new menu keeps the menus.
LEMMA OneMenu ==
    ASSUME MenusKept, NEW k \in Key, NEW m \in {NoMenu} \cup Menu,
           menus' = [menus EXCEPT ![k] = m], m # NoMenu => Offers(m.text, m.convs)
    PROVE  MenusKept'
<1>1. menus \in [Key -> {NoMenu} \cup Menu] /\ menus' \in [Key -> {NoMenu} \cup Menu]
  BY DEF MenusKept
<1>2. \A q \in Key : menus'[q] # NoMenu => Offers(menus'[q].text, menus'[q].convs)
  BY <1>1 DEF MenusKept
<1> QED BY <1>1, <1>2 DEF MenusKept, Offers, Candidates, Participant

\* Routes and menus nobody touches.
LEMMA RoutesSame ==
    ASSUME RoutesKept, route' = route, choices \subseteq choices'
    PROVE  RoutesKept'
<1>1. \A r \in Slot : Sound(route[r])'
  <2> SUFFICES ASSUME NEW r \in Slot PROVE Sound(route[r])'
    OBVIOUS
  <2>1. PICK t : t = route[r]
    OBVIOUS
  <2>2. Sound(t)'
    BY <2>1, SoundKept DEF RoutesKept
  <2> QED BY <2>1, <2>2 DEF Sound
<1> QED BY <1>1 DEF RoutesKept

\* Menus nobody touches stay valid: conversations do not change while texts are routed.
LEMMA MenusSame == MenusKept /\ menus' = menus => MenusKept'
  BY DEF MenusKept, Offers, Candidates, Participant

\* A slot leaves the routing, or goes on with a sound route.
LEMMA Freed ==
    ASSUME RoutesKept, NEW r \in Slot, Finish(r), choices' = choices
    PROVE  RoutesKept'
<1>1. Free \in Route /\ Sound(Free)'
  BY DEF Free, Route, Sound
<1> QED BY <1>1, OneRoute DEF Finish

\* A menu is found only under the key of the text it was made for.
LEMMA KeyTyped == ASSUME NEW p \in Inbound PROVE KeyOf(p) \in Key
  BY RoutingAssumption, MessagingAssumption DEF KeyOf, menuKey, Key, TextRow

\* redis.get: what it selects is a candidate of the text the menu was made for.
LEMMA ReceiveKept ==
    ASSUME MenusKept, RoutesKept, NEW r \in Slot, NEW p \in Inbound, Receive(r, p)
    PROVE  RoutesKept'
<1>1. choices' = choices
  BY DEF Receive
<1>2. PICK m : m = menus[KeyOf(p)]
  OBVIOUS
<1>3. CASE Pick[p] \in DOMAIN m.convs
  <2>1. PICK s : s = [step |-> "consume", by |-> p, text |-> m.text, conv |-> m.convs[Pick[p]]]
    OBVIOUS
  <2>2. route' = [route EXCEPT ![r] = s]
    BY <1>2, <1>3, <2>1 DEF Receive
  <2>3. m # NoMenu
    BY <1>3 DEF NoMenu
  <2>4. m \in Menu /\ Offers(m.text, m.convs)
    BY <1>2, <2>3, KeyTyped DEF MenusKept
  <2>5. m.text \in Inbound /\ m.convs[Pick[p]] \in Candidates(m.text)
    BY <1>3, <2>4 DEF Menu, Offers
  <2>6. s \in Route
    BY <2>1, <2>5 DEF Route, Candidates
  <2>7. Sound(s)
    BY <2>1, <2>5 DEF Sound
  <2> QED BY <1>1, <2>2, <2>6, <2>7, SoundKept, OneRoute
<1>4. CASE Pick[p] \notin DOMAIN m.convs
  <2>1. PICK s : s = [step |-> "resolve", text |-> p]
    OBVIOUS
  <2>2. route' = [route EXCEPT ![r] = s]
    BY <1>2, <1>4, <2>1 DEF Receive
  <2>3. s \in Route /\ Sound(s)
    BY <2>1 DEF Route, Sound
  <2> QED BY <1>1, <2>2, <2>3, SoundKept, OneRoute
<1> QED BY <1>3, <1>4

\* redis.del: the sender's pick is on record when the text goes on.
LEMMA ConsumeKept ==
    ASSUME MenusKept, RoutesKept, NEW r \in Slot, Consume(r)
    PROVE  MenusKept' /\ RoutesKept' /\ choices \subseteq choices'
<1>1. PICK s : s = route[r]
  OBVIOUS
<1>2. s \in Route /\ Sound(s) /\ s.step = "consume"
  BY <1>1 DEF RoutesKept, Consume, InRoute
<1>3. s \in [step : {"consume", "handoff"}, by : Inbound, text : Inbound, conv : Conv]
  BY <1>2 DEF Route, Free
<1>4. choices' = choices \cup {<<s.by, s.text, s.conv>>}
  BY <1>1 DEF Consume
<1>5. PICK t : t = [s EXCEPT !.step = "handoff"]
  OBVIOUS
<1>6. /\ t \in Route /\ t.step = "handoff" /\ t.text = s.text /\ t.conv = s.conv
      /\ route' = [route EXCEPT ![r] = t]
  BY <1>1, <1>3, <1>5 DEF Route, Consume
<1>7. Chosen(t.text, t.conv)'
  <2>1. s.conv \in Candidates(s.text)
    BY <1>2 DEF Sound
  <2>2. s.by \in Inbound /\ <<s.by, s.text, s.conv>> \in choices'
    BY <1>3, <1>4
  <2> QED BY <1>6, <2>1, <2>2 DEF Chosen, Candidates, Participant
<1>8. Sound(t)'
  BY <1>6, <1>7 DEF Sound
<1>9. RoutesKept'
  BY <1>4, <1>6, <1>8, OneRoute
<1>10. MenusKept'
  <2>1. KeyOf(s.by) \in Key
    BY <1>3, KeyTyped
  <2> QED BY <1>1, <2>1, OneMenu DEF Consume
<1> QED BY <1>4, <1>9, <1>10

\* findCandidates: one candidate is taken, several make a menu.
LEMMA ResolveKept ==
    ASSUME RoutesKept, NEW r \in Slot, Resolve(r)
    PROVE  RoutesKept'
<1>1. PICK s : s = route[r]
  OBVIOUS
<1>2. s \in Route /\ s.step = "resolve"
  BY <1>1 DEF RoutesKept, Resolve, InRoute
<1>3. s.text \in Inbound
  BY <1>2 DEF Route, Free
<1>4. PICK list \in MenuOrders(s.text) :
         route' = [route EXCEPT ![r] =
             CASE Len(list) = 0 -> Free
               [] Len(list) = 1 -> [step |-> "handoff", text |-> s.text, conv |-> list[1]]
               [] OTHER -> [step |-> "storeMenu", text |-> s.text, convs |-> list]]
  BY <1>1 DEF Resolve
<1>5. choices' = choices
  BY DEF Resolve
<1>6. CASE Len(list) = 0
  <2>1. Finish(r)
    BY <1>4, <1>6 DEF Finish
  <2> QED BY <1>5, <2>1, Freed
<1>7. CASE Len(list) = 1
  <2>1. PICK t : t = [step |-> "handoff", text |-> s.text, conv |-> list[1]]
    OBVIOUS
  <2>2. list[1] \in Conv /\ Chosen(s.text, list[1])
    BY <1>3, <1>7, OnlyCandidate
  <2>3. t \in Route /\ Sound(t)
    BY <1>3, <2>1, <2>2 DEF Route, Sound
  <2>4. route' = [route EXCEPT ![r] = t]
    BY <1>4, <1>7, <2>1
  <2> QED BY <1>5, <2>3, <2>4, SoundKept, OneRoute
<1>8. CASE Len(list) # 0 /\ Len(list) # 1
  <2>1. PICK t : t = [step |-> "storeMenu", text |-> s.text, convs |-> list]
    OBVIOUS
  <2>2. list \in Seq(Conv) /\ Offers(s.text, list)
    BY <1>3, ListOfCandidates
  <2>3. t \in Route /\ Sound(t)
    BY <1>3, <2>1, <2>2 DEF Route, Sound
  <2>4. route' = [route EXCEPT ![r] = t]
    BY <1>4, <1>8, <2>1
  <2> QED BY <1>5, <2>3, <2>4, SoundKept, OneRoute
<1> QED BY <1>6, <1>7, <1>8

\* redis.set: the menu replaces the pending one and lists the text's candidates.
LEMMA StoreMenuKept ==
    ASSUME MenusKept, RoutesKept, NEW r \in Slot, StoreMenu(r)
    PROVE  MenusKept' /\ RoutesKept'
<1>1. PICK s : s = route[r]
  OBVIOUS
<1>2. s \in Route /\ s.step = "storeMenu" /\ Sound(s)
  BY <1>1 DEF RoutesKept, StoreMenu, InRoute
<1>3. s \in [step : {"storeMenu", "sendMenu"}, text : Inbound, convs : Seq(Conv)]
  BY <1>2 DEF Route, Free
<1>4. PICK m : m = [text |-> s.text, convs |-> s.convs]
  OBVIOUS
<1>5. m \in Menu /\ Offers(m.text, m.convs)
  BY <1>2, <1>3, <1>4 DEF Menu, Sound
<1>6. menus' = [menus EXCEPT ![KeyOf(s.text)] = m]
  BY <1>1, <1>4 DEF StoreMenu
<1>7. KeyOf(s.text) \in Key
  BY <1>3, KeyTyped
<1>8. PICK t : t = [s EXCEPT !.step = "sendMenu"]
  OBVIOUS
<1>9. t \in Route /\ t.step = "sendMenu" /\ route' = [route EXCEPT ![r] = t]
  BY <1>1, <1>3, <1>8 DEF Route, StoreMenu
<1>10. Sound(t)'
  BY <1>9 DEF Sound
<1>11. choices' = choices
  BY DEF StoreMenu
<1>12. MenusKept'
  BY <1>5, <1>6, <1>7, OneMenu
<1> QED BY <1>9, <1>10, <1>11, <1>12, OneRoute

\* Every step keeps the menus and the routes, and forgets no choice.
LEMMA RoutingKept ==
    ASSUME MenusKept, RoutesKept, [RoutingNext]_allVars
    PROVE  MenusKept' /\ RoutesKept' /\ choices \subseteq choices'
<1>1. ASSUME menus' = menus, route' = route, choices' = choices
      PROVE  MenusKept' /\ RoutesKept' /\ choices \subseteq choices'
  BY <1>1, MenusSame, RoutesSame
<1>2. ASSUME NEW p \in Inbound, PhoneSends(p)
      PROVE  MenusKept' /\ RoutesKept' /\ choices \subseteq choices'
  BY <1>1, <1>2 DEF PhoneSends
<1>3. ASSUME NEW r \in Slot, NEW p \in Inbound, Receive(r, p)
      PROVE  MenusKept' /\ RoutesKept' /\ choices \subseteq choices'
  <2>1. menus' = menus /\ choices' = choices
    BY <1>3 DEF Receive
  <2> QED BY <1>3, <2>1, ReceiveKept, MenusSame
<1>4. ASSUME NEW r \in Slot, Consume(r)
      PROVE  MenusKept' /\ RoutesKept' /\ choices \subseteq choices'
  BY <1>4, ConsumeKept
<1>5. ASSUME NEW r \in Slot, Resolve(r)
      PROVE  MenusKept' /\ RoutesKept' /\ choices \subseteq choices'
  <2>1. menus' = menus /\ choices' = choices
    BY <1>5 DEF Resolve
  <2> QED BY <1>5, <2>1, ResolveKept, MenusSame
<1>6. ASSUME NEW r \in Slot, StoreMenu(r)
      PROVE  MenusKept' /\ RoutesKept' /\ choices \subseteq choices'
  <2>1. choices' = choices
    BY <1>6 DEF StoreMenu
  <2> QED BY <1>6, <2>1, StoreMenuKept
<1>7. ASSUME NEW r \in Slot, SendMenu(r) \/ Handoff(r) \/ AbortRoute(r)
      PROVE  MenusKept' /\ RoutesKept' /\ choices \subseteq choices'
  <2>1. menus' = menus /\ choices' = choices /\ Finish(r)
    BY <1>7 DEF SendMenu, Handoff, AbortRoute
  <2> QED BY <2>1, Freed, MenusSame
<1>8. ASSUME NEW r \in Slot, AppStep(r)
      PROVE  MenusKept' /\ RoutesKept' /\ choices \subseteq choices'
  BY <1>1, <1>8 DEF AppStep, routingVars
<1>9. ASSUME NEW k \in Key, MenuExpires(k)
      PROVE  MenusKept' /\ RoutesKept' /\ choices \subseteq choices'
  <2>1. route' = route /\ choices' = choices /\ menus' = [menus EXCEPT ![k] = NoMenu]
    BY <1>9 DEF MenuExpires
  <2> QED BY <2>1, OneMenu, RoutesSame
<1>10. CASE UNCHANGED allVars
  BY <1>1, <1>10 DEF allVars, routingVars
<1> QED BY <1>2, <1>3, <1>4, <1>5, <1>6, <1>7, <1>8, <1>9, <1>10 DEF RoutingNext, RouteStep

-----------------------------------------------------------------------------
(* What the routing does to the message pipeline *)

\* ingestInbound is handed a text with the conversation that was chosen for it.
HandsOver(r) ==
    /\ InRoute(r, "handoff")
    /\ BeginIngest(r, route[r].conv, Text[route[r].text].user, Text[route[r].text].content,
                   route[r].text)

\* A routing step leaves the pipeline alone, is the pipeline's own, or hands over.
LEMMA PipelineStep ==
    ASSUME [RoutingNext]_allVars
    PROVE  \/ UNCHANGED vars
           \/ \E r \in Slot : AppStep(r)
           \/ \E r \in Slot : HandsOver(r)
<1>1. CASE \E p \in Inbound : PhoneSends(p) \/ \E r \in Slot : Receive(r, p)
  BY <1>1 DEF PhoneSends, Receive
<1>2. CASE \E r \in Slot : Consume(r) \/ Resolve(r) \/ StoreMenu(r) \/ SendMenu(r) \/ AbortRoute(r)
  BY <1>2 DEF Consume, Resolve, StoreMenu, SendMenu, AbortRoute
<1>3. CASE \E r \in Slot : Handoff(r)
  BY <1>3 DEF Handoff, HandsOver
<1>4. CASE \E k \in Key : MenuExpires(k)
  BY <1>4 DEF MenuExpires
<1>5. CASE UNCHANGED allVars
  BY <1>5 DEF allVars
<1> QED BY <1>1, <1>2, <1>3, <1>4, <1>5 DEF RoutingNext, RouteStep

\* What is handed over is typed, new to the pipeline, and chosen.
LEMMA HandoverStep ==
    ASSUME TypeInv, RoutesKept, NEW r \in Slot, HandsOver(r)
    PROVE  /\ TypeInv' /\ messages' = messages /\ forwarded' = forwarded
           /\ \A q \in Slot \ {r} : req'[q] = req[q]
           /\ req'[r].step = "checkRestriction" /\ req'[r].pid \in Inbound
           /\ Chosen(req'[r].pid, req'[r].conv)
<1>1. PICK s : s = route[r]
  OBVIOUS
<1>2. s \in Route /\ s.step = "handoff" /\ Sound(s)
  BY <1>1 DEF RoutesKept, HandsOver, InRoute
<1>3. s.text \in Inbound /\ s.conv \in Conv /\ Chosen(s.text, s.conv)
  BY <1>2 DEF Route, Free, Sound
<1>4. PICK p : p = s.text
  OBVIOUS
<1>5. p \in Inbound /\ BeginIngest(r, s.conv, Text[p].user, Text[p].content, p)
  BY <1>1, <1>3, <1>4 DEF HandsOver
<1>6. Text[p].user \in User /\ Text[p].content \in ContentKind /\ p \in ProviderId
  BY <1>5, MessagingAssumption DEF TextRow, ProviderId
<1>7. PICK j : j = NewJob("ingest", s.conv, Text[p].user, Text[p].content, p)
  OBVIOUS
<1>8. j \in Job
  BY <1>3, <1>6, <1>7, NewJobType DEF TypeInv
<1>9. /\ j.step = "checkRestriction" /\ j.pid = s.text /\ j.conv = s.conv
      /\ req' = [req EXCEPT ![r] = j]
  BY <1>4, <1>5, <1>7 DEF NewJob, BeginIngest
<1>10. Rows' = Rows /\ messages' = messages /\ forwarded' = forwarded
  BY <1>5 DEF BeginIngest, Rows
<1>11. req' \in [Slot -> {Idle} \cup Job \cup Callback] /\ RowsKept'
  BY <1>8, <1>9, <1>10, SlotTyped DEF AfterStore
<1>12. TypeInv'
  BY <1>5, <1>11 DEF BeginIngest, moderationVars, TypeInv, TypeOK, Rows
<1>13. req'[r] = j /\ \A q \in Slot \ {r} : req'[q] = req[q]
  BY <1>9 DEF TypeInv, TypeOK
<1> QED BY <1>3, <1>9, <1>10, <1>12, <1>13

\* A request that is being served is not idle.
LEMMA ServeBusy == ASSUME NEW r \in Slot, Serve(r) PROVE ~At(r, "idle")
  BY DEF Serve, CheckRestriction, Evaluate, Store, StoreBlocked, InsertFails, CountPrior,
         RecordViolation, TempRestrict, RaiseFlag, FlagConversation, Notice, Send, MarkSent,
         Touch, ApplyStatus, At

\* Steps of the app and of running requests are steps of the pipeline, and none
\* of them brings in a text.
LEMMA AppStepKept ==
    ASSUME TypeInv, JobsChosen, NEW r \in Slot, AppStep(r)
    PROVE  /\ Next /\ choices' = choices
           /\ \A q \in Slot : req'[q].step \in ComposeStep /\ req'[q].pid \in Inbound
                                  => Chosen(req'[q].pid, req'[q].conv)
<1>1. choices' = choices
  BY DEF AppStep, routingVars
<1>2. CASE \E c \in Conv, u \in Writer, k \in Contents : BeginCompose(r, c, u, k)
  <2>1. Arrival(r)
    BY <1>2 DEF Arrival
  <2>2. \A q \in Slot \ {r} : req'[q] = req[q]
    BY <2>1, SlotStep
  <2>3. req'[r].pid = NoId
    BY <1>2 DEF BeginCompose, NewJob, TypeInv, TypeOK
  <2>4. NoId \notin Inbound
    BY IdsDisjoint
  <2> QED BY <1>1, <2>1, <2>2, <2>3, <2>4 DEF Next, JobsChosen
<1>3. CASE Serve(r) \/ Abort(r)
  <2>1. \A q \in Slot \ {r} : req'[q] = req[q]
    BY <1>3, SlotStep
  <2>2. ASSUME req'[r].step \in ComposeStep PROVE Continues(r)
    <3>1. Continues(r) \/ Arrives(r)
      BY <1>3, <2>2, OriginServe DEF Origin
    <3>2. ~At(r, "idle")
      BY <1>3, ServeBusy DEF Abort
    <3> QED BY <3>1, <3>2 DEF Arrives
  <2>3. req'[r].step \in ComposeStep /\ req'[r].pid \in Inbound
            => Chosen(req'[r].pid, req'[r].conv)
    BY <2>2 DEF Continues, JobsChosen
  <2> QED BY <1>1, <1>3, <2>1, <2>3 DEF Next, JobsChosen
<1> QED BY <1>2, <1>3 DEF AppStep

\* The table: a row is stored with the text and conversation of its request.
LEMMA RowsChosen ==
    ASSUME TypeInv, JobsChosen, NeverGuesses, [Next]_vars
    PROVE  \A m \in Rows' : messages'[m].pid \in Inbound
                                => Chosen(messages'[m].pid, messages'[m].conv)
<1> SUFFICES ASSUME NEW m \in Rows', messages'[m].pid \in Inbound
             PROVE  Chosen(messages'[m].pid, messages'[m].conv)
  OBVIOUS
<1>1. CASE m \in Rows
  <2>1. messages'[m].conv = messages[m].conv /\ messages'[m].pid \in {messages[m].pid, m}
    BY <1>1, RowStep
  <2>2. m \in Nat
    BY <1>1 DEF Rows, TypeInv, TypeOK
  <2>3. messages'[m].pid = messages[m].pid
    BY <2>1, <2>2, IdsDisjoint
  <2> QED BY <1>1, <2>1, <2>3 DEF NeverGuesses, Chosen
<1>2. CASE m \notin Rows
  <2>1. PICK r \in Slot : (Store(r) \/ StoreBlocked(r)) /\ m = Len(messages) + 1
    BY <1>2, NewRow
  <2>2. Stores(r) /\ req[r] \in Job
    BY <2>1, StoreStep
  <2>3. messages'[m].pid = req[r].pid /\ messages'[m].conv = req[r].conv
    BY <2>1, <2>2 DEF Stores, InsertedRow
  <2>4. req[r].step \in ComposeStep
    BY <2>2 DEF Job
  <2> QED BY <2>3, <2>4 DEF JobsChosen
<1> QED BY <1>1, <1>2

-----------------------------------------------------------------------------
(* Theorem *)

\* Every step keeps the invariant.
LEMMA RoutingInvStep == RoutingInv /\ [RoutingNext]_allVars => RoutingInv'
<1> SUFFICES ASSUME RoutingInv, [RoutingNext]_allVars PROVE RoutingInv'
  OBVIOUS
<1>1. /\ TypeInv /\ MenusKept /\ RoutesKept /\ JobsChosen /\ NeverGuesses
      /\ MenusKept' /\ RoutesKept' /\ choices \subseteq choices'
  BY RoutingKept DEF RoutingInv
<1>2. /\ TypeInv'
      /\ \A q \in Slot : req'[q].step \in ComposeStep /\ req'[q].pid \in Inbound
                             => Chosen(req'[q].pid, req'[q].conv)
      /\ \A m \in Rows' : messages'[m].pid \in Inbound
                              => Chosen(messages'[m].pid, messages'[m].conv)
  <2>1. CASE UNCHANGED vars
    <3>1. TypeInv'
      BY <1>1, <2>1, StepTyped
    <3>2. req' = req /\ messages' = messages /\ Rows' = Rows
      BY <2>1 DEF vars, Rows
    <3> QED BY <1>1, <3>1, <3>2 DEF JobsChosen, NeverGuesses, Chosen
  <2>2. CASE \E r \in Slot : AppStep(r)
    <3>1. Next /\ \A q \in Slot : req'[q].step \in ComposeStep /\ req'[q].pid \in Inbound
                                      => Chosen(req'[q].pid, req'[q].conv)
      BY <1>1, <2>2, AppStepKept
    <3>2. TypeInv'
      BY <1>1, <3>1, StepTyped
    <3> QED BY <1>1, <3>1, <3>2, RowsChosen
  <2>3. CASE \E r \in Slot : HandsOver(r)
    <3>1. PICK r \in Slot : HandsOver(r)
      BY <2>3
    <3>2. /\ TypeInv' /\ messages' = messages
          /\ \A q \in Slot \ {r} : req'[q] = req[q]
          /\ Chosen(req'[r].pid, req'[r].conv)
      BY <1>1, <3>1, HandoverStep
    <3>3. Rows' = Rows
      BY <3>2 DEF Rows
    <3> QED BY <1>1, <3>2, <3>3 DEF JobsChosen, NeverGuesses, Chosen
  <2> QED BY <2>1, <2>2, <2>3, PipelineStep
<1>3. JobsChosen'
  <2> SUFFICES ASSUME NEW q \in Slot, req'[q].step \in ComposeStep, req'[q].pid \in Inbound
               PROVE  Chosen(req[q].pid, req[q].conv)'
    BY DEF JobsChosen
  <2>1. PICK p, c : p = req'[q].pid /\ c = req'[q].conv
    OBVIOUS
  <2>2. Chosen(p, c)'
    BY <1>1, <1>2, <2>1, ChosenKept
  <2> QED BY <2>1, <2>2 DEF Chosen, Candidates, Participant
<1>4. NeverGuesses'
  <2> SUFFICES ASSUME NEW m \in Rows', messages'[m].pid \in Inbound
               PROVE  /\ messages'[m].conv \in Candidates(messages'[m].pid)
                      /\ Cardinality(Candidates(messages'[m].pid)) > 1 =>
                            \E q \in Inbound :
                               <<q, messages'[m].pid, messages'[m].conv>> \in choices'
    BY DEF NeverGuesses, Candidates, Participant
  <2> QED BY <1>1, <1>2 DEF Chosen
<1> QED BY <1>1, <1>2, <1>3, <1>4 DEF RoutingInv

\* Nothing is stored or on its way at first.
LEMMA RoutingInvInit == RoutingInit => RoutingInv
<1> SUFFICES ASSUME RoutingInit PROVE RoutingInv
  OBVIOUS
<1>1. TypeInv
  BY InitTyped DEF RoutingInit
<1>2. /\ messages = <<>> /\ req = [r \in Slot |-> Idle] /\ menus = [k \in Key |-> NoMenu]
      /\ route = [r \in Slot |-> Free]
  BY DEF RoutingInit, Init
<1>3. MenusKept
  BY <1>2 DEF MenusKept
<1>4. RoutesKept
  BY <1>2 DEF RoutesKept, Route, Sound, Free
<1>5. JobsChosen /\ NeverGuesses
  BY <1>2 DEF JobsChosen, NeverGuesses, ComposeStep, Idle, Rows
<1> QED BY <1>1, <1>3, <1>4, <1>5 DEF RoutingInv

\* A stored text is in one of its sender's conversations on the number it was
\* sent to, and with several of those in one the sender picked for that very
\* text: whatever menus expire or are overwritten, whatever is delivered again
\* or cut short (SmsRoutingService.route never guesses).
THEOREM NeverGuessesCorrect == RoutingSpec => []NeverGuesses
<1>1. RoutingInv => NeverGuesses
  BY DEF RoutingInv
<1> QED BY <1>1, RoutingInvInit, RoutingInvStep, PTL DEF RoutingSpec

-----------------------------------------------------------------------------
(* What the pipeline promises by itself still holds behind the routing *)

RelayInv == RoutingInv /\ RowInv /\ GateInv

\* Handing a text over stores and sends nothing.
LEMMA RelayStep == RelayInv /\ [RoutingNext]_allVars => RelayInv'
<1> SUFFICES ASSUME RelayInv, [RoutingNext]_allVars PROVE RelayInv'
  OBVIOUS
<1>1. TypeInv /\ RoutesKept /\ JobsChosen /\ RowInv /\ GateInv
  BY DEF RelayInv, RoutingInv
<1>2. RoutingInv'
  BY RoutingInvStep DEF RelayInv
<1>3. ASSUME [Next]_vars PROVE RowInv' /\ GateInv'
  BY <1>1, <1>3, RowInvStep, GateStep
<1>4. CASE UNCHANGED vars
  BY <1>2, <1>3, <1>4 DEF RelayInv
<1>5. CASE \E r \in Slot : AppStep(r)
  <2>1. Next
    BY <1>1, <1>5, AppStepKept
  <2> QED BY <1>2, <1>3, <2>1 DEF RelayInv
<1>6. CASE \E r \in Slot : HandsOver(r)
  <2>1. PICK r \in Slot : HandsOver(r)
    BY <1>6
  <2>2. /\ TypeInv' /\ messages' = messages /\ forwarded' = forwarded
        /\ \A q \in Slot \ {r} : req'[q] = req[q]
        /\ req'[r].step = "checkRestriction" /\ req'[r].pid \in Inbound
    BY <1>1, <2>1, HandoverStep
  <2>3. RowInv'
    BY <1>1, <2>2 DEF RowInv, OneRowPerText, Rows
  <2>4. GateHolds' /\ SentIds'
    BY <1>1, <2>2 DEF GateInv, GateHolds, SentIds, Rows
  <2>5. JobIds' /\ SendDue' /\ Marking'
    BY <1>1, <2>2 DEF GateInv, JobIds, SendDue, Marking, Accepted
  <2> QED BY <1>2, <2>2, <2>3, <2>4, <2>5 DEF RelayInv, GateInv
<1> QED BY <1>4, <1>5, <1>6, PipelineStep

\* However often the carrier delivers a text and whatever menus are answered
\* meanwhile, it becomes at most one Message row, and no blocked message is
\* handed to the provider: the routing does not weaken the pipeline.
THEOREM RelayCorrect == RoutingSpec => [](OneRowPerText /\ GateHolds)
<1>1. RoutingInit => RelayInv
  <2> SUFFICES ASSUME RoutingInit PROVE RelayInv
    OBVIOUS
  <2>1. Init /\ RoutingInv
    BY RoutingInvInit DEF RoutingInit
  <2>2. RowInv
    BY <2>1, InitTyped DEF Init, RowInv, OneRowPerText, Rows
  <2> QED BY <2>1, <2>2, GateInit DEF RelayInv
<1>2. RelayInv => OneRowPerText /\ GateHolds
  BY DEF RelayInv, RowInv, GateInv
<1> QED BY <1>1, <1>2, RelayStep, PTL DEF RoutingSpec

-----------------------------------------------------------------------------
(***************************************************************************)
(* The parts of LiveServices.  A step of one part leaves the variables of  *)
(* the others alone, so each part sees steps of its own module or none.    *)
(***************************************************************************)
PartsInit == RoutingInit /\ Listing!Init /\ Paid!Init
PartsNext == [RoutingNext]_allVars /\ [Listing!Next]_Listing!vars /\ [Paid!Next]_Paid!vars

\* A step of the services is a step of one part, or of none.
LEMMA PartsStep == [ServicesNext]_servicesVars => PartsNext
<1>1. CASE Texts(RoutingNext)
  BY <1>1 DEF Texts, PartsNext, Listing!vars, listingVars, Paid!vars, requestVars
<1>2. CASE Listings(Listing!Next)
  BY <1>2 DEF Listings, PartsNext, Paid!vars, requestVars
<1>3. CASE Requests(Paid!Next)
  BY <1>3 DEF Requests, PartsNext, Listing!vars, listingVars
<1>4. CASE UNCHANGED servicesVars
  BY <1>4
  DEF servicesVars, PartsNext, Listing!vars, listingVars, Paid!vars, requestVars
<1> QED BY <1>1, <1>2, <1>3, <1>4 DEF ServicesNext

\* The services do nothing that the modules of their parts do not say: whatever
\* holds of a routing, a listing or a paid request holds of it here.
THEOREM PartsServed == ServicesSpec => RoutingSpec /\ Listing!Spec /\ Paid!Spec
<1>1. ServicesInit => PartsInit
  BY DEF ServicesInit, PartsInit
<1>2. [ServicesNext]_servicesVars => PartsNext
  BY PartsStep
<1> QED
  BY <1>1, <1>2, PTL
  DEF ServicesSpec, RoutingSpec, Listing!Spec, Paid!Spec, PartsInit, PartsNext

-----------------------------------------------------------------------------
(***************************************************************************)
(* What is proved about listings in a module of their own is instantiated  *)
(* as LiveServices instantiates them; each action of the one instance is   *)
(* the action of the other.                                                *)
(***************************************************************************)
ListingTheorems == INSTANCE SponsoredListingProofs WITH
                       Slot <- Caller, Tenant <- {}, MaxDay <- 1

\* The listing here is the one of ListingTheorems.
LEMMA SameListing == Listing!Next => ListingTheorems!Next
<1>1. Listing!RoomForOrder <=> ListingTheorems!RoomForOrder
  <2>1. {r \in Caller : Listing!At(r, "checkout")}
           = {r \in Caller : ListingTheorems!At(r, "checkout")}
    BY DEF Listing!At, ListingTheorems!At
  <2>2. \A S : Listing!Cardinality(S) = ListingTheorems!Cardinality(S)
    BY DEF Listing!Cardinality, ListingTheorems!Cardinality
  <2> QED BY <2>1, <2>2 DEF Listing!RoomForOrder, ListingTheorems!RoomForOrder
<1>2. \A r, j : Listing!Begin(r, j) <=> ListingTheorems!Begin(r, j)
  BY DEF Listing!Begin, ListingTheorems!Begin, Listing!At, ListingTheorems!At
<1>3. \A op : Listing!BudgetOf(op) = ListingTheorems!BudgetOf(op)
  BY DEF Listing!BudgetOf, ListingTheorems!BudgetOf
<1>4. \A r : Listing!CreateSponsored(r) => ListingTheorems!CreateSponsored(r)
  BY <1>1, <1>2 DEF Listing!CreateSponsored, ListingTheorems!CreateSponsored
<1>5. \A r, op : Listing!BeginCheckout(r, op) => ListingTheorems!BeginCheckout(r, op)
  BY <1>1, <1>2, <1>3
  DEF Listing!BeginCheckout, ListingTheorems!BeginCheckout, Listing!None,
      ListingTheorems!None
<1>6. \A r, t : Listing!BeginClick(r, t) => ListingTheorems!BeginClick(r, t)
  BY <1>2
  DEF Listing!BeginClick, ListingTheorems!BeginClick, Listing!Billable,
      ListingTheorems!Billable
<1>7. \A r : Listing!Checkout(r) => ListingTheorems!Checkout(r)
  BY DEF Listing!Checkout, ListingTheorems!Checkout, Listing!At, ListingTheorems!At
<1>8. \A r : Listing!SaveCheckout(r) => ListingTheorems!SaveCheckout(r)
  BY DEF Listing!SaveCheckout, ListingTheorems!SaveCheckout, Listing!AboutToWrite,
         ListingTheorems!AboutToWrite, Listing!At,
         ListingTheorems!At, Listing!Done, ListingTheorems!Done, Listing!Idle,
         ListingTheorems!Idle
<1>9. \A r : Listing!InsertClick(r) => ListingTheorems!InsertClick(r)
  BY DEF Listing!InsertClick, ListingTheorems!InsertClick, Listing!At,
         ListingTheorems!At, Listing!Idle, ListingTheorems!Idle
<1>10. \A r : Listing!Bill(r) => ListingTheorems!Bill(r)
  BY DEF Listing!Bill, ListingTheorems!Bill, Listing!At, ListingTheorems!At,
         Listing!Done, ListingTheorems!Done, Listing!Idle, ListingTheorems!Idle
<1>11. \A r, o : Listing!BeginWebhook(r, o) => ListingTheorems!BeginWebhook(r, o)
  BY <1>2
  DEF Listing!BeginWebhook, ListingTheorems!BeginWebhook, Listing!None,
      ListingTheorems!None, Listing!Applying, ListingTheorems!Applying, Listing!At,
      ListingTheorems!At
<1>12. \A r : Listing!Acknowledge(r) => ListingTheorems!Acknowledge(r)
  BY DEF Listing!Acknowledge, ListingTheorems!Acknowledge, Listing!At,
         ListingTheorems!At, Listing!Done, ListingTheorems!Done, Listing!Idle,
         ListingTheorems!Idle, Listing!None, ListingTheorems!None
<1>13. \A r : Listing!ApplyPayment(r) => ListingTheorems!ApplyPayment(r)
  BY DEF Listing!ApplyPayment, ListingTheorems!ApplyPayment, Listing!At,
         ListingTheorems!At, Listing!Done, ListingTheorems!Done, Listing!Idle,
         ListingTheorems!Idle, Listing!None, ListingTheorems!None
<1>14. \A r : Listing!Abort(r) => ListingTheorems!Abort(r)
  BY DEF Listing!Abort, ListingTheorems!Abort, Listing!At, ListingTheorems!At,
         Listing!Done, ListingTheorems!Done, Listing!Idle, ListingTheorems!Idle
<1>15. \A o : Listing!Pay(o) => ListingTheorems!Pay(o)
  BY DEF Listing!Pay, ListingTheorems!Pay
<1>16. Listing!Close => ListingTheorems!Close
  BY DEF Listing!Close, ListingTheorems!Close
<1>17. Listing!NextDay => ListingTheorems!NextDay
  BY DEF Listing!NextDay, ListingTheorems!NextDay
<1>18. Listing!MonthPasses => ListingTheorems!MonthPasses
  BY DEF Listing!MonthPasses, ListingTheorems!MonthPasses, Listing!Billable,
         ListingTheorems!Billable
<1>19. \A r : Listing!Request(r) => ListingTheorems!Request(r)
  BY <1>4, <1>5, <1>6 DEF Listing!Request, ListingTheorems!Request
<1>20. \A r : Listing!Deliver(r) => ListingTheorems!Deliver(r)
  BY <1>11 DEF Listing!Deliver, ListingTheorems!Deliver
<1>21. \A r : Listing!HandleWebhook(r) => ListingTheorems!HandleWebhook(r)
  BY <1>12, <1>13 DEF Listing!HandleWebhook, ListingTheorems!HandleWebhook
<1> QED
  BY <1>19, <1>7, <1>8, <1>9, <1>10, <1>20, <1>21, <1>14, <1>15, <1>16, <1>17, <1>18
  DEF Listing!Next, ListingTheorems!Next

\* However renewals, deliveries, crashes and closing overlap, the listing of these
\* services stands for no more months than its poster paid the fee for, unless two
\* deliveries of one fee overlapped (JobReferralsService.handlePaymentWebhook).
THEOREM MonthsServedCorrect == ServicesSpec => []ServedMonthsPaid
<1>1. ListingTheorems!ListingAssumption
  BY ServicesAssumption, MessagingAssumption DEF ListingTheorems!ListingAssumption
<1>2. ListingTheorems!Spec => []ListingTheorems!ServedMonthsPaid
  BY <1>1, ListingTheorems!MonthsPaidCorrect
<1>3. Listing!Init => ListingTheorems!Init
  BY DEF Listing!Init, ListingTheorems!Init, Listing!Idle, ListingTheorems!Idle,
         Listing!None, ListingTheorems!None
<1>4. [Listing!Next]_Listing!vars => [ListingTheorems!Next]_ListingTheorems!vars
  BY SameListing DEF Listing!vars, ListingTheorems!vars
<1>5. Listing!Spec => ListingTheorems!Spec
  BY <1>3, <1>4, PTL DEF Listing!Spec, ListingTheorems!Spec
<1>6. ListingTheorems!ServedMonthsPaid => ServedMonthsPaid
  <2>1. \A S : Listing!Cardinality(S) = ListingTheorems!Cardinality(S)
    BY DEF Listing!Cardinality, ListingTheorems!Cardinality
  <2> QED BY <2>1
  DEF ServedMonthsPaid, Listing!ServedMonthsPaid, ListingTheorems!ServedMonthsPaid
<1> QED BY <1>2, <1>5, <1>6, PartsServed, PTL

=============================================================================
