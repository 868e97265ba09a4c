------------------------- MODULE BrowserSessionProofs -------------------------
(***************************************************************************)
(* BrowserSession, for any number of tabs, overlapping calls, users and    *)
(* tokens, with or without a failing network: the browser makes the server *)
(* do nothing that Sessions does not say, and what a reuse alarm means.    *)
(***************************************************************************)
EXTENDS BrowserSession, SessionsProofs, FiniteSetTheorems

-----------------------------------------------------------------------------
(***************************************************************************)
(* The invariant.  A token is revoked because a tab spent it, because its  *)
(* family was burned or because the password was reset.  A tab that spent  *)
(* the token that is still stored is still waiting for the answer, or lost *)
(* it; so a second refresh of that token comes from another tab, or is     *)
(* excused.  An answer on its way has been seen by no tab yet.             *)
(***************************************************************************)
Call == [kind : {"refresh"}, tab : Tab, token : Nat \ {0}, answer : Int]
        \cup [kind : {"login"}, tab : Tab, answer : Int]

BrowserTyped ==
    /\ stored = 0 \/ stored \in DOMAIN tokens
    /\ fetch \in [Slot -> {NoFetch} \cup Call]
    /\ \A r \in Slot :
          /\ fetch[r] # NoFetch => fetch[r].answer \in {Pending, Refused} \cup DOMAIN tokens
          /\ fetch[r].kind = "refresh" => fetch[r].token \in DOMAIN tokens
    /\ spent \subseteq Tab \X DOMAIN tokens /\ lost \subseteq DOMAIN tokens

\* What excuses an alarm about the family of t.
Exposed(t) ==
    \/ Cardinality({w \in Tab : <<w, t>> \in spent}) > 1
    \/ t \in lost
    \/ t <= resetAt[tokens[t].user]

Excused(f) == \E t \in DOMAIN tokens : tokens[t].family = f /\ Exposed(t)

Spent(t) == \E w \in Tab : <<w, t>> \in spent

RevokedForReason ==
    \A t \in DOMAIN tokens :
        tokens[t].status = "revoked" => Spent(t) \/ Excused(tokens[t].family)

ServedForReason ==
    \A r \in Slot :
        /\ job[r].step \in {"checkActive", "revoke"} => Spent(job[r].token)
        /\ job[r].step = "revokeFamily" => Excused(tokens[job[r].token].family)

\* A tab that sent the stored token is waiting for the answer, or will never get it.
SpentIsAwaited ==
    \A w \in Tab : <<w, stored>> \in spent /\ stored \notin lost =>
        \E r \in Slot : fetch[r].kind = "refresh" /\ fetch[r].tab = w /\ fetch[r].token = stored

\* An answer on its way is one call's, and no tab has it yet.
AnswersFresh ==
    \A r \in Slot : fetch[r] # NoFetch /\ fetch[r].answer \notin {Pending, Refused} =>
        /\ stored # fetch[r].answer /\ ~Spent(fetch[r].answer)
        /\ \A q \in Slot \ {r} : fetch[q] # NoFetch => fetch[q].answer # fetch[r].answer

BrowserInv ==
    /\ SessionsInv /\ BrowserTyped
    /\ RevokedForReason /\ ServedForReason /\ SpentIsAwaited /\ AnswersFresh
    /\ FalseAlarmNeedsRace

-----------------------------------------------------------------------------
(* The server behind the browser *)

\* What the browser makes the server do; it never logs out.
Served ==
    \/ \E r \in Slot : Request(r) \/ Serve(r) \/ Abort(r)
    \/ \E u \in User : SetActive(u)
    \/ \E t \in DOMAIN tokens : TokenExpires(t)
    \/ \E i \in DOMAIN links : LinkExpires(i)
    \/ UNCHANGED vars

\* Each step of the browser is one of the server's, or none.
LEMMA ServedStep ==
    ASSUME BrowserTyped, [BrowserNext]_allVars
    PROVE  Served
<1>1. CASE \E r \in Slot, w \in Tab : Refresh(w, r)
  <2>1. PICK r \in Slot : Present(r, stored) /\ stored # 0
    BY <1>1 DEF Refresh
  <2>2. stored \in DOMAIN tokens
    BY <2>1 DEF BrowserTyped
  <2> QED BY <2>1, <2>2 DEF Present, Served, Request
<1>2. CASE \E r \in Slot, w \in Tab, u \in User : SignIn(w, r, u)
  BY <1>2 DEF SignIn, Served, Request
<1>3. CASE \/ SignOut \/ UNCHANGED allVars
           \/ \E r \in Slot : Receive(r) \/ LoseAnswer(r)
  BY <1>3 DEF SignOut, Receive, LoseAnswer, allVars, Served
<1>4. CASE \E r \in Slot : AnswerIssue(r) \/ AnswerRefusal(r) \/ GoesOn(r)
  BY <1>4 DEF AnswerIssue, AnswerRefusal, GoesOn, Served, Serve
<1>5. CASE \E r \in Slot : ResetStep(r)
  BY <1>5 DEF ResetStep, Served, Serve, Request
<1>6. CASE Elsewhere
  BY <1>6 DEF Elsewhere, Served
<1> QED BY <1>1, <1>2, <1>3, <1>4, <1>5, <1>6 DEF BrowserNext

\* So it is a step of Sessions.
LEMMA ServedIsNext == Served => [Next]_vars
  BY DEF Served, Next

\* Rows stay, whose they are stays, and resets only move on.
LEMMA TablesGrow ==
    ASSUME TypeInv, [Next]_vars
    PROVE  /\ DOMAIN tokens \subseteq DOMAIN tokens'
           /\ \A t \in DOMAIN tokens : /\ t \in Nat \ {0}
                                       /\ tokens'[t].user = tokens[t].user
                                       /\ tokens'[t].family = tokens[t].family
           /\ \A u \in User : resetAt[u] \in Nat /\ resetAt'[u] \in Nat /\ resetAt[u] <= resetAt'[u]
<1>1. \A t \in DOMAIN tokens : t \in Nat \ {0}
  BY TokenTyped
<1>2. /\ DOMAIN tokens \subseteq DOMAIN tokens'
      /\ \A t \in DOMAIN tokens : /\ tokens'[t].user = tokens[t].user
                                  /\ tokens'[t].family = tokens[t].family
  <2>1. CASE \E r \in Slot : Issue(r)
    <3>1. PICK r \in Slot : Issue(r)
      BY <2>1
    <3>2. /\ DOMAIN tokens' = DOMAIN tokens \cup {Len(tokens) + 1}
          /\ \A t \in DOMAIN tokens : tokens'[t] = tokens[t]
      BY <3>1, IssuedToken
    <3> QED BY <3>2
  <2>2. CASE \A r \in Slot : ~Issue(r)
    BY <2>2, TokensStep DEF Kept
  <2> QED BY <2>1, <2>2
<1>3. /\ Len(tokens) \in Nat /\ resetAt \in [User -> 0..Len(tokens)]
  BY LenProperties DEF TypeInv, TypeOK
<1>4. \/ resetAt' = resetAt
      \/ \E u : resetAt' = [resetAt EXCEPT ![u] = Len(tokens)]
  <2>1. CASE \E r \in Slot : CommitReset(r)
    BY <2>1 DEF CommitReset
  <2>2. CASE \E r \in Slot : \/ Request(r) \/ Issue(r) \/ RevokeFamily(r) \/ CheckActive(r)
                             \/ Revoke(r) \/ DeleteLinks(r) \/ CreateLink(r) \/ ResetFails(r)
                             \/ Abort(r)
    BY <2>2 DEF Request, BeginLogin, BeginRequestReset, BeginRefresh, BeginReset, Issue,
                RevokeFamily, CheckActive, Revoke, DeleteLinks, CreateLink, ResetFails, Abort
  <2>3. CASE \/ \E v \in User : SetActive(v)
             \/ \E t \in DOMAIN tokens : Logout(t) \/ TokenExpires(t)
             \/ \E i \in DOMAIN links : LinkExpires(i)
             \/ UNCHANGED vars
    BY <2>3 DEF SetActive, Logout, TokenExpires, LinkExpires, vars
  <2> QED BY <2>1, <2>2, <2>3 DEF Next, Serve
<1>5. ASSUME NEW u \in User
      PROVE  resetAt[u] \in Nat /\ resetAt'[u] \in Nat /\ resetAt[u] <= resetAt'[u]
  BY <1>3, <1>4
<1> QED BY <1>1, <1>2, <1>5

\* Why a token is revoked after a step of the server.
LEMMA RevokedBy ==
    ASSUME TypeInv, Served, NEW t \in DOMAIN tokens', tokens'[t].status = "revoked"
    PROVE  /\ t \in DOMAIN tokens
           /\ \/ tokens[t].status = "revoked"
              \/ \E r \in Slot : Revoke(r) /\ t = job[r].token
              \/ \E r \in Slot : /\ RevokeFamily(r)
                                 /\ tokens[t].family = tokens[job[r].token].family
              \/ t <= resetAt'[tokens[t].user]
<1>0. tokens \in Seq(AnyToken) /\ \A i \in DOMAIN tokens : tokens[i] \in AnyToken
  BY TokenTyped DEF TypeInv
<1>1. CASE UNCHANGED tokens
  BY <1>1
<1>2. CASE \E r \in Slot : Issue(r)
  <2>1. PICK r \in Slot : Issue(r)
    BY <1>2
  <2>2. PICK row : tokens' = Append(tokens, row) /\ row.status = "live"
    BY <2>1 DEF Issue
  <2>3. Len(tokens) \in Nat /\ DOMAIN tokens = 1..Len(tokens)
    BY <1>0, LenProperties
  <2>4. /\ DOMAIN tokens' = DOMAIN tokens \cup {Len(tokens) + 1}
        /\ \A i \in DOMAIN tokens : tokens'[i] = tokens[i]
    BY <2>1, IssuedToken
  <2>5. tokens'[Len(tokens) + 1] = row
    <3>1. tokens \in Seq(AnyToken \cup {row})
      BY <1>0, <2>3
    <3> QED BY <2>2, <3>1
  <2> QED BY <2>2, <2>4, <2>5
<1>3. CASE \E r \in Slot : RevokeFamily(r)
  BY <1>0, <1>3 DEF RevokeFamily
<1>4. CASE \E r \in Slot : Revoke(r)
  BY <1>0, <1>4 DEF Revoke
<1>5. CASE \E r \in Slot : CommitReset(r)
  <2>1. PICK r \in Slot : CommitReset(r)
    BY <1>5
  <2>2. PICK u : /\ tokens' = [i \in DOMAIN tokens |->
                                 IF tokens[i].user = u
                                 THEN [tokens[i] EXCEPT !.status = "revoked"] ELSE tokens[i]]
                 /\ resetAt' = [resetAt EXCEPT ![u] = Len(tokens)]
    BY <2>1 DEF CommitReset
  <2>3. t \in DOMAIN tokens /\ Len(tokens) \in Nat /\ DOMAIN tokens = 1..Len(tokens)
    BY <1>0, <2>2, LenProperties
  <2>4. CASE tokens[t].user = u
    <3>1. u \in User /\ resetAt \in [User -> 0..Len(tokens)]
      BY <1>0, <2>3, <2>4 DEF AnyToken, TypeInv, TypeOK
    <3> QED BY <2>2, <2>3, <2>4, <3>1
  <2>5. CASE tokens[t].user # u
    BY <2>2, <2>3, <2>5
  <2> QED BY <2>3, <2>4, <2>5
<1>6. CASE \E i \in DOMAIN tokens : TokenExpires(i)
  <2>1. PICK i \in DOMAIN tokens : tokens' = [tokens EXCEPT ![i].expired = TRUE]
    BY <1>6 DEF TokenExpires
  <2>2. tokens'[i] = [tokens[i] EXCEPT !.expired = TRUE] /\ DOMAIN tokens' = DOMAIN tokens
        /\ \A j \in DOMAIN tokens \ {i} : tokens'[j] = tokens[j]
    BY <1>0, <2>1
  <2>3. tokens'[i].status = tokens[i].status
    BY <1>0, <2>2 DEF AnyToken
  <2> QED BY <2>2, <2>3
<1>7. CASE \E r \in Slot : \/ Request(r) \/ CheckActive(r) \/ DeleteLinks(r) \/ CreateLink(r)
                           \/ ResetFails(r) \/ Abort(r)
  BY <1>1, <1>7 DEF Request, BeginLogin, BeginRequestReset, BeginRefresh, BeginReset,
                    CheckActive, DeleteLinks, CreateLink, ResetFails, Abort
<1>8. CASE \/ \E u \in User : SetActive(u)
           \/ \E i \in DOMAIN links : LinkExpires(i)
           \/ UNCHANGED vars
  BY <1>1, <1>8 DEF SetActive, LinkExpires, vars
<1> QED BY <1>2, <1>3, <1>4, <1>5, <1>6, <1>7, <1>8 DEF Served, Serve

-----------------------------------------------------------------------------
(* The tabs *)

Front == BrowserTyped /\ SpentIsAwaited /\ AnswersFresh

\* Zero is no row, and a slot that answers a call holds the call.
LEMMA FrontTyped ==
    ASSUME TypeInv, BrowserTyped
    PROVE  /\ 0 \notin DOMAIN tokens /\ -1 \notin DOMAIN tokens /\ DOMAIN tokens \subseteq Nat \ {0}
           /\ ~Spent(0)
           /\ \A r \in Slot : fetch[r] # NoFetch => fetch[r] \in Call
           /\ \A r \in Slot : fetch[r].kind = "refresh" => fetch[r] # NoFetch
<1>1. DOMAIN tokens \subseteq Nat \ {0}
  BY TokenTyped
<1>2. 0 \notin DOMAIN tokens /\ -1 \notin DOMAIN tokens
  BY <1>1
<1>3. ~Spent(0)
  BY <1>2 DEF BrowserTyped, Spent
<1>4. \A r \in Slot : fetch[r] # NoFetch => fetch[r] \in Call
  BY DEF BrowserTyped
<1>5. \A r \in Slot : fetch[r].kind = "refresh" => fetch[r] # NoFetch
  BY DEF NoFetch
<1> QED BY <1>1, <1>2, <1>3, <1>4, <1>5

\* What is told to a waiting tab, if there still is one.
LEMMA AnswerStep ==
    ASSUME BrowserTyped, NEW r \in Slot, NEW a \in Int, Answer(r, a)
    PROVE  /\ fetch' \in [Slot -> {NoFetch} \cup Call]
           /\ \A q \in Slot \ {r} : fetch'[q] = fetch[q]
           /\ fetch[r] = NoFetch => fetch'[r] = NoFetch
           /\ fetch[r] # NoFetch => fetch'[r] # NoFetch /\ fetch'[r].answer = a
           /\ fetch'[r].kind = fetch[r].kind
           /\ fetch[r].kind = "refresh"
                  => fetch'[r].tab = fetch[r].tab /\ fetch'[r].token = fetch[r].token
<1>1. fetch \in [Slot -> {NoFetch} \cup Call]
  BY DEF BrowserTyped
<1>2. CASE fetch[r] = NoFetch
  BY <1>1, <1>2 DEF Answer, NoFetch
<1>3. CASE fetch[r] # NoFetch
  <2>1. PICK c : c = [fetch[r] EXCEPT !.answer = a]
    OBVIOUS
  <2>2. fetch[r] \in Call
    BY <1>1, <1>3
  <2>3. /\ c \in Call /\ c # NoFetch /\ c.answer = a /\ c.kind = fetch[r].kind
        /\ fetch[r].kind = "refresh" => c.tab = fetch[r].tab /\ c.token = fetch[r].token
    BY <2>1, <2>2 DEF Call, NoFetch
  <2>4. fetch' = [fetch EXCEPT ![r] = c]
    BY <1>3, <2>1 DEF Answer
  <2> QED BY <1>1, <1>3, <2>3, <2>4
<1> QED BY <1>2, <1>3

\* An answer arrives: it is a refusal, or the number of a token that is new.
LEMMA AnswerFront ==
    ASSUME TypeInv, Front, NEW r \in Slot, NEW a \in Int, Answer(r, a),
           DOMAIN tokens \subseteq DOMAIN tokens', UNCHANGED <<stored, spent, lost>>,
           a = Refused \/ (a \in DOMAIN tokens' /\ a \notin DOMAIN tokens)
    PROVE  Front'
<1>1. BrowserTyped /\ SpentIsAwaited /\ AnswersFresh
  BY DEF Front
<1>2. /\ fetch' \in [Slot -> {NoFetch} \cup Call]
      /\ \A q \in Slot \ {r} : fetch'[q] = fetch[q]
      /\ fetch[r] = NoFetch => fetch'[r] = NoFetch
      /\ fetch[r] # NoFetch => fetch'[r] # NoFetch /\ fetch'[r].answer = a
      /\ fetch'[r].kind = fetch[r].kind
      /\ fetch[r].kind = "refresh"
             => fetch'[r].tab = fetch[r].tab /\ fetch'[r].token = fetch[r].token
  BY <1>1, AnswerStep
<1>3. 0 \notin DOMAIN tokens /\ -1 \notin DOMAIN tokens
  BY <1>1, FrontTyped
<1>4. ASSUME NEW q \in Slot
      PROVE  /\ fetch'[q] # NoFetch => fetch'[q].answer \in {Pending, Refused} \cup DOMAIN tokens'
             /\ fetch'[q].kind = "refresh" => fetch'[q].token \in DOMAIN tokens'
  <2>1. CASE q = r
    <3>1. fetch'[q] # NoFetch => fetch'[q].answer = a
      BY <1>2, <2>1
    <3>2. fetch'[q].kind = "refresh" => fetch'[q].token = fetch[q].token /\ fetch[q].kind = "refresh"
      BY <1>2, <2>1
    <3> QED BY <1>1, <3>1, <3>2 DEF BrowserTyped
  <2>2. CASE q # r
    BY <1>1, <1>2, <2>2 DEF BrowserTyped
  <2> QED BY <2>1, <2>2
<1>5. BrowserTyped'
  BY <1>1, <1>2, <1>4 DEF BrowserTyped
<1>6. SpentIsAwaited'
  BY <1>1, <1>2 DEF SpentIsAwaited
<1>7. AnswersFresh'
  <2> SUFFICES ASSUME NEW q \in Slot, fetch'[q] # NoFetch, fetch'[q].answer \notin {Pending, Refused}
               PROVE  /\ stored # fetch'[q].answer /\ ~Spent(fetch'[q].answer)
                      /\ \A s \in Slot \ {q} : fetch'[s] # NoFetch => fetch'[s].answer # fetch'[q].answer
    BY DEF AnswersFresh, Spent
  <2>1. CASE q = r
    <3>1. fetch'[q].answer = a /\ a \notin DOMAIN tokens /\ a # Refused /\ a # Pending
      BY <1>2, <2>1
    <3>2. stored # a /\ ~Spent(a)
      BY <1>1, <3>1 DEF BrowserTyped, Spent, Refused
    <3>3. \A s \in Slot \ {q} : fetch'[s] # NoFetch => fetch'[s].answer # a
      BY <1>1, <1>2, <2>1, <3>1 DEF BrowserTyped
    <3> QED BY <3>1, <3>2, <3>3
  <2>2. CASE q # r
    <3>1. fetch'[q] = fetch[q] /\ fetch[q] # NoFetch /\ fetch[q].answer \in DOMAIN tokens
      BY <1>1, <1>2, <2>2 DEF BrowserTyped
    <3>2. stored # fetch[q].answer /\ ~Spent(fetch[q].answer)
      BY <1>1, <3>1 DEF AnswersFresh
    <3>3. \A s \in Slot \ {q} : fetch'[s] # NoFetch => fetch'[s].answer # fetch[q].answer
      <4> SUFFICES ASSUME NEW s \in Slot \ {q}, fetch'[s] # NoFetch
                   PROVE  fetch'[s].answer # fetch[q].answer
        OBVIOUS
      <4>1. CASE s = r
        <5>1. fetch'[s].answer = a
          BY <1>2, <4>1
        <5> QED BY <1>3, <3>1, <5>1 DEF Refused
      <4>2. CASE s # r
        BY <1>1, <1>2, <3>1, <4>2 DEF AnswersFresh
      <4> QED BY <4>1, <4>2
    <3> QED BY <3>1, <3>2, <3>3
  <2> QED BY <2>1, <2>2
<1> QED BY <1>5, <1>6, <1>7 DEF Front

\* A call is sent.
LEMMA CallFront ==
    ASSUME TypeInv, Front, NEW r \in Slot, NEW c \in Call, fetch[r] = NoFetch,
           fetch' = [fetch EXCEPT ![r] = c], c.answer \in {Pending, Refused},
           DOMAIN tokens \subseteq DOMAIN tokens', UNCHANGED <<stored, lost>>,
           \/ c.kind = "login" /\ spent' = spent
           \/ /\ c.kind = "refresh" /\ c.token = stored /\ stored \in DOMAIN tokens
              /\ spent' = spent \cup {<<c.tab, stored>>}
    PROVE  Front'
<1>1. BrowserTyped /\ SpentIsAwaited /\ AnswersFresh
  BY DEF Front
<1>2. /\ fetch' \in [Slot -> {NoFetch} \cup Call] /\ fetch'[r] = c
      /\ \A q \in Slot \ {r} : fetch'[q] = fetch[q]
  BY <1>1 DEF BrowserTyped
<1>3. fetch[r].kind # "refresh"
  BY DEF NoFetch
<1>4. c.kind = "refresh" => c.tab \in Tab
  BY DEF Call
<1>5. BrowserTyped'
  BY <1>1, <1>2, <1>4 DEF BrowserTyped
<1>6. SpentIsAwaited'
  <2> SUFFICES ASSUME NEW w \in Tab, <<w, stored>> \in spent', stored \notin lost
               PROVE  \E q \in Slot : /\ fetch'[q].kind = "refresh" /\ fetch'[q].tab = w
                                      /\ fetch'[q].token = stored
    BY DEF SpentIsAwaited
  <2>1. CASE <<w, stored>> \in spent
    <3>1. PICK q \in Slot : /\ fetch[q].kind = "refresh" /\ fetch[q].tab = w
                            /\ fetch[q].token = stored
      BY <1>1, <2>1 DEF SpentIsAwaited
    <3> QED BY <1>2, <1>3, <3>1
  <2>2. CASE <<w, stored>> \notin spent
    <3>1. c.kind = "refresh" /\ c.token = stored /\ c.tab = w
      BY <2>2
    <3> QED BY <1>2, <3>1
  <2> QED BY <2>1, <2>2
<1>7. AnswersFresh'
  <2> SUFFICES ASSUME NEW q \in Slot, fetch'[q] # NoFetch, fetch'[q].answer \notin {Pending, Refused}
               PROVE  /\ stored # fetch'[q].answer
                      /\ ~ \E w \in Tab : <<w, fetch'[q].answer>> \in spent'
                      /\ \A s \in Slot \ {q} : fetch'[s] # NoFetch => fetch'[s].answer # fetch'[q].answer
    BY DEF AnswersFresh, Spent
  <2>1. q # r /\ fetch'[q] = fetch[q]
    BY <1>2
  <2>2. stored # fetch[q].answer /\ ~Spent(fetch[q].answer)
    BY <1>1, <2>1 DEF AnswersFresh
  <2>3. \A w \in Tab : <<w, fetch[q].answer>> \notin spent'
    BY <2>2 DEF Spent
  <2>4. \A s \in Slot \ {q} : fetch'[s] # NoFetch => fetch'[s].answer # fetch[q].answer
    BY <1>1, <1>2, <2>1 DEF AnswersFresh
  <2> QED BY <2>1, <2>2, <2>3, <2>4
<1> QED BY <1>5, <1>6, <1>7 DEF Front

\* The store is emptied or left alone.
LEMMA QuietFront ==
    ASSUME TypeInv, Front, DOMAIN tokens \subseteq DOMAIN tokens',
           UNCHANGED <<fetch, spent, lost>>, stored' = stored \/ stored' = 0
    PROVE  Front'
<1>1. BrowserTyped /\ SpentIsAwaited /\ AnswersFresh
  BY DEF Front
<1>2. BrowserTyped'
  BY <1>1 DEF BrowserTyped
<1>3. \A w \in Tab : <<w, 0>> \notin spent
  BY <1>1, FrontTyped DEF Spent
<1>4. SpentIsAwaited'
  BY <1>1, <1>3 DEF SpentIsAwaited
<1>5. AnswersFresh'
  BY <1>1 DEF AnswersFresh, Spent, Refused
<1> QED BY <1>2, <1>4, <1>5 DEF Front

\* An answer reaches its tab and replaces what is stored.
LEMMA ReceiveFront ==
    ASSUME TypeInv, Front, NEW r \in Slot, Receive(r)
    PROVE  Front'
<1>1. BrowserTyped /\ SpentIsAwaited /\ AnswersFresh
  BY DEF Front
<1>2. PICK a : a = fetch[r].answer
  OBVIOUS
<1>3. /\ fetch[r] # NoFetch /\ a # Pending /\ fetch' = [fetch EXCEPT ![r] = NoFetch]
      /\ stored' = IF fetch[r].kind = "login" /\ a = Refused THEN stored ELSE a
      /\ UNCHANGED <<vars, spent, lost>>
  BY <1>2 DEF Receive
<1>4. /\ fetch' \in [Slot -> {NoFetch} \cup Call] /\ fetch'[r] = NoFetch
      /\ \A q \in Slot \ {r} : fetch'[q] = fetch[q]
  BY <1>1, <1>3 DEF BrowserTyped
<1>5. tokens' = tokens /\ a \in {Refused} \cup DOMAIN tokens
  BY <1>1, <1>2, <1>3 DEF BrowserTyped, vars
<1>6. stored' = stored \/ stored' \in {Refused} \cup DOMAIN tokens
  BY <1>3, <1>5
<1>7. ASSUME NEW q \in Slot
      PROVE  /\ fetch'[q] # NoFetch => fetch'[q].answer \in {Pending, Refused} \cup DOMAIN tokens
             /\ fetch'[q].kind = "refresh" => fetch'[q].token \in DOMAIN tokens
  BY <1>1, <1>4 DEF BrowserTyped, NoFetch
<1>8. BrowserTyped'
  BY <1>1, <1>3, <1>4, <1>5, <1>6, <1>7 DEF BrowserTyped, Refused
<1>9. SpentIsAwaited'
  <2> SUFFICES ASSUME NEW w \in Tab, <<w, stored'>> \in spent, stored' \notin lost
               PROVE  \E q \in Slot : /\ fetch'[q].kind = "refresh" /\ fetch'[q].tab = w
                                      /\ fetch'[q].token = stored'
    BY <1>3 DEF SpentIsAwaited
  <2>1. CASE fetch[r].kind = "login" /\ a = Refused
    <3>1. stored' = stored
      BY <1>3, <2>1
    <3>2. PICK q \in Slot : /\ fetch[q].kind = "refresh" /\ fetch[q].tab = w
                            /\ fetch[q].token = stored
      BY <1>1, <3>1 DEF SpentIsAwaited
    <3> QED BY <1>4, <2>1, <3>1, <3>2
  <2>2. CASE ~(fetch[r].kind = "login" /\ a = Refused)
    <3>1. stored' = a
      BY <1>3, <2>2
    <3>2. ~Spent(a)
      <4>1. CASE a = Refused
        BY <1>1, <4>1, FrontTyped DEF Refused
      <4>2. CASE a # Refused
        BY <1>1, <1>2, <1>3, <4>2 DEF AnswersFresh
      <4> QED BY <4>1, <4>2
    <3> QED BY <3>1, <3>2 DEF Spent
  <2> QED BY <2>1, <2>2
<1>10. AnswersFresh'
  <2> SUFFICES ASSUME NEW q \in Slot, fetch'[q] # NoFetch, fetch'[q].answer \notin {Pending, Refused}
               PROVE  /\ stored' # fetch'[q].answer
                      /\ ~ \E w \in Tab : <<w, fetch'[q].answer>> \in spent
                      /\ \A s \in Slot \ {q} : fetch'[s] # NoFetch => fetch'[s].answer # fetch'[q].answer
    BY <1>3 DEF AnswersFresh, Spent
  <2>1. q # r /\ fetch'[q] = fetch[q]
    BY <1>4
  <2>2. /\ stored # fetch[q].answer /\ ~Spent(fetch[q].answer)
        /\ a # fetch[q].answer
    BY <1>1, <1>2, <1>3, <2>1 DEF AnswersFresh
  <2>3. \A s \in Slot \ {q} : fetch'[s] # NoFetch => fetch'[s].answer # fetch[q].answer
    BY <1>1, <1>4, <2>1 DEF AnswersFresh
  <2>4. stored' = stored \/ stored' = a
    BY <1>3
  <2> QED BY <2>1, <2>2, <2>3, <2>4 DEF Spent
<1> QED BY <1>8, <1>9, <1>10 DEF Front

\* An answer is lost: the token it was for, if any, is on record.
LEMMA LoseFront ==
    ASSUME TypeInv, Front, NEW r \in Slot, LoseAnswer(r)
    PROVE  Front'
<1>1. BrowserTyped /\ SpentIsAwaited /\ AnswersFresh
  BY DEF Front
<1>2. /\ fetch' \in [Slot -> {NoFetch} \cup Call] /\ fetch'[r] = NoFetch
      /\ \A q \in Slot \ {r} : fetch'[q] = fetch[q]
  BY <1>1 DEF BrowserTyped, LoseAnswer
<1>3. /\ stored' = stored /\ spent' = spent /\ tokens' = tokens /\ lost \subseteq lost'
      /\ fetch[r].kind = "refresh" => lost' = lost \cup {fetch[r].token}
      /\ fetch[r].kind # "refresh" => lost' = lost
  BY DEF LoseAnswer, vars
<1>4. lost' \subseteq DOMAIN tokens
  BY <1>1, <1>3 DEF BrowserTyped
<1>5. ASSUME NEW q \in Slot
      PROVE  /\ fetch'[q] # NoFetch => fetch'[q].answer \in {Pending, Refused} \cup DOMAIN tokens
             /\ fetch'[q].kind = "refresh" => fetch'[q].token \in DOMAIN tokens
  BY <1>1, <1>2 DEF BrowserTyped, NoFetch
<1>6. BrowserTyped'
  BY <1>1, <1>2, <1>3, <1>4, <1>5 DEF BrowserTyped
<1>7. SpentIsAwaited'
  <2> SUFFICES ASSUME NEW w \in Tab, <<w, stored>> \in spent, stored \notin lost'
               PROVE  \E q \in Slot : /\ fetch'[q].kind = "refresh" /\ fetch'[q].tab = w
                                      /\ fetch'[q].token = stored
    BY <1>3 DEF SpentIsAwaited
  <2>1. PICK q \in Slot : fetch[q].kind = "refresh" /\ fetch[q].tab = w /\ fetch[q].token = stored
    BY <1>1, <1>3 DEF SpentIsAwaited
  <2>2. q # r
    BY <1>3, <2>1
  <2> QED BY <1>2, <2>1, <2>2
<1>8. AnswersFresh'
  BY <1>1, <1>2, <1>3 DEF AnswersFresh, Spent
<1> QED BY <1>6, <1>7, <1>8 DEF Front

\* Every step keeps what the tabs and their calls hold, and forgets nothing.
LEMMA FrontStep ==
    ASSUME TypeInv, Front, [BrowserNext]_allVars
    PROVE  Front' /\ spent \subseteq spent' /\ lost \subseteq lost'
<1>0. BrowserTyped
  BY DEF Front
<1>1. DOMAIN tokens \subseteq DOMAIN tokens'
  BY <1>0, ServedStep, ServedIsNext, TablesGrow
<1>2. ASSUME NEW r \in Slot, NEW w \in Tab, Refresh(w, r)
      PROVE  Front' /\ spent \subseteq spent' /\ lost \subseteq lost'
  <2>1. PICK a \in {Pending, Refused} : fetch' = [fetch EXCEPT ![r] =
             [kind |-> "refresh", tab |-> w, token |-> stored, answer |-> a]]
    BY <1>2 DEF Refresh
  <2>2. PICK c : c = [kind |-> "refresh", tab |-> w, token |-> stored, answer |-> a]
    OBVIOUS
  <2>3. stored \in DOMAIN tokens /\ stored \in Nat \ {0}
    BY <1>0, <1>2, FrontTyped DEF Refresh, BrowserTyped
  <2>4. /\ c \in Call /\ c.kind = "refresh" /\ c.token = stored /\ c.tab = w
        /\ c.answer \in {Pending, Refused}
    BY <2>2, <2>3 DEF Call, Pending, Refused
  <2>5. /\ fetch[r] = NoFetch /\ fetch' = [fetch EXCEPT ![r] = c]
        /\ spent' = spent \cup {<<c.tab, stored>>} /\ UNCHANGED <<stored, lost>>
    BY <1>2, <2>1, <2>2, <2>4 DEF Refresh
  <2> QED BY <1>1, <2>3, <2>4, <2>5, CallFront
<1>3. ASSUME NEW r \in Slot, NEW w \in Tab, NEW u \in User, SignIn(w, r, u)
      PROVE  Front' /\ spent \subseteq spent' /\ lost \subseteq lost'
  <2>1. PICK c : c = [kind |-> "login", tab |-> w, answer |-> Pending]
    OBVIOUS
  <2>2. c \in Call /\ c.kind = "login" /\ c.answer \in {Pending, Refused}
    BY <2>1 DEF Call, Pending
  <2>3. /\ fetch[r] = NoFetch /\ fetch' = [fetch EXCEPT ![r] = c]
        /\ spent' = spent /\ UNCHANGED <<stored, lost>>
    BY <1>3, <2>1 DEF SignIn
  <2> QED BY <1>1, <2>2, <2>3, CallFront
<1>4. ASSUME NEW r \in Slot, Receive(r)
      PROVE  Front' /\ spent \subseteq spent' /\ lost \subseteq lost'
  <2>1. spent' = spent /\ lost' = lost
    BY <1>4 DEF Receive
  <2> QED BY <1>4, <2>1, ReceiveFront
<1>5. ASSUME NEW r \in Slot, LoseAnswer(r)
      PROVE  Front' /\ spent \subseteq spent' /\ lost \subseteq lost'
  <2>1. spent' = spent /\ lost \subseteq lost'
    BY <1>5 DEF LoseAnswer
  <2> QED BY <1>5, <2>1, LoseFront
<1>6. ASSUME NEW r \in Slot, AnswerIssue(r)
      PROVE  Front' /\ spent \subseteq spent' /\ lost \subseteq lost'
  <2>1. PICK a : a = Len(tokens) + 1
    OBVIOUS
  <2>2. Issue(r) /\ Answer(r, a) /\ UNCHANGED <<stored, spent, lost>>
    BY <1>6, <2>1 DEF AnswerIssue
  <2>3. a \in Nat /\ a \notin DOMAIN tokens /\ a \in DOMAIN tokens'
    BY <2>1, <2>2, IssuedToken
  <2> QED BY <1>1, <2>2, <2>3, AnswerFront
<1>7. ASSUME NEW r \in Slot, AnswerRefusal(r)
      PROVE  Front' /\ spent \subseteq spent' /\ lost \subseteq lost'
  <2>1. Answer(r, Refused) /\ UNCHANGED <<stored, spent, lost>> /\ Refused \in Int
    BY <1>7 DEF AnswerRefusal, Refused
  <2> QED BY <1>1, <2>1, AnswerFront
<1>8. ASSUME UNCHANGED <<fetch, spent, lost>>, stored' = stored \/ stored' = 0
      PROVE  Front' /\ spent \subseteq spent' /\ lost \subseteq lost'
  BY <1>1, <1>8, QuietFront
<1>9. CASE \/ \E r \in Slot : GoesOn(r) \/ ResetStep(r)
           \/ SignOut \/ Elsewhere \/ UNCHANGED allVars
  BY <1>8, <1>9 DEF GoesOn, ResetStep, SignOut, Elsewhere, allVars, browserVars
<1> QED BY <1>2, <1>3, <1>4, <1>5, <1>6, <1>7, <1>9 DEF BrowserNext

-----------------------------------------------------------------------------
(* The reasons *)

\* What excuses an alarm is never taken back.
LEMMA ExposedKept ==
    ASSUME TypeInv, [Next]_vars, spent \subseteq spent', lost \subseteq lost',
           NEW t \in DOMAIN tokens, Exposed(t)
    PROVE  Exposed(t)'
<1>1. /\ t \in Nat /\ tokens'[t].user = tokens[t].user
      /\ \A u \in User : resetAt[u] \in Nat /\ resetAt'[u] \in Nat /\ resetAt[u] <= resetAt'[u]
  BY TablesGrow
<1>2. tokens[t].user \in User
  BY TokenTyped DEF AnyToken
<1>3. CASE Cardinality({w \in Tab : <<w, t>> \in spent}) > 1
  <2>1. PICK S, T : S = {w \in Tab : <<w, t>> \in spent} /\ T = {w \in Tab : <<w, t>> \in spent'}
    OBVIOUS
  <2>2. S \subseteq T /\ T \subseteq Tab
    BY <2>1
  <2>3. IsFiniteSet(T)
    BY <2>2, BrowserAssumption, FS_Subset
  <2>4. /\ IsFiniteSet(S) /\ Cardinality(S) <= Cardinality(T)
        /\ Cardinality(S) \in Nat /\ Cardinality(T) \in Nat
    BY <2>2, <2>3, FS_Subset, FS_CardinalityType
  <2>5. Cardinality(T) > 1
    BY <1>3, <2>1, <2>4
  <2> QED BY <2>1, <2>5 DEF Exposed
<1>4. CASE t \in lost
  BY <1>4 DEF Exposed
<1>5. CASE t <= resetAt[tokens[t].user]
  <2>1. t <= resetAt'[tokens'[t].user]
    BY <1>1, <1>2, <1>5
  <2> QED BY <2>1 DEF Exposed
<1> QED BY <1>3, <1>4, <1>5 DEF Exposed

\* Nor is what excuses an alarm about a family, or the record of a refresh.
LEMMA ExcusedKept ==
    ASSUME TypeInv, [Next]_vars, spent \subseteq spent', lost \subseteq lost', NEW f, Excused(f)
    PROVE  Excused(f)'
<1>1. PICK t \in DOMAIN tokens : tokens[t].family = f /\ Exposed(t)
  BY DEF Excused
<1>2. t \in DOMAIN tokens' /\ tokens'[t].family = f
  BY <1>1, TablesGrow
<1>3. Exposed(t)'
  BY <1>1, ExposedKept
<1> QED BY <1>2, <1>3 DEF Excused

\* A token that was sent stays sent.
LEMMA SpentKept == ASSUME spent \subseteq spent', NEW t, Spent(t) PROVE Spent(t)'
  BY DEF Spent

\* The heart of it: a tab that meets a revoked token was not the only one to
\* spend it, lost the answer when it did, or is excused already.
LEMMA RefreshExcused ==
    ASSUME BrowserInv, [BrowserNext]_allVars, NEW r \in Slot, NEW w \in Tab, Refresh(w, r),
           tokens[stored].status = "revoked", NEW f, f = tokens[stored].family
    PROVE  Excused(f)'
<1>1. TypeInv /\ BrowserTyped /\ RevokedForReason /\ SpentIsAwaited
  BY DEF BrowserInv, SessionsInv
<1>2. [Next]_vars
  BY <1>1, ServedStep, ServedIsNext
<1>3. PICK t : t = stored
  OBVIOUS
<1>4. t \in DOMAIN tokens /\ spent' = spent \cup {<<w, t>>} /\ lost' = lost /\ ~Refreshing(w)
  BY <1>1, <1>3 DEF Refresh, BrowserTyped
<1>5. f = tokens[t].family
  BY <1>3
<1>6. tokens'[t].family = f /\ t \in DOMAIN tokens'
  BY <1>1, <1>2, <1>4, <1>5, TablesGrow
<1>7. CASE Excused(f)
  BY <1>1, <1>2, <1>4, <1>7, ExcusedKept
<1>8. CASE ~Excused(f)
  <2>1. PICK v \in Tab : <<v, t>> \in spent
    BY <1>1, <1>3, <1>4, <1>5, <1>8 DEF RevokedForReason, Spent
  <2>2. CASE v # w
    <3>1. PICK T : T = {x \in Tab : <<x, t>> \in spent'}
      OBVIOUS
    <3>2. {v, w} \subseteq T /\ T \subseteq Tab
      BY <1>4, <2>1, <3>1
    <3>3. IsFiniteSet(T)
      BY <3>2, BrowserAssumption, FS_Subset
    <3>4. Cardinality({v, w}) = 2
      <4>1. IsFiniteSet({v}) /\ Cardinality({v}) = 1
        BY FS_Singleton
      <4>2. Cardinality({v} \cup {w}) = Cardinality({v}) + 1
        BY <2>2, <4>1, FS_AddElement
      <4>3. {v} \cup {w} = {v, w}
        OBVIOUS
      <4> QED BY <4>1, <4>2, <4>3
    <3>5. Cardinality({v, w}) <= Cardinality(T) /\ Cardinality(T) \in Nat
      BY <3>2, <3>3, FS_Subset, FS_CardinalityType
    <3>6. Cardinality(T) > 1
      BY <3>4, <3>5
    <3>7. Exposed(t)'
      BY <3>1, <3>6 DEF Exposed
    <3> QED BY <1>6, <3>7 DEF Excused
  <2>3. CASE v = w
    <3>1. t \in lost
      BY <1>1, <1>3, <1>4, <2>1, <2>3 DEF SpentIsAwaited, Refreshing
    <3>2. Exposed(t)'
      BY <1>4, <3>1 DEF Exposed
    <3> QED BY <1>6, <3>2 DEF Excused
  <2> QED BY <2>2, <2>3
<1> QED BY <1>7, <1>8

\* Requests are served for a reason.
LEMMA ServedKept ==
    ASSUME BrowserInv, [BrowserNext]_allVars
    PROVE  ServedForReason'
<1>1. TypeInv /\ Front /\ BrowserTyped /\ ServedForReason
  BY DEF BrowserInv, SessionsInv, Front
<1>2. Served /\ [Next]_vars
  BY <1>1, ServedStep, ServedIsNext
<1>3. spent \subseteq spent' /\ lost \subseteq lost'
  BY <1>1, FrontStep
<1>4. job \in [Slot -> {Idle} \cup Job]
  BY <1>1 DEF TypeInv, TypeOK
<1>5. ASSUME NEW q \in Slot, NEW j, NEW t, NEW f, j = job'[q], t = j.token, f = tokens'[t].family
      PROVE  /\ j.step \in {"checkActive", "revoke"} => Spent(t)'
             /\ j.step = "revokeFamily" => Excused(f)'
  <2>1. CASE j = job[q]
    <3>1. j.step \in {"checkActive", "revoke", "revokeFamily"} => t \in DOMAIN tokens
      BY <1>1, <1>5, <2>1 DEF TypeInv, RowsKept
    <3>2. j.step = "revokeFamily" => f = tokens[t].family
      BY <1>1, <1>2, <1>5, <3>1, TablesGrow
    <3>3. j.step \in {"checkActive", "revoke"} => Spent(t)'
      BY <1>1, <1>3, <1>5, <2>1, SpentKept DEF ServedForReason
    <3>4. j.step = "revokeFamily" => Excused(f)
      BY <1>1, <1>5, <2>1, <3>2 DEF ServedForReason
    <3> QED BY <1>1, <1>2, <1>3, <3>3, <3>4, ExcusedKept
  <2>2. CASE j.step \notin {"checkActive", "revoke", "revokeFamily"}
    BY <2>2
  <2>3. CASE j # job[q] /\ j.step \in {"checkActive", "revoke", "revokeFamily"}
    <3>1. \/ \E w \in Tab : Refresh(w, q) /\ BeginRefresh(q, stored)
          \/ CheckActive(q) /\ j = [job[q] EXCEPT !.step = "revoke"]
      <4>1. ASSUME NEW r \in Slot, NEW w \in Tab, Refresh(w, r)
            PROVE  \E v \in Tab : Refresh(v, q) /\ BeginRefresh(q, stored)
        <5>1. BeginRefresh(r, stored)
          BY <1>4, <1>5, <2>3, <4>1 DEF Refresh, Present, vars
        <5>2. r = q
          BY <1>4, <1>5, <2>3, <5>1 DEF BeginRefresh, Begin
        <5> QED BY <4>1, <5>1, <5>2
      <4>2. ASSUME NEW r \in Slot, CheckActive(r)
            PROVE  CheckActive(q) /\ j = [job[q] EXCEPT !.step = "revoke"]
        BY <1>4, <1>5, <2>3, <4>2 DEF CheckActive, Goto, Done, Idle
      <4>3. ASSUME NEW r \in Slot, \/ Issue(r) \/ RevokeFamily(r) \/ Abort(r) \/ CreateLink(r)
                                   \/ CommitReset(r) \/ ResetFails(r)
            PROVE  FALSE
        <5>1. job' = [job EXCEPT ![r] = Idle]
          BY <4>3 DEF Issue, RevokeFamily, Abort, CreateLink, CommitReset, ResetFails, Done
        <5> QED BY <1>4, <1>5, <2>3, <5>1 DEF Idle
      <4>4. ASSUME NEW r \in Slot, Revoke(r) PROVE FALSE
        BY <1>4, <1>5, <2>3, <4>4 DEF Revoke
      <4>5. ASSUME NEW r \in Slot, DeleteLinks(r) PROVE FALSE
        <5>1. PICK c : c = [job[r] EXCEPT !.step = "createLink"]
          OBVIOUS
        <5>2. job[r] \in {Idle} \cup Job /\ job[r].step = "deleteLinks"
          BY <1>4, <4>5 DEF DeleteLinks, At
        <5>3. c.step = "createLink" /\ job' = [job EXCEPT ![r] = c]
          BY <4>5, <5>1, <5>2 DEF DeleteLinks, Goto, Job, Idle
        <5> QED BY <1>4, <1>5, <2>3, <5>3
      <4>6. ASSUME NEW r \in Slot, NEW u \in User, BeginLogin(r, u) \/ BeginRequestReset(r, u)
            PROVE  FALSE
        BY <1>4, <1>5, <2>3, <4>6 DEF BeginLogin, BeginRequestReset, Begin
      <4>7. ASSUME NEW r \in Slot, NEW i, BeginReset(r, i) PROVE FALSE
        BY <1>4, <1>5, <2>3, <4>7 DEF BeginReset, Begin
      <4>8. ASSUME UNCHANGED job PROVE FALSE
        BY <1>5, <2>3, <4>8
      <4>9. CASE \E r \in Slot : \/ \E w \in Tab : Refresh(w, r) \/ \E u \in User : SignIn(w, r, u)
                                 \/ Receive(r) \/ LoseAnswer(r)
        BY <4>1, <4>6, <4>8, <4>9 DEF SignIn, Receive, LoseAnswer, vars
      <4>10. CASE \E r \in Slot : AnswerIssue(r) \/ AnswerRefusal(r) \/ GoesOn(r)
        BY <4>2, <4>3, <4>4, <4>10 DEF AnswerIssue, AnswerRefusal, GoesOn
      <4>11. CASE \E r \in Slot : ResetStep(r)
        BY <4>3, <4>5, <4>6, <4>7, <4>11 DEF ResetStep
      <4>12. CASE SignOut \/ Elsewhere \/ UNCHANGED allVars
        BY <4>8, <4>12 DEF SignOut, Elsewhere, SetActive, TokenExpires, LinkExpires, allVars, vars
      <4> QED BY <4>9, <4>10, <4>11, <4>12 DEF BrowserNext
    <3>2. CASE CheckActive(q) /\ j = [job[q] EXCEPT !.step = "revoke"]
      <4>1. job[q] \in Job /\ job[q].step = "checkActive"
        BY <1>4, <3>2 DEF CheckActive, At, Idle
      <4>2. j.step = "revoke" /\ t = job[q].token
        BY <1>5, <3>2, <4>1 DEF Job
      <4>3. Spent(t)
        BY <1>1, <4>1, <4>2 DEF ServedForReason
      <4> QED BY <1>3, <4>2, <4>3, SpentKept
    <3>3. CASE \E w \in Tab : Refresh(w, q) /\ BeginRefresh(q, stored)
      <4>1. PICK w \in Tab : Refresh(w, q) /\ BeginRefresh(q, stored)
        BY <3>3
      <4>2. PICK s : s = IF tokens[stored].status = "revoked" THEN "revokeFamily" ELSE "checkActive"
        OBVIOUS
      <4>3. j.step = s /\ t = stored
        BY <1>4, <1>5, <4>1, <4>2 DEF BeginRefresh, Begin
      <4>4. Spent(t)'
        BY <4>1, <4>3 DEF Refresh, Spent
      <4>5. f = tokens[stored].family
        BY <1>5, <4>1, <4>3 DEF BeginRefresh
      <4>6. j.step = "revokeFamily" => Excused(f)'
        BY <4>1, <4>2, <4>3, <4>5, RefreshExcused
      <4> QED BY <4>4, <4>6
    <3> QED BY <3>1, <3>2, <3>3
  <2> QED BY <2>1, <2>2, <2>3
<1> SUFFICES ASSUME NEW q \in Slot
             PROVE  /\ job'[q].step \in {"checkActive", "revoke"} => Spent(job[q].token)'
                    /\ job'[q].step = "revokeFamily" => Excused(tokens[job[q].token].family)'
  BY DEF ServedForReason
<1>6. PICK j, t, f : j = job'[q] /\ t = j.token /\ f = tokens'[t].family
  OBVIOUS
<1>7. /\ j.step \in {"checkActive", "revoke"} => Spent(t)'
      /\ j.step = "revokeFamily" => Excused(f)'
  BY <1>5, <1>6
<1> QED BY <1>6, <1>7 DEF Spent, Excused

\* Tokens are revoked for a reason, and families are burned for one.
LEMMA ReasonsKept ==
    ASSUME BrowserInv, [BrowserNext]_allVars
    PROVE  RevokedForReason' /\ FalseAlarmNeedsRace'
<1>1. /\ TypeInv /\ Front /\ BrowserTyped /\ RevokedForReason /\ ServedForReason
      /\ FalseAlarmNeedsRace
  BY DEF BrowserInv, SessionsInv, Front
<1>2. Served /\ [Next]_vars
  BY <1>1, ServedStep, ServedIsNext
<1>3. spent \subseteq spent' /\ lost \subseteq lost'
  BY <1>1, FrontStep
<1>4. ASSUME NEW r \in Slot, RevokeFamily(r)
      PROVE  Excused(tokens[job[r].token].family) /\ job[r].token \in DOMAIN tokens
  BY <1>1, <1>4 DEF RevokeFamily, At, ServedForReason, TypeInv, RowsKept
<1>5. ASSUME NEW t \in DOMAIN tokens', tokens'[t].status = "revoked",
             NEW f, f = tokens'[t].family
      PROVE  Spent(t)' \/ Excused(f)'
  <2>1. t \in DOMAIN tokens
    BY <1>1, <1>2, <1>5, RevokedBy
  <2>2. /\ f = tokens[t].family /\ tokens'[t].user = tokens[t].user
    BY <1>1, <1>2, <1>5, <2>1, TablesGrow
  <2>3. CASE tokens[t].status = "revoked"
    <3>1. Spent(t) \/ Excused(f)
      BY <1>1, <2>1, <2>2, <2>3 DEF RevokedForReason
    <3> QED BY <1>1, <1>2, <1>3, <3>1, SpentKept, ExcusedKept
  <2>4. CASE \E r \in Slot : Revoke(r) /\ t = job[r].token
    <3>1. Spent(t)
      BY <1>1, <2>4 DEF Revoke, At, ServedForReason
    <3> QED BY <1>3, <3>1, SpentKept
  <2>5. CASE \E r \in Slot : RevokeFamily(r) /\ tokens[t].family = tokens[job[r].token].family
    <3>1. Excused(f)
      BY <1>4, <2>2, <2>5
    <3> QED BY <1>1, <1>2, <1>3, <3>1, ExcusedKept
  <2>6. CASE t <= resetAt'[tokens[t].user]
    <3>1. Exposed(t)'
      BY <2>2, <2>6 DEF Exposed
    <3>2. t \in DOMAIN tokens' /\ tokens'[t].family = f
      BY <1>5
    <3> QED BY <3>1, <3>2 DEF Excused
  <2> QED BY <1>1, <1>2, <1>5, <2>3, <2>4, <2>5, <2>6, RevokedBy
<1>6. RevokedForReason'
  <2> SUFFICES ASSUME NEW t \in DOMAIN tokens', tokens'[t].status = "revoked"
               PROVE  Spent(t)' \/ Excused(tokens[t].family)'
    BY DEF RevokedForReason
  <2>1. PICK f : f = tokens'[t].family
    OBVIOUS
  <2>2. Spent(t)' \/ Excused(f)'
    BY <1>5, <2>1
  <2> QED BY <2>1, <2>2 DEF Excused
<1>7. \/ burned' = burned
      \/ \E r \in Slot : RevokeFamily(r) /\ burned' = burned \cup {tokens[job[r].token].family}
  <2>1. CASE \E r \in Slot : RevokeFamily(r)
    BY <2>1 DEF RevokeFamily
  <2>2. CASE \E r \in Slot : \/ Request(r) \/ Issue(r) \/ CheckActive(r) \/ Revoke(r)
                             \/ DeleteLinks(r) \/ CreateLink(r) \/ CommitReset(r)
                             \/ ResetFails(r) \/ Abort(r)
    BY <2>2 DEF Request, BeginLogin, BeginRequestReset, BeginRefresh, BeginReset, Issue,
                CheckActive, Revoke, DeleteLinks, CreateLink, CommitReset, ResetFails, Abort
  <2>3. CASE \/ \E v \in User : SetActive(v)
             \/ \E t \in DOMAIN tokens : TokenExpires(t)
             \/ \E i \in DOMAIN links : LinkExpires(i)
             \/ UNCHANGED vars
    BY <2>3 DEF SetActive, TokenExpires, LinkExpires, vars
  <2> QED BY <1>2, <2>1, <2>2, <2>3 DEF Served, Serve
<1>8. \A f \in burned' : Excused(f)
  BY <1>1, <1>4, <1>7 DEF FalseAlarmNeedsRace, Excused, Exposed
<1>9. FalseAlarmNeedsRace'
  <2>1. \A f \in burned' : Excused(f)'
    BY <1>1, <1>2, <1>3, <1>8, ExcusedKept
  <2> QED BY <2>1 DEF FalseAlarmNeedsRace, Excused, Exposed
<1> QED BY <1>6, <1>9

-----------------------------------------------------------------------------
(* Theorems *)

\* A browser that was never used, in front of an empty table of sessions.
LEMMA BrowserInvInit == BrowserInit => BrowserInv
<1> SUFFICES ASSUME BrowserInit PROVE BrowserInv
  OBVIOUS
<1>1. Init /\ SessionsInv
  BY InitSessions DEF BrowserInit
<1>2. /\ tokens = <<>> /\ burned = {} /\ job = [r \in Slot |-> Idle] /\ DOMAIN tokens = {}
      /\ stored = 0 /\ fetch = [r \in Slot |-> NoFetch] /\ spent = {} /\ lost = {}
  BY <1>1 DEF Init, BrowserInit
<1>3. BrowserTyped
  BY <1>2 DEF BrowserTyped, NoFetch
<1>4. RevokedForReason /\ ServedForReason /\ FalseAlarmNeedsRace
  BY <1>2 DEF RevokedForReason, ServedForReason, FalseAlarmNeedsRace, Idle
<1>5. SpentIsAwaited /\ AnswersFresh
  BY <1>2 DEF SpentIsAwaited, AnswersFresh
<1> QED BY <1>1, <1>3, <1>4, <1>5 DEF BrowserInv

\* Every step keeps the invariant.
LEMMA BrowserInvStep == BrowserInv /\ [BrowserNext]_allVars => BrowserInv'
<1> SUFFICES ASSUME BrowserInv, [BrowserNext]_allVars PROVE BrowserInv'
  OBVIOUS
<1>1. TypeInv /\ SessionsInv /\ Front /\ BrowserTyped
  BY DEF BrowserInv, SessionsInv, Front
<1>2. SessionsInv'
  BY <1>1, ServedStep, ServedIsNext, SessionsStep
<1>3. Front'
  BY <1>1, FrontStep
<1>4. ServedForReason' /\ RevokedForReason' /\ FalseAlarmNeedsRace'
  BY ServedKept, ReasonsKept
<1> QED BY <1>2, <1>3, <1>4 DEF BrowserInv, Front

\* The browser makes the server do nothing that Sessions does not say: whatever
\* the tabs send, the theorems about Sessions hold behind them.
THEOREM BrowserServed == BrowserSpec => Spec
<1>1. BrowserInit => Init
  BY DEF BrowserInit
<1>2. BrowserInv /\ [BrowserNext]_allVars => [Next]_vars
  BY ServedStep, ServedIsNext DEF BrowserInv
<1> QED BY <1>1, <1>2, BrowserInvInit, BrowserInvStep, PTL DEF BrowserSpec, Spec

\* AuthService takes a reused refresh token for theft.  With an honest browser it
\* burns a family only when two tabs spent one of its tokens, when the answer to a
\* refresh was lost on the way, or after a password reset (lib/api.ts,
\* refreshPromise).
THEOREM FalseAlarmCorrect == BrowserSpec => []FalseAlarmNeedsRace
<1>1. BrowserInv => FalseAlarmNeedsRace
  BY DEF BrowserInv
<1> QED BY <1>1, BrowserInvInit, BrowserInvStep, PTL DEF BrowserSpec

=============================================================================
