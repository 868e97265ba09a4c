----------------------------- MODULE BrowserSession ----------------------------
(***************************************************************************)
(* The dashboard's session (lib/api.ts, lib/token-store.ts) in front of    *)
(* AuthService (module Sessions): one browser with several tabs, which     *)
(* share the stored refresh token but not refreshPromise, a variable of    *)
(* each tab's own script.  Answers may be lost; so may the whole exchange  *)
(* as far as the browser can tell, while the server goes on.               *)
(***************************************************************************)
EXTENDS Sessions, Integers

CONSTANTS Tab,
          Lossy \* TRUE: the network may fail in the middle of an exchange

VARIABLES
    stored, \* the refresh token in localStorage, by row number; 0 is none
    fetch,  \* per server slot, the tab's call it answers
    spent,  \* history: <<tab, token>>, the tokens each tab sent to be refreshed
    lost    \* history: tokens whose refresh ended in a network failure

browserVars == <<stored, fetch, spent, lost>>
allVars == <<vars, browserVars>>

\* A call is a refresh of a token or a login; its answer is the row number of the
\* new refresh token.
NoFetch == [kind |-> "none"]
Pending == -1
Refused == 0

\* A browser has finitely many tabs.
ASSUME BrowserAssumption == Lossy \in BOOLEAN /\ IsFiniteSet(Tab)

BrowserInit ==
    /\ Init
    /\ stored = 0
    /\ fetch = [r \in Slot |-> NoFetch]
    /\ spent = {} /\ lost = {}

-----------------------------------------------------------------------------
(* The tabs *)

\* refreshPromise of the tab is not null.
Refreshing(w) == \E r \in Slot : fetch[r].kind = "refresh" /\ fetch[r].tab = w

\* What the server has to do for a token: an expired one is refused at once.
Present(r, t) ==
    IF tokens[t].status = "live" /\ tokens[t].expired THEN At(r, "idle") /\ UNCHANGED vars
    ELSE BeginRefresh(r, t)

\* Mutant: every caller that meets a 401 sends its own refresh.
RefreshEach(w, r) ==
    /\ stored # 0
    /\ fetch[r] = NoFetch /\ Present(r, stored)
    /\ fetch' = [fetch EXCEPT ![r] = [kind |-> "refresh", tab |-> w, token |-> stored,
          answer |-> IF tokens[stored].status = "live" /\ tokens[stored].expired
                     THEN Refused ELSE Pending]]
    /\ spent' = spent \cup {<<w, stored>>}
    /\ UNCHANGED <<stored, lost>>

\* A call got a 401: the first in its tab to do so sends what is stored, the
\* others wait for the same promise.
Refresh(w, r) ==
    /\ ~Refreshing(w) /\ stored # 0
    /\ fetch[r] = NoFetch /\ Present(r, stored)
    /\ fetch' = [fetch EXCEPT ![r] = [kind |-> "refresh", tab |-> w, token |-> stored,
          answer |-> IF tokens[stored].status = "live" /\ tokens[stored].expired
                     THEN Refused ELSE Pending]]
    /\ spent' = spent \cup {<<w, stored>>}
    /\ UNCHANGED <<stored, lost>>

SignIn(w, r, u) ==
    /\ fetch[r] = NoFetch
    /\ BeginLogin(r, u)
    /\ fetch' = [fetch EXCEPT ![r] = [kind |-> "login", tab |-> w, answer |-> Pending]]
    /\ UNCHANGED <<stored, spent, lost>>

\* Whatever is stored by now is replaced; a refused refresh empties the store, a
\* refused login only shows a message.
Receive(r) ==
    /\ fetch[r] # NoFetch /\ fetch[r].answer # Pending
    /\ stored' = IF fetch[r].kind = "login" /\ fetch[r].answer = Refused THEN stored
                 ELSE fetch[r].answer
    /\ fetch' = [fetch EXCEPT ![r] = NoFetch]
    /\ UNCHANGED <<vars, spent, lost>>

\* The fetch rejects: the store is left alone.
LoseAnswer(r) ==
    /\ Lossy /\ fetch[r] # NoFetch
    /\ lost' = IF fetch[r].kind = "refresh" THEN lost \cup {fetch[r].token} ELSE lost
    /\ fetch' = [fetch EXCEPT ![r] = NoFetch]
    /\ UNCHANGED <<vars, stored, spent>>

\* The navigation bar empties the store; the server is not told.
SignOut ==
    /\ stored # 0
    /\ stored' = 0
    /\ UNCHANGED <<vars, fetch, spent, lost>>

-----------------------------------------------------------------------------
(* The server's answers *)

Answer(r, a) == fetch' = IF fetch[r] = NoFetch THEN fetch
                         ELSE [fetch EXCEPT ![r].answer = a]

AnswerIssue(r) ==
    /\ Issue(r) /\ Answer(r, Len(tokens) + 1)
    /\ UNCHANGED <<stored, spent, lost>>

\* A reuse, an inactive account, or an error on the way.
AnswerRefusal(r) ==
    /\ \/ RevokeFamily(r)
       \/ CheckActive(r) /\ job'[r] = Idle
       \/ Abort(r)
    /\ Answer(r, Refused)
    /\ UNCHANGED <<stored, spent, lost>>

GoesOn(r) ==
    /\ Revoke(r) \/ (CheckActive(r) /\ job'[r] # Idle)
    /\ UNCHANGED browserVars

\* The reset link is opened without a session; a slot whose answer has not
\* arrived yet serves nothing else.
ResetStep(r) ==
    /\ fetch[r] = NoFetch
    /\ \/ \E u \in User : BeginRequestReset(r, u)
       \/ \E i \in DOMAIN links : BeginReset(r, i)
       \/ DeleteLinks(r) \/ CreateLink(r) \/ CommitReset(r) \/ ResetFails(r)
    /\ UNCHANGED browserVars

Elsewhere ==
    /\ \/ \E u \in User : SetActive(u)
       \/ \E t \in DOMAIN tokens : TokenExpires(t)
       \/ \E i \in DOMAIN links : LinkExpires(i)
    /\ UNCHANGED browserVars

BrowserNext ==
    \/ \E r \in Slot :
          \/ \E w \in Tab : Refresh(w, r) \/ \E u \in User : SignIn(w, r, u)
          \/ Receive(r) \/ LoseAnswer(r)
          \/ AnswerIssue(r) \/ AnswerRefusal(r) \/ GoesOn(r) \/ ResetStep(r)
    \/ SignOut \/ Elsewhere

BrowserSpec == BrowserInit /\ [][BrowserNext]_allVars

-----------------------------------------------------------------------------
(* Properties *)

\* The backend "treats a reused one as theft (revoking the whole session), so if
\* several requests hit a 401 around the same moment, only the first may actually
\* call /auth/refresh": an honest browser burns its family only when two tabs
\* spent one token, when the network lost the answer to a refresh, or after a
\* password reset.
FalseAlarmNeedsRace ==
    \A f \in burned : \E t \in DOMAIN tokens :
        /\ tokens[t].family = f
        /\ \/ Cardinality({w \in Tab : <<w, t>> \in spent}) > 1
           \/ t \in lost
           \/ t <= resetAt[tokens[t].user]

=============================================================================
