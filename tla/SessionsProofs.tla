---------------------------- MODULE SessionsProofs ----------------------------
(***************************************************************************)
(* Sessions, for any number of overlapping requests, users, tokens and     *)
(* links, with or without faults: type correctness, the chains that        *)
(* rotation makes, what a password reset ends, and which links still work. *)
(***************************************************************************)
EXTENDS Sessions, SequenceTheorems, TLAPS

-----------------------------------------------------------------------------
(* The invariant *)

\* What a row of any position can be; TypeOK says more of each position.
AnyToken == [user : User, family : Nat, parent : Nat, status : TokenStatus,
             expired : BOOLEAN, password : Nat]

\* The rows that requests in flight carry exist.
RowsKept ==
    \A r \in Slot :
        /\ job[r].step = "issue" /\ job[r].parent # 0 => job[r].parent \in DOMAIN tokens
        /\ job[r].step \in {"checkActive", "revoke", "revokeFamily"}
               => job[r].token \in DOMAIN tokens
        /\ job[r].step = "commitReset" => job[r].link \in DOMAIN links

TypeInv == TypeOK /\ tokens \in Seq(AnyToken) /\ RowsKept

\* A successor is on its way only when its predecessor has been revoked.
ChainInv ==
    /\ RotationIsAChain
    /\ \A r \in Slot : job[r].step = "issue" /\ job[r].parent # 0
                           => tokens[job[r].parent].status = "revoked"

SessionsInv == TypeInv /\ ChainInv /\ ResetEndsStoredSessions

-----------------------------------------------------------------------------
(* What steps do to the tables *)

\* A table rewritten row by row is a table of as many rows.
LEMMA Rewritten ==
    ASSUME NEW S, NEW T, NEW s \in Seq(S), NEW f, f = [i \in DOMAIN s |-> f[i]],
           \A i \in DOMAIN s : f[i] \in T
    PROVE  f \in Seq(T) /\ Len(f) = Len(s) /\ DOMAIN f = DOMAIN s
<1>1. Len(s) \in Nat /\ DOMAIN s = 1..Len(s)
  BY LenProperties
<1>2. f \in [1..Len(s) -> T]
  BY <1>1
<1>3. f \in Seq(T)
  BY <1>1, <1>2, SeqDef
<1>4. DOMAIN f = 1..Len(s)
  BY <1>2
<1>5. Len(f) = Len(s)
  BY <1>1, <1>3, <1>4, LenProperties
<1> QED BY <1>1, <1>3, <1>4, <1>5

\* No token is revived, and none changes hands.
Kept ==
    /\ tokens' \in Seq(AnyToken) /\ Len(tokens') = Len(tokens) /\ DOMAIN tokens' = DOMAIN tokens
    /\ \A t \in DOMAIN tokens :
          /\ tokens'[t] \in TokenRow(t)
          /\ tokens'[t].user = tokens[t].user /\ tokens'[t].family = tokens[t].family
          /\ tokens'[t].parent = tokens[t].parent
          /\ tokens[t].status = "revoked" => tokens'[t].status = "revoked"

\* Positions are numbers, and a row in its position is a row.
LEMMA TokenTyped ==
    ASSUME TypeInv, NEW t \in DOMAIN tokens
    PROVE  /\ t \in Nat \ {0} /\ Len(tokens) \in Nat /\ DOMAIN tokens = 1..Len(tokens)
           /\ tokens[t] \in TokenRow(t) /\ tokens[t] \in AnyToken
           /\ tokens[t].parent # 0 => tokens[t].parent \in DOMAIN tokens
<1>1. Len(tokens) \in Nat /\ DOMAIN tokens = 1..Len(tokens)
  BY LenProperties DEF TypeInv
<1>2. tokens[t] \in TokenRow(t) /\ tokens[t] \in AnyToken
  BY <1>1, ElementOfSeq DEF TypeInv, TypeOK
<1>3. tokens[t].parent \in 0..(t - 1)
  BY <1>2 DEF TokenRow
<1> QED BY <1>1, <1>2, <1>3

\* Replacing some rows by rows of the same session keeps the sessions.
LEMMA KeptRows ==
    ASSUME TypeInv, tokens' = [t \in DOMAIN tokens |-> tokens'[t]],
           \A t \in DOMAIN tokens :
               tokens'[t] \in {tokens[t], [tokens[t] EXCEPT !.status = "revoked"],
                               [tokens[t] EXCEPT !.expired = TRUE]}
    PROVE  Kept
<1>1. ASSUME NEW t \in DOMAIN tokens
      PROVE  /\ tokens'[t] \in TokenRow(t) /\ tokens'[t] \in AnyToken
             /\ tokens'[t].user = tokens[t].user /\ tokens'[t].family = tokens[t].family
             /\ tokens'[t].parent = tokens[t].parent
             /\ tokens[t].status = "revoked" => tokens'[t].status = "revoked"
  <2>1. tokens[t] \in TokenRow(t) /\ tokens[t] \in AnyToken
    BY TokenTyped
  <2>2. \A x \in {[tokens[t] EXCEPT !.status = "revoked"], [tokens[t] EXCEPT !.expired = TRUE]} :
           /\ x \in TokenRow(t) /\ x \in AnyToken
           /\ x.user = tokens[t].user /\ x.family = tokens[t].family
           /\ x.parent = tokens[t].parent
           /\ tokens[t].status = "revoked" => x.status = "revoked"
    BY <2>1 DEF TokenRow, AnyToken, TokenStatus
  <2> QED BY <2>1, <2>2
<1>2. /\ tokens' \in Seq(AnyToken) /\ Len(tokens') = Len(tokens)
      /\ DOMAIN tokens' = DOMAIN tokens
  <2>1. \A t \in DOMAIN tokens : tokens'[t] \in AnyToken
    BY <1>1
  <2>2. tokens \in Seq(AnyToken)
    BY DEF TypeInv
  <2> QED BY <2>1, <2>2, Rewritten
<1> QED BY <1>1, <1>2 DEF Kept

\* Every step but the issue of a token keeps the sessions.
LEMMA TokensStep ==
    ASSUME TypeInv, [Next]_vars, \A r \in Slot : ~Issue(r)
    PROVE  Kept
<1>0. tokens = [t \in DOMAIN tokens |-> tokens[t]]
  BY LenProperties DEF TypeInv
<1>1. ASSUME UNCHANGED tokens PROVE Kept
  BY <1>0, <1>1, KeptRows
<1>2. ASSUME NEW r \in Slot, RevokeFamily(r) PROVE Kept
  BY <1>2, KeptRows DEF RevokeFamily
<1>3. ASSUME NEW r \in Slot, Revoke(r) PROVE Kept
  BY <1>0, <1>3, KeptRows DEF Revoke
<1>4. ASSUME NEW r \in Slot, CommitReset(r) PROVE Kept
  BY <1>4, KeptRows DEF CommitReset
<1>5. ASSUME NEW t \in DOMAIN tokens, Logout(t) PROVE Kept
  BY <1>0, <1>5, KeptRows DEF Logout
<1>6. ASSUME NEW t \in DOMAIN tokens, TokenExpires(t) PROVE Kept
  BY <1>0, <1>6, KeptRows DEF TokenExpires
<1>7. ASSUME NEW r \in Slot, Request(r) PROVE UNCHANGED tokens
  BY <1>7 DEF Request, BeginLogin, BeginRequestReset, BeginRefresh, BeginReset
<1>8. ASSUME NEW r \in Slot, CheckActive(r) \/ DeleteLinks(r) \/ CreateLink(r) \/ ResetFails(r)
                             \/ Abort(r)
      PROVE  UNCHANGED tokens
  BY <1>8 DEF CheckActive, DeleteLinks, CreateLink, ResetFails, Abort
<1>9. ASSUME \/ \E u \in User : SetActive(u)
             \/ \E i \in DOMAIN links : LinkExpires(i)
             \/ UNCHANGED vars
      PROVE  UNCHANGED tokens
  BY <1>9 DEF SetActive, LinkExpires, vars
<1> QED BY <1>1, <1>2, <1>3, <1>4, <1>5, <1>6, <1>7, <1>8, <1>9 DEF Next, Serve

\* No step removes a link.
LEMMA LinksStep ==
    ASSUME TypeInv, [Next]_vars
    PROVE  links' \in Seq(LinkRow) /\ DOMAIN links \subseteq DOMAIN links'
<1>0. links \in Seq(LinkRow) /\ \A i \in DOMAIN links : links[i] \in LinkRow
  BY ElementOfSeq, LenProperties DEF TypeInv, TypeOK
<1>1. ASSUME links' = [i \in DOMAIN links |-> links'[i]],
             \A i \in DOMAIN links : links'[i] \in LinkRow
      PROVE  links' \in Seq(LinkRow) /\ DOMAIN links \subseteq DOMAIN links'
  BY <1>0, <1>1, Rewritten
<1>2. ASSUME UNCHANGED links PROVE links' \in Seq(LinkRow) /\ DOMAIN links \subseteq DOMAIN links'
  BY <1>0, <1>2
<1>3. links = [i \in DOMAIN links |-> links[i]]
  BY <1>0, LenProperties
<1>4. ASSUME NEW r \in Slot, DeleteLinks(r)
      PROVE  links' \in Seq(LinkRow) /\ DOMAIN links \subseteq DOMAIN links'
  <2>1. \A i \in DOMAIN links : [links[i] EXCEPT !.status = "deleted"] \in LinkRow
    BY <1>0 DEF LinkRow
  <2> QED BY <1>0, <1>1, <1>4, <2>1 DEF DeleteLinks
<1>5. ASSUME NEW r \in Slot, CreateLink(r)
      PROVE  links' \in Seq(LinkRow) /\ DOMAIN links \subseteq DOMAIN links'
  <2>0. job[r] \in {Idle} \cup Job /\ job[r].step = "createLink"
    BY <1>5 DEF CreateLink, At, TypeInv, TypeOK
  <2>1. job[r].user \in User
    BY <2>0 DEF Job, Idle
  <2> DEFINE new == [user |-> job[r].user, status |-> "fresh", expired |-> FALSE, uses |-> 0]
  <2>2. new \in LinkRow /\ links' = Append(links, new)
    BY <1>5, <2>1 DEF LinkRow, CreateLink
  <2> HIDE DEF new
  <2> QED BY <1>0, <2>2
<1>6. ASSUME NEW r \in Slot, CommitReset(r)
      PROVE  links' \in Seq(LinkRow) /\ DOMAIN links \subseteq DOMAIN links'
  <2> DEFINE k == job[r].link
             new == [[links[k] EXCEPT !.status = "used"] EXCEPT !.uses = links[k].uses + 1]
  <2>1. k \in DOMAIN links
    BY <1>6 DEF CommitReset, At, TypeInv, RowsKept
  <2>2. links[k].uses + 1 \in Nat
    BY <1>0, <2>1 DEF LinkRow
  <2>3. new \in LinkRow
    BY <1>0, <2>1, <2>2 DEF LinkRow
  <2>4. links' = [i \in DOMAIN links |-> IF i = k THEN new ELSE links[i]]
    <3>1. links' = [links EXCEPT ![k].status = "used", ![k].uses = @ + 1]
      BY <1>6 DEF CommitReset
    <3>2. links[k] \in LinkRow
      BY <1>0, <2>1
    <3> HIDE DEF k
    <3> QED BY <1>3, <2>1, <3>1, <3>2 DEF LinkRow
  <2> HIDE DEF new, k
  <2> QED BY <1>0, <1>1, <2>3, <2>4
<1>7. ASSUME NEW i \in DOMAIN links, LinkExpires(i)
      PROVE  links' \in Seq(LinkRow) /\ DOMAIN links \subseteq DOMAIN links'
  <2>1. [links[i] EXCEPT !.expired = TRUE] \in LinkRow
    BY <1>0 DEF LinkRow
  <2> QED BY <1>0, <1>1, <1>3, <1>7, <2>1 DEF LinkExpires
<1>8. ASSUME NEW r \in Slot, \/ Request(r) \/ Issue(r) \/ RevokeFamily(r) \/ CheckActive(r)
                             \/ Revoke(r) \/ ResetFails(r) \/ Abort(r)
      PROVE  UNCHANGED links
  BY <1>8 DEF Request, BeginLogin, BeginRequestReset, BeginRefresh, BeginReset, Issue,
              RevokeFamily, CheckActive, Revoke, ResetFails, Abort
<1>9. ASSUME \/ \E u \in User : SetActive(u)
             \/ \E t \in DOMAIN tokens : Logout(t) \/ TokenExpires(t)
             \/ UNCHANGED vars
      PROVE  UNCHANGED links
  BY <1>9 DEF SetActive, Logout, TokenExpires, vars
<1> QED BY <1>2, <1>4, <1>5, <1>6, <1>7, <1>8, <1>9 DEF Next, Serve

\* A step that gives one request a call keeps the others' calls.
LEMMA OneCall ==
    ASSUME TypeInv, NEW r \in Slot, NEW c \in {Idle} \cup Job, job' = [job EXCEPT ![r] = c],
           DOMAIN tokens \subseteq DOMAIN tokens', DOMAIN links \subseteq DOMAIN links',
           c.step = "issue" /\ c.parent # 0 => c.parent \in DOMAIN tokens',
           c.step \in {"checkActive", "revoke", "revokeFamily"} => c.token \in DOMAIN tokens',
           c.step = "commitReset" => c.link \in DOMAIN links'
    PROVE  job' \in [Slot -> {Idle} \cup Job] /\ RowsKept'
<1>1. job \in [Slot -> {Idle} \cup Job]
  BY DEF TypeInv, TypeOK
<1>2. job' \in [Slot -> {Idle} \cup Job]
  BY <1>1
<1>3. RowsKept'
  BY <1>1 DEF TypeInv, RowsKept
<1> QED BY <1>2, <1>3

\* Starting a request keeps its call well-formed.
LEMMA RequestCall ==
    ASSUME TypeInv, NEW r \in Slot, Request(r),
           DOMAIN tokens \subseteq DOMAIN tokens', DOMAIN links \subseteq DOMAIN links'
    PROVE  job' \in [Slot -> {Idle} \cup Job] /\ RowsKept'
<1>1. ASSUME NEW u \in User, BeginLogin(r, u)
      PROVE  job' \in [Slot -> {Idle} \cup Job] /\ RowsKept'
  <2> DEFINE c == [step |-> "issue", user |-> u, parent |-> 0, password |-> password[u]]
  <2>1. c \in Job
    BY DEF Job, TypeInv, TypeOK
  <2>2. job' = [job EXCEPT ![r] = c]
    BY <1>1 DEF BeginLogin, Begin
  <2>3. c.step = "issue" /\ c.parent = 0
    OBVIOUS
  <2> HIDE DEF c
  <2> QED BY <2>1, <2>2, <2>3, OneCall
<1>2. ASSUME NEW u \in User, BeginRequestReset(r, u)
      PROVE  job' \in [Slot -> {Idle} \cup Job] /\ RowsKept'
  <2> DEFINE c == [step |-> "deleteLinks", user |-> u]
  <2>1. c \in Job /\ c.step = "deleteLinks"
    BY DEF Job
  <2>2. job' = [job EXCEPT ![r] = c]
    BY <1>2 DEF BeginRequestReset, Begin
  <2> HIDE DEF c
  <2> QED BY <2>1, <2>2, OneCall
<1>3. ASSUME NEW t \in DOMAIN tokens, BeginRefresh(r, t)
      PROVE  job' \in [Slot -> {Idle} \cup Job] /\ RowsKept'
  <2> DEFINE s == IF tokens[t].status = "revoked" THEN "revokeFamily" ELSE "checkActive"
             c == [step |-> s, token |-> t]
  <2>1. c \in Job /\ c.step \in {"revokeFamily", "checkActive"} /\ c.token = t
    BY TokenTyped DEF Job
  <2>2. job' = [job EXCEPT ![r] = c]
    BY <1>3 DEF BeginRefresh, Begin
  <2> HIDE DEF c
  <2> QED BY <2>1, <2>2, OneCall
<1>4. ASSUME NEW i \in DOMAIN links, BeginReset(r, i)
      PROVE  job' \in [Slot -> {Idle} \cup Job] /\ RowsKept'
  <2> DEFINE c == [step |-> "commitReset", link |-> i]
  <2>0. i \in Nat \ {0}
    BY LenProperties DEF TypeInv, TypeOK
  <2>1. c \in Job /\ c.step = "commitReset" /\ c.link = i
    BY <2>0 DEF Job
  <2>2. job' = [job EXCEPT ![r] = c]
    BY <1>4 DEF BeginReset, Begin
  <2> HIDE DEF c
  <2> QED BY <2>1, <2>2, OneCall
<1> QED BY <1>1, <1>2, <1>3, <1>4 DEF Request

\* So does every later step of a request.
LEMMA ServeCall ==
    ASSUME TypeInv, NEW r \in Slot, Serve(r) \/ Abort(r),
           DOMAIN tokens \subseteq DOMAIN tokens', DOMAIN links \subseteq DOMAIN links'
    PROVE  job' \in [Slot -> {Idle} \cup Job] /\ RowsKept'
<1>0. job[r] \in {Idle} \cup Job /\ job \in [Slot -> {Idle} \cup Job]
  BY DEF TypeInv, TypeOK
<1>1. ASSUME job' = [job EXCEPT ![r] = Idle]
      PROVE  job' \in [Slot -> {Idle} \cup Job] /\ RowsKept'
  BY <1>1, OneCall DEF Idle
<1>2. CASE \/ Issue(r) \/ RevokeFamily(r) \/ CreateLink(r) \/ CommitReset(r) \/ ResetFails(r)
           \/ Abort(r)
  BY <1>1, <1>2 DEF Issue, RevokeFamily, CreateLink, CommitReset, ResetFails, Abort, Done
<1>3. CASE CheckActive(r)
  <2>1. CASE active[tokens[job[r].token].user]
    <3> DEFINE c == [job[r] EXCEPT !.step = "revoke"]
    <3>1. job' = [job EXCEPT ![r] = c] /\ job[r].step = "checkActive"
      BY <1>0, <1>3, <2>1 DEF CheckActive, At, Goto
    <3>2. job[r].token \in DOMAIN tokens
      BY <3>1 DEF TypeInv, RowsKept
    <3>3. c \in Job /\ c.step = "revoke" /\ c.token = job[r].token
      BY <1>0, <3>1 DEF Job, Idle
    <3> HIDE DEF c
    <3> QED BY <3>1, <3>2, <3>3, OneCall
  <2>2. CASE ~active[tokens[job[r].token].user]
    BY <1>1, <1>3, <2>2 DEF CheckActive, Done
  <2> QED BY <2>1, <2>2
<1>4. CASE Revoke(r)
  <2> DEFINE t == job[r].token
             c == [step |-> "issue", user |-> tokens[t].user, parent |-> t,
                   password |-> tokens[t].password]
  <2>1. t \in DOMAIN tokens /\ job' = [job EXCEPT ![r] = c]
    BY <1>4 DEF Revoke, At, TypeInv, RowsKept
  <2>2. tokens[t] \in AnyToken /\ t \in Nat
    BY <2>1, TokenTyped
  <2>3. c \in Job /\ c.step = "issue" /\ c.parent = t
    BY <2>2 DEF Job, AnyToken
  <2> HIDE DEF c, t
  <2> QED BY <2>1, <2>3, OneCall
<1>5. CASE DeleteLinks(r)
  <2> DEFINE c == [job[r] EXCEPT !.step = "createLink"]
  <2>1. job' = [job EXCEPT ![r] = c] /\ job[r].step = "deleteLinks"
    BY <1>0, <1>5 DEF DeleteLinks, At, Goto
  <2>2. c \in Job /\ c.step = "createLink"
    BY <1>0, <2>1 DEF Job, Idle
  <2> HIDE DEF c
  <2> QED BY <2>1, <2>2, OneCall
<1> QED BY <1>2, <1>3, <1>4, <1>5 DEF Serve

\* The token that is issued fits its position.
LEMMA IssuedToken ==
    ASSUME TypeInv, NEW r \in Slot, Issue(r)
    PROVE  LET id == Len(tokens) + 1 IN
           /\ id \in Nat /\ id \notin DOMAIN tokens
           /\ tokens' \in Seq(AnyToken) /\ Len(tokens') = id
           /\ DOMAIN tokens' = DOMAIN tokens \cup {id}
           /\ \A t \in DOMAIN tokens : tokens'[t] = tokens[t]
           /\ tokens'[id] \in TokenRow(id) /\ tokens'[id].parent = job[r].parent
           /\ tokens'[id].parent # 0
                  => tokens'[id].family = tokens[tokens'[id].parent].family
<1> DEFINE id == Len(tokens) + 1
           p == job[r].parent
           family == IF p = 0 THEN id ELSE tokens[p].family
           new == [user |-> job[r].user, family |-> family, parent |-> p, status |-> "live",
                   expired |-> FALSE, password |-> job[r].password]
<1>1. /\ tokens \in Seq(AnyToken) /\ Len(tokens) \in Nat /\ DOMAIN tokens = 1..Len(tokens)
      /\ job[r] \in {Idle} \cup Job /\ job[r].step = "issue"
  BY LenProperties DEF Issue, At, TypeInv, TypeOK
<1>2. job[r].user \in User /\ p \in Nat /\ job[r].password \in Nat
  BY <1>1 DEF Job, Idle
<1>3. p # 0 => p \in DOMAIN tokens
  BY <1>1 DEF TypeInv, RowsKept
<1>4. family \in 1..id /\ p \in 0..(id - 1)
  <2>1. CASE p = 0
    BY <1>1, <2>1
  <2>2. CASE p # 0
    <3>1. tokens[p] \in TokenRow(p) /\ p \in 1..Len(tokens)
      BY <1>1, <1>3, <2>2, TokenTyped
    <3>2. tokens[p].family \in 1..p
      BY <3>1 DEF TokenRow
    <3> QED BY <1>1, <2>2, <3>1, <3>2
  <2> QED BY <2>1, <2>2
<1>5. tokens' = Append(tokens, new)
  BY DEF Issue
<1> HIDE DEF family
<1>6. new \in TokenRow(id) /\ new \in AnyToken
  BY <1>1, <1>2, <1>4 DEF TokenRow, AnyToken, TokenStatus
<1>7. new.parent = p /\ (p # 0 => new.family = tokens[p].family)
  BY DEF family
<1>8. id \in Nat /\ id \notin DOMAIN tokens
  BY <1>1
<1> HIDE DEF new, p
<1>9. /\ tokens' \in Seq(AnyToken) /\ Len(tokens') = id
      /\ DOMAIN tokens' = DOMAIN tokens \cup {id}
      /\ \A t \in DOMAIN tokens : tokens'[t] = tokens[t]
      /\ tokens'[id] = new
  BY <1>1, <1>5, <1>6
<1>10. tokens'[id].parent = p /\ (p # 0 => tokens'[id].family = tokens[p].family)
  BY <1>7, <1>9
<1>11. p = job[r].parent
  BY DEF p
<1> HIDE DEF id
<1>12. /\ id \in Nat /\ id \notin DOMAIN tokens
       /\ tokens' \in Seq(AnyToken) /\ Len(tokens') = id
       /\ DOMAIN tokens' = DOMAIN tokens \cup {id}
       /\ \A t \in DOMAIN tokens : tokens'[t] = tokens[t]
       /\ tokens'[id] \in TokenRow(id) /\ tokens'[id].parent = job[r].parent
       /\ tokens'[id].parent # 0
              => tokens'[id].family = tokens[tokens'[id].parent].family
  BY <1>6, <1>8, <1>9, <1>10, <1>11
<1> QED BY <1>12 DEF id

\* The columns the tables refer to keep their types.
LEMMA ColumnsTyped ==
    ASSUME TypeInv, [Next]_vars, Len(tokens') \in Nat, Len(tokens) <= Len(tokens'),
           Len(tokens) \in Nat,
           DOMAIN tokens \subseteq DOMAIN tokens'
    PROVE  /\ active' \in [User -> BOOLEAN] /\ password' \in [User -> Nat]
           /\ resetAt' \in [User -> 0..Len(tokens')] /\ burned' \subseteq DOMAIN tokens'
<1> DEFINE Goal == /\ active' \in [User -> BOOLEAN] /\ password' \in [User -> Nat]
                   /\ resetAt' \in [User -> 0..Len(tokens')] /\ burned' \subseteq DOMAIN tokens'
<1>0. /\ active \in [User -> BOOLEAN] /\ password \in [User -> Nat]
      /\ resetAt \in [User -> 0..Len(tokens)] /\ burned \subseteq DOMAIN tokens
  BY DEF TypeInv, TypeOK
<1>1. resetAt \in [User -> 0..Len(tokens')] /\ burned \subseteq DOMAIN tokens'
  BY <1>0
<1>2. ASSUME UNCHANGED <<active, password, resetAt, burned>> PROVE Goal
  BY <1>0, <1>1, <1>2
<1>3. ASSUME NEW r \in Slot, \/ Request(r) \/ Issue(r) \/ CheckActive(r) \/ Revoke(r)
                             \/ DeleteLinks(r) \/ CreateLink(r) \/ ResetFails(r) \/ Abort(r)
      PROVE  UNCHANGED <<active, password, resetAt, burned>>
  BY <1>3 DEF Request, BeginLogin, BeginRequestReset, BeginRefresh, BeginReset, Issue,
              CheckActive, Revoke, DeleteLinks, CreateLink, ResetFails, Abort
<1>4. ASSUME NEW r \in Slot, RevokeFamily(r) PROVE Goal
  <2>1. job[r].token \in DOMAIN tokens
    BY <1>4 DEF RevokeFamily, At, TypeInv, RowsKept
  <2>2. /\ tokens[job[r].token] \in TokenRow(job[r].token) /\ job[r].token \in Nat
        /\ DOMAIN tokens = 1..Len(tokens) /\ Len(tokens) \in Nat
    BY <2>1, TokenTyped
  <2>3. tokens[job[r].token].family \in 1..job[r].token
    BY <2>2 DEF TokenRow
  <2>4. tokens[job[r].token].family \in DOMAIN tokens
    BY <2>1, <2>2, <2>3
  <2>5. /\ burned' = burned \cup {tokens[job[r].token].family}
        /\ UNCHANGED <<active, password, resetAt>>
    BY <1>4 DEF RevokeFamily
  <2> QED BY <1>0, <1>1, <2>4, <2>5
<1>5. ASSUME NEW r \in Slot, CommitReset(r) PROVE Goal
  <2> DEFINE u == links[job[r].link].user
  <2>1. /\ password' = [password EXCEPT ![u] = @ + 1] /\ resetAt' = [resetAt EXCEPT ![u] = Len(tokens)]
        /\ UNCHANGED <<active, burned>>
    BY <1>5 DEF CommitReset
  <2>2. Len(tokens) \in 0..Len(tokens')
    OBVIOUS
  <2> HIDE DEF u
  <2>3. password' = [x \in User |-> IF x = u THEN password[x] + 1 ELSE password[x]]
    BY <1>0, <2>1
  <2>4. password' \in [User -> Nat]
    BY <1>0, <2>3
  <2>5. resetAt' \in [User -> 0..Len(tokens')]
    BY <1>1, <2>1, <2>2
  <2> QED BY <1>0, <1>1, <2>1, <2>4, <2>5
<1>6. ASSUME NEW u \in User, SetActive(u) PROVE Goal
  BY <1>0, <1>1, <1>6 DEF SetActive
<1>7. ASSUME \/ \E t \in DOMAIN tokens : Logout(t) \/ TokenExpires(t)
             \/ \E i \in DOMAIN links : LinkExpires(i)
             \/ UNCHANGED vars
      PROVE  UNCHANGED <<active, password, resetAt, burned>>
  BY <1>7 DEF Logout, TokenExpires, LinkExpires, vars
<1> QED BY <1>2, <1>3, <1>4, <1>5, <1>6, <1>7 DEF Next, Serve

-----------------------------------------------------------------------------
(* The chain of rotations and the reach of a reset *)

\* A request about to issue a successor has been so, or has just revoked.
LEMMA IssueCalls ==
    ASSUME TypeInv, [Next]_vars, NEW r \in Slot, job'[r].step = "issue", job'[r].parent # 0
    PROVE  job'[r] = job[r] \/ (Revoke(r) /\ job'[r].parent = job[r].token)
<1>0. job \in [Slot -> {Idle} \cup Job]
  BY DEF TypeInv, TypeOK
<1>1. ASSUME NEW q \in Slot, NEW c, job' = [job EXCEPT ![q] = c], q # r \/ c.step # "issue"
      PROVE  job'[r] = job[r]
  BY <1>0, <1>1
<1>2. ASSUME NEW q \in Slot, Request(q) PROVE job'[r] = job[r]
  <2>1. ASSUME NEW u \in User, BeginLogin(q, u) PROVE job'[r] = job[r]
    <3>1. job' = [job EXCEPT ![q] = [step |-> "issue", user |-> u, parent |-> 0,
                                     password |-> password[u]]]
      BY <2>1 DEF BeginLogin, Begin
    <3> QED BY <1>0, <3>1
  <2>2. ASSUME NEW u \in User, BeginRequestReset(q, u) PROVE job'[r] = job[r]
    BY <1>1, <2>2 DEF BeginRequestReset, Begin
  <2>3. ASSUME NEW t \in DOMAIN tokens, BeginRefresh(q, t) PROVE job'[r] = job[r]
    BY <1>1, <2>3 DEF BeginRefresh, Begin
  <2>4. ASSUME NEW i \in DOMAIN links, BeginReset(q, i) PROVE job'[r] = job[r]
    BY <1>1, <2>4 DEF BeginReset, Begin
  <2> QED BY <1>2, <2>1, <2>2, <2>3, <2>4 DEF Request
<1>3. ASSUME NEW q \in Slot, \/ Issue(q) \/ RevokeFamily(q) \/ CreateLink(q) \/ CommitReset(q)
                             \/ ResetFails(q) \/ Abort(q)
      PROVE  job'[r] = job[r]
  <2>1. job' = [job EXCEPT ![q] = Idle] /\ Idle.step # "issue"
    BY <1>3 DEF Issue, RevokeFamily, CreateLink, CommitReset, ResetFails, Abort, Done, Idle
  <2> QED BY <1>1, <2>1
<1>4. ASSUME NEW q \in Slot, CheckActive(q) PROVE job'[r] = job[r]
  <2>1. job'[q].step # "issue" /\ \A s \in Slot \ {q} : job'[s] = job[s]
    <3>1. job[q] \in Job /\ job[q].step = "checkActive"
      BY <1>0, <1>4 DEF CheckActive, At, Idle
    <3>2. [job[q] EXCEPT !.step = "revoke"].step = "revoke"
      BY <3>1 DEF Job
    <3>3. CASE active[tokens[job[q].token].user]
      <4>1. job' = [job EXCEPT ![q].step = "revoke"]
        BY <1>4, <3>3 DEF CheckActive, Goto
      <4> QED BY <1>0, <3>2, <4>1
    <3>4. CASE ~active[tokens[job[q].token].user]
      <4>1. job' = [job EXCEPT ![q] = Idle] /\ Idle.step # "issue"
        BY <1>4, <3>4 DEF CheckActive, Done, Idle
      <4> QED BY <1>0, <4>1
    <3> QED BY <3>3, <3>4
  <2> QED BY <2>1
<1>5. ASSUME NEW q \in Slot, DeleteLinks(q) PROVE job'[r] = job[r]
  <2>1. job'[q].step # "issue" /\ \A s \in Slot \ {q} : job'[s] = job[s]
    <3>1. job[q] \in Job /\ job[q].step = "deleteLinks"
      BY <1>0, <1>5 DEF DeleteLinks, At, Idle
    <3>2. [job[q] EXCEPT !.step = "createLink"].step = "createLink"
      BY <3>1 DEF Job
    <3> QED BY <1>0, <1>5, <3>2 DEF DeleteLinks, Goto
  <2> QED BY <2>1
<1>6. ASSUME NEW q \in Slot, Revoke(q)
      PROVE  job'[r] = job[r] \/ (Revoke(r) /\ job'[r].parent = job[r].token)
  BY <1>0, <1>6 DEF Revoke
<1>7. ASSUME \/ \E u \in User : SetActive(u)
             \/ \E t \in DOMAIN tokens : Logout(t) \/ TokenExpires(t)
             \/ \E i \in DOMAIN links : LinkExpires(i)
             \/ UNCHANGED vars
      PROVE  job'[r] = job[r]
  BY <1>7 DEF SetActive, Logout, TokenExpires, LinkExpires, vars
<1> QED BY <1>2, <1>3, <1>4, <1>5, <1>6, <1>7 DEF Next, Serve

\* Every step keeps the types.
LEMMA StepTyped == ASSUME TypeInv, [Next]_vars PROVE TypeInv'
<1>0. Len(tokens) \in Nat /\ DOMAIN tokens = 1..Len(tokens)
  BY LenProperties DEF TypeInv
<1>1. /\ tokens' \in Seq(AnyToken) /\ Len(tokens') \in Nat /\ Len(tokens) <= Len(tokens')
      /\ DOMAIN tokens \subseteq DOMAIN tokens'
      /\ \A t \in DOMAIN tokens' : tokens'[t] \in TokenRow(t)
  <2>1. CASE \A r \in Slot : ~Issue(r)
    BY <1>0, <2>1, TokensStep DEF Kept
  <2>2. ASSUME NEW r \in Slot, Issue(r)
        PROVE  /\ tokens' \in Seq(AnyToken) /\ Len(tokens') \in Nat
               /\ Len(tokens) <= Len(tokens') /\ DOMAIN tokens \subseteq DOMAIN tokens'
               /\ \A t \in DOMAIN tokens' : tokens'[t] \in TokenRow(t)
    <3> DEFINE id == Len(tokens) + 1
    <3>1. /\ tokens' \in Seq(AnyToken) /\ Len(tokens') = id
          /\ DOMAIN tokens' = DOMAIN tokens \cup {id}
          /\ \A t \in DOMAIN tokens : tokens'[t] = tokens[t]
          /\ tokens'[id] \in TokenRow(id)
      BY <2>2, IssuedToken
    <3>2. \A t \in DOMAIN tokens : tokens[t] \in TokenRow(t)
      BY TokenTyped
    <3> QED BY <1>0, <3>1, <3>2
  <2> QED BY <2>1, <2>2
<1>2. links' \in Seq(LinkRow) /\ DOMAIN links \subseteq DOMAIN links'
  BY LinksStep
<1>3. job' \in [Slot -> {Idle} \cup Job] /\ RowsKept'
  <2>1. ASSUME NEW r \in Slot, Request(r) \/ Serve(r) \/ Abort(r)
        PROVE  job' \in [Slot -> {Idle} \cup Job] /\ RowsKept'
    BY <1>1, <1>2, <2>1, RequestCall, ServeCall
  <2>2. ASSUME job' = job PROVE job' \in [Slot -> {Idle} \cup Job] /\ RowsKept'
    BY <1>1, <1>2, <2>2 DEF TypeInv, TypeOK, RowsKept
  <2>3. ASSUME \/ \E u \in User : SetActive(u)
               \/ \E t \in DOMAIN tokens : Logout(t) \/ TokenExpires(t)
               \/ \E i \in DOMAIN links : LinkExpires(i)
               \/ UNCHANGED vars
        PROVE  job' = job
    BY <2>3 DEF SetActive, Logout, TokenExpires, LinkExpires, vars
  <2> QED BY <2>1, <2>2, <2>3 DEF Next
<1>4. /\ active' \in [User -> BOOLEAN] /\ password' \in [User -> Nat]
      /\ resetAt' \in [User -> 0..Len(tokens')] /\ burned' \subseteq DOMAIN tokens'
  BY <1>0, <1>1, ColumnsTyped
<1> QED BY <1>1, <1>2, <1>3, <1>4 DEF TypeInv, TypeOK

\* Every step keeps the chains.
LEMMA ChainStep == ASSUME TypeInv, ChainInv, [Next]_vars PROVE ChainInv'
<1>1. \A t \in DOMAIN tokens :
          /\ t \in DOMAIN tokens' /\ tokens'[t].family = tokens[t].family
          /\ tokens[t].status = "revoked" => tokens'[t].status = "revoked"
  <2>1. CASE \A r \in Slot : ~Issue(r)
    BY <2>1, TokensStep DEF Kept
  <2>2. ASSUME NEW r \in Slot, Issue(r)
        PROVE  \A t \in DOMAIN tokens : t \in DOMAIN tokens' /\ tokens'[t] = tokens[t]
    BY <2>2, IssuedToken
  <2> QED BY <2>1, <2>2
<1>2. ASSUME NEW r \in Slot, job'[r].step = "issue", job'[r].parent # 0
      PROVE  tokens'[job'[r].parent].status = "revoked"
  <2>1. CASE job'[r] = job[r]
    BY <1>1, <1>2, <2>1 DEF ChainInv, TypeInv, RowsKept
  <2>2. CASE Revoke(r) /\ job'[r].parent = job[r].token
    <3>1. job[r].token \in DOMAIN tokens
      BY <2>2 DEF Revoke, At, TypeInv, RowsKept
    <3>2. tokens[job[r].token] \in AnyToken
      BY <3>1, TokenTyped
    <3> QED BY <2>2, <3>1, <3>2 DEF Revoke, AnyToken
  <2> QED BY <1>2, <2>1, <2>2, IssueCalls
<1>3. RotationIsAChain'
  <2>1. ASSUME NEW t \in DOMAIN tokens, tokens'[t].parent = tokens[t].parent,
               tokens'[t].parent # 0
        PROVE  /\ tokens'[tokens'[t].parent].status = "revoked"
               /\ tokens'[tokens'[t].parent].family = tokens'[t].family
    <3>1. tokens[t].parent \in DOMAIN tokens
      BY <2>1, TokenTyped
    <3>2. /\ tokens[tokens[t].parent].status = "revoked"
          /\ tokens[tokens[t].parent].family = tokens[t].family
      BY <2>1 DEF ChainInv, RotationIsAChain
    <3> QED BY <1>1, <2>1, <3>1, <3>2
  <2>2. CASE \A r \in Slot : ~Issue(r)
    <3>1. DOMAIN tokens' = DOMAIN tokens /\ \A t \in DOMAIN tokens : tokens'[t].parent = tokens[t].parent
      BY <2>2, TokensStep DEF Kept
    <3> QED BY <2>1, <3>1 DEF RotationIsAChain
  <2>3. ASSUME NEW r \in Slot, Issue(r) PROVE RotationIsAChain'
    <3> DEFINE id == Len(tokens) + 1
    <3>1. /\ DOMAIN tokens' = DOMAIN tokens \cup {id}
          /\ \A t \in DOMAIN tokens : tokens'[t] = tokens[t]
          /\ tokens'[id].parent = job[r].parent
          /\ tokens'[id].parent # 0 => tokens'[id].family = tokens[tokens'[id].parent].family
      BY <2>3, IssuedToken
    <3>2. ASSUME tokens'[id].parent # 0
          PROVE  /\ tokens'[tokens'[id].parent].status = "revoked"
                 /\ tokens'[tokens'[id].parent].family = tokens'[id].family
      <4>1. job[r].step = "issue" /\ job[r].parent # 0
        BY <2>3, <3>1, <3>2 DEF Issue, At
      <4>2. /\ job[r].parent \in DOMAIN tokens
            /\ tokens[job[r].parent].status = "revoked"
        BY <4>1 DEF TypeInv, RowsKept, ChainInv
      <4> QED BY <3>1, <3>2, <4>2
    <3> HIDE DEF id
    <3> QED BY <2>1, <3>1, <3>2 DEF RotationIsAChain
  <2> QED BY <2>2, <2>3
<1> QED BY <1>2, <1>3 DEF ChainInv

\* Every step keeps what a reset has ended.
LEMMA ResetKept ==
    ASSUME TypeInv, ResetEndsStoredSessions, [Next]_vars PROVE ResetEndsStoredSessions'
<1>0. /\ Len(tokens) \in Nat /\ DOMAIN tokens = 1..Len(tokens)
      /\ resetAt \in [User -> 0..Len(tokens)]
      /\ \A t \in DOMAIN tokens : tokens[t].user \in User
  BY LenProperties DEF TypeInv, TypeOK, TokenRow
<1>1. ASSUME NEW r \in Slot, Issue(r) PROVE ResetEndsStoredSessions'
  <2> DEFINE id == Len(tokens) + 1
  <2>1. /\ DOMAIN tokens' = DOMAIN tokens \cup {id}
        /\ \A t \in DOMAIN tokens : tokens'[t] = tokens[t]
        /\ tokens'[id] \in TokenRow(id)
    BY <1>1, IssuedToken
  <2>2. resetAt' = resetAt /\ tokens'[id].user \in User
    BY <1>1, <2>1 DEF Issue, TokenRow
  <2>3. ~(id <= resetAt[tokens'[id].user])
    BY <1>0, <2>2
  <2> QED BY <2>1, <2>2, <2>3 DEF ResetEndsStoredSessions
<1>2. CASE \A r \in Slot : ~Issue(r)
  <2>1. /\ DOMAIN tokens' = DOMAIN tokens
        /\ \A t \in DOMAIN tokens :
              /\ tokens'[t].user = tokens[t].user
              /\ tokens[t].status = "revoked" => tokens'[t].status = "revoked"
    BY <1>2, TokensStep DEF Kept
  <2>2. CASE UNCHANGED resetAt
    BY <2>1, <2>2 DEF ResetEndsStoredSessions
  <2>3. ASSUME NEW r \in Slot, CommitReset(r) PROVE ResetEndsStoredSessions'
    <3> DEFINE u == links[job[r].link].user
    <3>1. /\ resetAt' = [resetAt EXCEPT ![u] = Len(tokens)]
          /\ tokens' = [t \in DOMAIN tokens |->
                          IF tokens[t].user = u THEN [tokens[t] EXCEPT !.status = "revoked"]
                          ELSE tokens[t]]
      BY <2>3 DEF CommitReset
    <3> HIDE DEF u
    <3> SUFFICES ASSUME NEW t \in DOMAIN tokens, t <= resetAt'[tokens[t].user]
                 PROVE  tokens'[t].status = "revoked"
      BY <2>1 DEF ResetEndsStoredSessions
    <3>2. CASE tokens[t].user = u
      <4>1. tokens[t] \in AnyToken
        BY TokenTyped
      <4> QED BY <3>1, <3>2, <4>1 DEF AnyToken
    <3>3. CASE tokens[t].user # u
      <4>1. resetAt'[tokens[t].user] = resetAt[tokens[t].user]
        BY <1>0, <3>1, <3>3
      <4> QED BY <2>1, <4>1 DEF ResetEndsStoredSessions
    <3> QED BY <3>2, <3>3
  <2>4. ASSUME NEW r \in Slot, \/ Request(r) \/ RevokeFamily(r) \/ CheckActive(r) \/ Revoke(r)
                               \/ DeleteLinks(r) \/ CreateLink(r) \/ ResetFails(r) \/ Abort(r)
        PROVE  UNCHANGED resetAt
    BY <2>4 DEF Request, BeginLogin, BeginRequestReset, BeginRefresh, BeginReset, RevokeFamily,
                CheckActive, Revoke, DeleteLinks, CreateLink, ResetFails, Abort
  <2>5. ASSUME \/ \E u \in User : SetActive(u)
               \/ \E t \in DOMAIN tokens : Logout(t) \/ TokenExpires(t)
               \/ \E i \in DOMAIN links : LinkExpires(i)
               \/ UNCHANGED vars
        PROVE  UNCHANGED resetAt
    BY <2>5 DEF SetActive, Logout, TokenExpires, LinkExpires, vars
  <2> QED BY <1>2, <2>2, <2>3, <2>4, <2>5 DEF Next, Serve
<1> QED BY <1>1, <1>2

\* Nothing has been issued.
LEMMA InitSessions == ASSUME Init PROVE SessionsInv
<1>1. tokens = <<>> /\ links = <<>> /\ job = [r \in Slot |-> Idle] /\ resetAt = [u \in User |-> 0]
  BY DEF Init
<1>2. Len(tokens) = 0 /\ DOMAIN tokens = {}
  BY <1>1
<1>3. TypeOK
  BY <1>1, <1>2 DEF Init, TypeOK
<1>4. RowsKept /\ ChainInv /\ ResetEndsStoredSessions
  BY <1>1, <1>2 DEF RowsKept, ChainInv, RotationIsAChain, ResetEndsStoredSessions, Idle
<1> QED BY <1>1, <1>3, <1>4 DEF SessionsInv, TypeInv

\* Every step keeps the invariant.
LEMMA SessionsStep == SessionsInv /\ [Next]_vars => SessionsInv'
BY StepTyped, ChainStep, ResetKept DEF SessionsInv

\* Rows and requests of the session tables always have their shape.
THEOREM SessionsTypeCorrect == Spec => []TypeOK
<1>1. SessionsInv => TypeOK
  BY DEF SessionsInv, TypeInv
<1>2. Init => SessionsInv
  BY InitSessions
<1> QED BY <1>1, <1>2, SessionsStep, PTL DEF Spec

\* However refreshes of a token overlap and wherever they die, a token with a
\* successor is revoked, and the successor belongs to its family.
THEOREM RotationCorrect == Spec => []RotationIsAChain
<1>1. SessionsInv => RotationIsAChain
  BY DEF SessionsInv, ChainInv
<1>2. Init => SessionsInv
  BY InitSessions
<1> QED BY <1>1, <1>2, SessionsStep, PTL DEF Spec

\* No session stored when the password was reset is ever live again.
THEOREM ResetCorrect == Spec => []ResetEndsStoredSessions
<1>1. SessionsInv => ResetEndsStoredSessions
  BY DEF SessionsInv
<1>2. Init => SessionsInv
  BY InitSessions
<1> QED BY <1>1, <1>2, SessionsStep, PTL DEF Spec

-----------------------------------------------------------------------------
(* What changes a password *)

\* The reset that commits uses one link, of that user, which is not deleted.
LEMMA CommitUsesLink ==
    ASSUME TypeInv, NEW r \in Slot, CommitReset(r), NEW u \in User, password'[u] # password[u]
    PROVE  \E i \in DOMAIN links : /\ links[i].user = u /\ links[i].status # "deleted"
                                   /\ links'[i].uses = links[i].uses + 1
<1>1. PICK k : k = job[r].link
  OBVIOUS
<1>2. k \in DOMAIN links /\ links \in Seq(LinkRow)
  BY <1>1 DEF CommitReset, At, TypeInv, TypeOK, RowsKept
<1>3. links[k] \in LinkRow
  BY <1>2, ElementOfSeq, LenProperties
<1>4. links[k].status # "deleted" /\ links' = [links EXCEPT ![k].status = "used", ![k].uses = @ + 1]
  BY <1>1 DEF CommitReset
<1>5. links[k].user = u
  <2>1. password \in [User -> Nat] /\ password' = [password EXCEPT ![links[k].user] = @ + 1]
    BY <1>1 DEF TypeInv, TypeOK, CommitReset
  <2> QED BY <2>1
<1>6. links'[k].uses = links[k].uses + 1
  BY <1>2, <1>3, <1>4, LenProperties DEF LinkRow
<1> QED BY <1>2, <1>4, <1>5, <1>6

\* No other step touches a password.
LEMMA PasswordStep ==
    ASSUME TypeInv, [Next]_vars, NEW u \in User, password'[u] # password[u]
    PROVE  \E i \in DOMAIN links : /\ links[i].user = u /\ links[i].status # "deleted"
                                   /\ links'[i].uses = links[i].uses + 1
<1>1. ASSUME NEW r \in Slot, \/ Request(r) \/ Issue(r) \/ RevokeFamily(r) \/ CheckActive(r)
                             \/ Revoke(r) \/ DeleteLinks(r) \/ CreateLink(r) \/ ResetFails(r)
                             \/ Abort(r)
      PROVE  UNCHANGED password
  BY <1>1 DEF Request, BeginLogin, BeginRequestReset, BeginRefresh, BeginReset, Issue,
              RevokeFamily, CheckActive, Revoke, DeleteLinks, CreateLink, ResetFails, Abort
<1>2. ASSUME \/ \E v \in User : SetActive(v)
             \/ \E t \in DOMAIN tokens : Logout(t) \/ TokenExpires(t)
             \/ \E i \in DOMAIN links : LinkExpires(i)
             \/ UNCHANGED vars
      PROVE  UNCHANGED password
  BY <1>2 DEF SetActive, Logout, TokenExpires, LinkExpires, vars
<1>3. \E r \in Slot : CommitReset(r)
  BY <1>1, <1>2 DEF Next, Serve
<1> QED BY <1>3, CommitUsesLink

\* A link superseded by a newer request never changes the password, even if it
\* was looked up before the newer request deleted it.
THEOREM SupersededCorrect == Spec => SupersededLinkIsDead
<1>1. SessionsInv /\ [Next]_vars =>
          [\A u \in User : password'[u] # password[u] =>
              \E i \in DOMAIN links : /\ links[i].user = u /\ links[i].status # "deleted"
                                      /\ links'[i].uses = links[i].uses + 1]_vars
  BY PasswordStep DEF SessionsInv
<1>2. Init => SessionsInv
  BY InitSessions
<1> QED BY <1>1, <1>2, SessionsStep, PTL DEF Spec, SupersededLinkIsDead

=============================================================================
