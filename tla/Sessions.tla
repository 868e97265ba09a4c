------------------------------- MODULE Sessions -------------------------------
(***************************************************************************)
(* AuthService: login, refresh-token rotation with reuse detection,        *)
(* logout, and the password-reset links; UsersService.setActive.  Only the *)
(* last step of resetPassword is a transaction; every other request is a   *)
(* chain of separate statements, one slot of `job' between two of them.    *)
(***************************************************************************)
EXTENDS Naturals, Sequences, FiniteSets

CONSTANTS
    Slot,      \* requests served at the same time
    User,
    MaxTokens, \* bound: rows of RefreshToken
    MaxLinks,  \* bound: rows of PasswordResetToken
    Faults     \* TRUE: a request may die between two statements

VARIABLES
    active,   \* User.isActive
    password, \* User.passwordHash, as a version number
    tokens,   \* RefreshToken rows, never deleted
    links,    \* PasswordResetToken rows, the deleted ones included
    job,      \* per slot, the request being served
    resetAt,  \* history: how many tokens existed at the last password reset
    burned    \* history: families in which a reuse was detected and answered

vars == <<active, password, tokens, links, job, resetAt, burned>>

TokenStatus == {"live", "revoked"}
\* password is history: the version the session's login was checked against.
TokenRow(n) == [user : User, family : 1..n, parent : 0..(n - 1), status : TokenStatus,
                expired : BOOLEAN, password : Nat]
\* uses is history: how many resets the link carried out.
LinkRow == [user : User, status : {"fresh", "used", "deleted"}, expired : BOOLEAN, uses : Nat]

Idle == [step |-> "idle"]
Job == [step : {"issue"}, user : User, parent : Nat, password : Nat]
       \cup [step : {"checkActive", "revoke", "revokeFamily"}, token : Nat \ {0}]
       \cup [step : {"deleteLinks", "createLink"}, user : User]
       \cup [step : {"commitReset"}, link : Nat \ {0}]

ASSUME SessionsAssumption ==
    MaxTokens \in Nat /\ MaxLinks \in Nat /\ Faults \in BOOLEAN

At(r, s) == job[r].step = s
Goto(r, s) == job' = [job EXCEPT ![r].step = s]
Done(r) == job' = [job EXCEPT ![r] = Idle]
Begin(r, j) == At(r, "idle") /\ job' = [job EXCEPT ![r] = j]

\* Bounds: a login or refresh starts only while the token it may add would
\* still fit; a reset request beyond MaxLinks gets no further than its deletes.
Issuing == {r \in Slot : job[r].step \in {"issue", "checkActive", "revoke"}}
RoomForToken == Len(tokens) + Cardinality(Issuing) < MaxTokens
RoomForLink == Len(links) < MaxLinks

Init ==
    /\ active = [u \in User |-> TRUE]
    /\ password = [u \in User |-> 0]
    /\ tokens = <<>>
    /\ links = <<>>
    /\ job = [r \in Slot |-> Idle]
    /\ resetAt = [u \in User |-> 0]
    /\ burned = {}

-----------------------------------------------------------------------------
(* Login *)

\* validateCredentials reads the user once; argon2 works on that copy.
BeginLogin(r, u) ==
    /\ RoomForToken
    /\ active[u]
    /\ Begin(r, [step |-> "issue", user |-> u, parent |-> 0, password |-> password[u]])
    /\ UNCHANGED <<active, password, tokens, links, resetAt, burned>>

\* issueTokenPair: a login starts a family, a rotation stays in it.
Issue(r) ==
    LET j == job[r]
        id == Len(tokens) + 1
    IN
    /\ At(r, "issue")
    /\ tokens' = Append(tokens,
           [user |-> j.user, family |-> IF j.parent = 0 THEN id ELSE tokens[j.parent].family,
            parent |-> j.parent, status |-> "live", expired |-> FALSE, password |-> j.password])
    /\ Done(r)
    /\ UNCHANGED <<active, password, links, resetAt, burned>>

-----------------------------------------------------------------------------
(* Refresh and logout *)

\* The token row is read; a revoked one is a reuse, an expired one is refused.
BeginRefresh(r, t) ==
    /\ tokens[t].status = "revoked" \/ ~tokens[t].expired
    /\ tokens[t].status = "live" => RoomForToken
    /\ Begin(r, [step |-> IF tokens[t].status = "revoked" THEN "revokeFamily" ELSE "checkActive",
                 token |-> t])
    /\ UNCHANGED <<active, password, tokens, links, resetAt, burned>>

RevokeFamily(r) ==
    LET family == tokens[job[r].token].family IN
    /\ At(r, "revokeFamily")
    /\ tokens' = [i \in DOMAIN tokens |->
                    IF tokens[i].family = family
                    THEN [tokens[i] EXCEPT !.status = "revoked"] ELSE tokens[i]]
    /\ burned' = burned \cup {family}
    /\ Done(r)
    /\ UNCHANGED <<active, password, links, resetAt>>

CheckActive(r) ==
    /\ At(r, "checkActive")
    /\ IF active[tokens[job[r].token].user] THEN Goto(r, "revoke") ELSE Done(r)
    /\ UNCHANGED <<active, password, tokens, links, resetAt, burned>>

\* Mutant: the consumed token stays valid.
ForgetToRevoke(r) ==
    LET t == job[r].token IN
    /\ At(r, "revoke")
    /\ job' = [job EXCEPT ![r] = [step |-> "issue", user |-> tokens[t].user, parent |-> t,
                                  password |-> tokens[t].password]]
    /\ UNCHANGED <<active, password, tokens, links, resetAt, burned>>

\* The consumed token is revoked by its id, whatever happened to it meanwhile.
Revoke(r) ==
    LET t == job[r].token IN
    /\ At(r, "revoke")
    /\ tokens' = [tokens EXCEPT ![t].status = "revoked"]
    /\ job' = [job EXCEPT ![r] = [step |-> "issue", user |-> tokens[t].user, parent |-> t,
                                  password |-> tokens[t].password]]
    /\ UNCHANGED <<active, password, links, resetAt, burned>>

\* Mutant: the row is marked with a status of its own.
LogoutMarksClosed(t) ==
    /\ tokens[t].status = "live"
    /\ tokens' = [tokens EXCEPT ![t].status = "closed"]
    /\ UNCHANGED <<active, password, links, job, resetAt, burned>>

Logout(t) ==
    /\ tokens[t].status = "live"
    /\ tokens' = [tokens EXCEPT ![t].status = "revoked"]
    /\ UNCHANGED <<active, password, links, job, resetAt, burned>>

-----------------------------------------------------------------------------
(* Password reset *)

BeginRequestReset(r, u) ==
    /\ active[u]
    /\ Begin(r, [step |-> "deleteLinks", user |-> u])
    /\ UNCHANGED <<active, password, tokens, links, resetAt, burned>>

DeleteLinks(r) ==
    /\ At(r, "deleteLinks")
    /\ links' = [i \in DOMAIN links |->
                   IF links[i].user = job[r].user /\ links[i].status = "fresh"
                   THEN [links[i] EXCEPT !.status = "deleted"] ELSE links[i]]
    /\ Goto(r, "createLink")
    /\ UNCHANGED <<active, password, tokens, resetAt, burned>>

CreateLink(r) ==
    /\ At(r, "createLink") /\ RoomForLink
    /\ links' = Append(links, [user |-> job[r].user, status |-> "fresh", expired |-> FALSE,
                               uses |-> 0])
    /\ Done(r)
    /\ UNCHANGED <<active, password, tokens, resetAt, burned>>

\* The link is checked, and then the new password is hashed.
BeginReset(r, i) ==
    /\ links[i].status = "fresh" /\ ~links[i].expired
    /\ Begin(r, [step |-> "commitReset", link |-> i])
    /\ UNCHANGED <<active, password, tokens, links, resetAt, burned>>

\* Mutant: the password is changed whether or not the link row is still there.
CommitWithoutLink(r) ==
    LET i == job[r].link
        u == links[i].user
    IN
    /\ At(r, "commitReset")
    /\ password' = [password EXCEPT ![u] = @ + 1]
    /\ links' = IF links[i].status = "deleted" THEN links
                ELSE [links EXCEPT ![i].status = "used", ![i].uses = @ + 1]
    /\ tokens' = [t \in DOMAIN tokens |->
                    IF tokens[t].user = u THEN [tokens[t] EXCEPT !.status = "revoked"]
                    ELSE tokens[t]]
    /\ resetAt' = [resetAt EXCEPT ![u] = Len(tokens)]
    /\ Done(r)
    /\ UNCHANGED <<active, burned>>

\* Mutant: the other sessions stay signed in.
CommitKeepsSessions(r) ==
    LET i == job[r].link
        u == links[i].user
    IN
    /\ At(r, "commitReset")
    /\ links[i].status # "deleted"
    /\ password' = [password EXCEPT ![u] = @ + 1]
    /\ links' = [links EXCEPT ![i].status = "used", ![i].uses = @ + 1]
    /\ resetAt' = [resetAt EXCEPT ![u] = Len(tokens)]
    /\ Done(r)
    /\ UNCHANGED <<active, tokens, burned>>

\* One transaction: new password, link used, every session of the user
\* revoked.  Updating a deleted link row throws and rolls it back.
CommitReset(r) ==
    LET i == job[r].link
        u == links[i].user
    IN
    /\ At(r, "commitReset")
    /\ links[i].status # "deleted"
    /\ password' = [password EXCEPT ![u] = @ + 1]
    /\ links' = [links EXCEPT ![i].status = "used", ![i].uses = @ + 1]
    /\ tokens' = [t \in DOMAIN tokens |->
                    IF tokens[t].user = u THEN [tokens[t] EXCEPT !.status = "revoked"]
                    ELSE tokens[t]]
    /\ resetAt' = [resetAt EXCEPT ![u] = Len(tokens)]
    /\ Done(r)
    /\ UNCHANGED <<active, burned>>

ResetFails(r) ==
    /\ At(r, "commitReset")
    /\ links[job[r].link].status = "deleted"
    /\ Done(r)
    /\ UNCHANGED <<active, password, tokens, links, resetAt, burned>>

-----------------------------------------------------------------------------
(* Administration, time and faults *)

\* setActive touches nothing but the flag: no session is revoked.
SetActive(u) ==
    /\ active' = [active EXCEPT ![u] = ~@]
    /\ UNCHANGED <<password, tokens, links, job, resetAt, burned>>

TokenExpires(t) ==
    /\ tokens[t].status = "live" /\ ~tokens[t].expired
    /\ tokens' = [tokens EXCEPT ![t].expired = TRUE]
    /\ UNCHANGED <<active, password, links, job, resetAt, burned>>

LinkExpires(i) ==
    /\ links[i].status = "fresh" /\ ~links[i].expired
    /\ links' = [links EXCEPT ![i].expired = TRUE]
    /\ UNCHANGED <<active, password, tokens, job, resetAt, burned>>

\* A statement throws or the process dies: nothing done so far is undone.
Abort(r) ==
    /\ Faults /\ ~At(r, "idle")
    /\ Done(r)
    /\ UNCHANGED <<active, password, tokens, links, resetAt, burned>>

Request(r) ==
    \/ \E u \in User : BeginLogin(r, u) \/ BeginRequestReset(r, u)
    \/ \E t \in DOMAIN tokens : BeginRefresh(r, t)
    \/ \E i \in DOMAIN links : BeginReset(r, i)

Serve(r) ==
    \/ Issue(r) \/ RevokeFamily(r) \/ CheckActive(r) \/ Revoke(r)
    \/ DeleteLinks(r) \/ CreateLink(r) \/ CommitReset(r) \/ ResetFails(r)

Next ==
    \/ \E r \in Slot : Request(r) \/ Serve(r) \/ Abort(r)
    \/ \E u \in User : SetActive(u)
    \/ \E t \in DOMAIN tokens : Logout(t) \/ TokenExpires(t)
    \/ \E i \in DOMAIN links : LinkExpires(i)

Spec == Init /\ [][Next]_vars

-----------------------------------------------------------------------------
(* Properties *)

\* Rows and requests have the shape the schema gives them.
TypeOK ==
    /\ active \in [User -> BOOLEAN] /\ password \in [User -> Nat]
    /\ \A t \in DOMAIN tokens : tokens[t] \in TokenRow(t)
    /\ links \in Seq(LinkRow)
    /\ job \in [Slot -> {Idle} \cup Job]
    /\ resetAt \in [User -> 0..Len(tokens)] /\ burned \subseteq DOMAIN tokens

\* Rotation: however refreshes of one token overlap and wherever they die, a
\* token that has a successor is revoked, and the successor is in its family
\* (so a later reuse of it still finds the family to burn).
RotationIsAChain ==
    \A t \in DOMAIN tokens : LET p == tokens[t].parent IN
        p # 0 => /\ tokens[p].status = "revoked"
                 /\ tokens[p].family = tokens[t].family

\* No session that was in the table when the password was last reset is ever
\* live again.
ResetEndsStoredSessions ==
    \A t \in DOMAIN tokens :
        t <= resetAt[tokens[t].user] => tokens[t].status = "revoked"

\* A link superseded by a newer request never changes the password, not even
\* when it was looked up before it was deleted.
SupersededLinkIsDead ==
    [][\A u \in User : password'[u] # password[u] =>
          \E i \in DOMAIN links : /\ links[i].user = u /\ links[i].status # "deleted"
                                  /\ links'[i].uses = links[i].uses + 1]_vars

\* AuthService.refresh: once a reuse was detected, "the entire family is revoked
\* and the caller must re-authenticate".
ReuseBurnsFamily ==
    \A t \in DOMAIN tokens : tokens[t].family \in burned => tokens[t].status = "revoked"

=============================================================================
