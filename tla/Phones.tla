--------------------------------- MODULE Phones ---------------------------------
(***************************************************************************)
(* PhoneService for one user: sending a code to a number and confirming    *)
(* it.  Numbers another account has verified, or calls the rate limiter    *)
(* turns away (module RateLimiter), end before they change anything.       *)
(***************************************************************************)
EXTENDS ApiCalls

CONSTANTS
    Number,
    MaxAttempts, \* otpMaxAttempts
    MaxCodes     \* bound: rows of PhoneVerification

VARIABLES
    phones,  \* the user's PhoneNumber rows
    codes,   \* PhoneVerification rows
    confirms \* history: numbers confirmed so far, which orders confirmations

phoneVars == <<phones, codes, confirms, call>>

\* at, seen, times are history: which confirmation was the row's last, how many
\* there had been when that one looked for a primary number, how many the row had.
PhoneRow == [known : BOOLEAN, verified : BOOLEAN, primary : BOOLEAN,
             at : Nat, seen : Nat, times : Nat]
\* guesses and lost are history: wrong codes compared; those never counted because
\* the call died.
CodeRow == [number : Number, attempts : Nat, used : BOOLEAN, expired : BOOLEAN,
            guesses : Nat, lost : Nat]
PhoneCall == [step : {"createPhone", "createCode"}, number : Number]
             \cup [step : {"compare", "checkPrimary", "countAttempt"}, code : Nat, attempts : Nat]
             \cup [step : {"verify"}, code : Nat, hasPrimary : BOOLEAN, seen : Nat]

ASSUME PhonesAssumption == MaxAttempts \in Nat \ {0} /\ MaxCodes \in Nat

PhonesInit ==
    /\ phones = [n \in Number |-> [known |-> FALSE, verified |-> FALSE, primary |-> FALSE,
                                   at |-> 0, seen |-> 0, times |-> 0]]
    /\ codes = <<>>
    /\ confirms = 0
    /\ call = NoCalls

CodesFor(n) == {c \in DOMAIN codes : codes[c].number = n}
Latest(n) == {c \in CodesFor(n) : \A d \in CodesFor(n) : d <= c}

-----------------------------------------------------------------------------
(* startVerification *)

BeginSendCode(r, n) ==
    /\ Begin(r, [step |-> IF phones[n].known THEN "createCode" ELSE "createPhone", number |-> n])
    /\ UNCHANGED <<phones, codes, confirms>>

\* numberHash is unique: the second of two overlapping calls throws.
CreatePhone(r) ==
    LET n == call[r].number IN
    /\ At(r, "createPhone")
    /\ phones' = [phones EXCEPT ![n].known = TRUE]
    /\ IF phones[n].known THEN Return(r) ELSE Proceed(r, "createCode")
    /\ UNCHANGED <<codes, confirms>>

\* The text message that follows changes nothing here.
CreateCode(r) ==
    /\ At(r, "createCode") /\ Len(codes) < MaxCodes
    /\ codes' = Append(codes, [number |-> call[r].number, attempts |-> 0, used |-> FALSE,
                               expired |-> FALSE, guesses |-> 0, lost |-> 0])
    /\ Return(r)
    /\ UNCHANGED <<phones, confirms>>

CodeExpires(c) ==
    /\ ~codes[c].used /\ ~codes[c].expired
    /\ codes' = [codes EXCEPT ![c].expired = TRUE]
    /\ UNCHANGED <<phones, confirms, call>>

-----------------------------------------------------------------------------
(* confirmVerification *)

\* The newest code of the number, unused, in time, with attempts left.
BeginConfirm(r, n) ==
    /\ \E c \in Latest(n) :
          /\ ~codes[c].used /\ ~codes[c].expired /\ codes[c].attempts < MaxAttempts
          /\ Begin(r, [step |-> "compare", code |-> c, attempts |-> codes[c].attempts])
    /\ UNCHANGED <<phones, codes, confirms>>

\* argon2.verify, on the hash read before: the user typed the code, or did not.
Right(r) ==
    /\ At(r, "compare")
    /\ Proceed(r, "checkPrimary")
    /\ UNCHANGED <<phones, codes, confirms>>

Wrong(r) ==
    /\ At(r, "compare")
    /\ codes' = [codes EXCEPT ![call[r].code].guesses = @ + 1]
    /\ Proceed(r, "countAttempt")
    /\ UNCHANGED <<phones, confirms>>

\* Mutant: the count read at the start is incremented and written back.
CountFromSnapshot(r) ==
    /\ At(r, "countAttempt")
    /\ codes' = [codes EXCEPT ![call[r].code].attempts = call[r].attempts + 1]
    /\ Return(r)
    /\ UNCHANGED <<phones, confirms>>

CountAttempt(r) ==
    /\ At(r, "countAttempt")
    /\ codes' = [codes EXCEPT ![call[r].code].attempts = @ + 1]
    /\ Return(r)
    /\ UNCHANGED <<phones, confirms>>

\* Any primary number of the user counts, this one included.
CheckPrimary(r) ==
    LET c == call[r].code IN
    /\ At(r, "checkPrimary")
    /\ call' = [call EXCEPT ![r] = [step |-> "verify", code |-> c, seen |-> confirms,
                   hasPrimary |-> \E n \in Number : phones[n].primary]]
    /\ UNCHANGED <<phones, codes, confirms>>

\* Mutant: a confirmed number is primary without further ado.
VerifyAsPrimary(r) ==
    LET c == call[r]
        n == codes[c.code].number
    IN
    /\ At(r, "verify")
    /\ phones' = [phones EXCEPT ![n].verified = TRUE, ![n].primary = TRUE,
                     ![n].at = confirms + 1, ![n].seen = c.seen, ![n].times = @ + 1]
    /\ codes' = [codes EXCEPT ![c.code].used = TRUE]
    /\ confirms' = confirms + 1
    /\ Return(r)

\* One transaction: the number is verified, the code used.
Verify(r) ==
    LET c == call[r]
        n == codes[c.code].number
    IN
    /\ At(r, "verify")
    /\ phones' = [phones EXCEPT ![n].verified = TRUE, ![n].primary = ~c.hasPrimary,
                     ![n].at = confirms + 1, ![n].seen = c.seen, ![n].times = @ + 1]
    /\ codes' = [codes EXCEPT ![c.code].used = TRUE]
    /\ confirms' = confirms + 1
    /\ Return(r)

\* Bound: one lost guess per code.
AbortPhone(r) ==
    /\ Abort(r)
    /\ At(r, "countAttempt") => codes[call[r].code].lost = 0
    /\ codes' = IF At(r, "countAttempt") THEN [codes EXCEPT ![call[r].code].lost = @ + 1]
                ELSE codes
    /\ UNCHANGED <<phones, confirms>>

PhonesNext ==
    \/ \E r \in Slot :
          \/ \E n \in Number : BeginSendCode(r, n) \/ BeginConfirm(r, n)
          \/ CreatePhone(r) \/ CreateCode(r) \/ Right(r) \/ Wrong(r) \/ CountAttempt(r)
          \/ CheckPrimary(r) \/ Verify(r) \/ AbortPhone(r)
    \/ \E c \in DOMAIN codes : CodeExpires(c)

PhonesSpec == PhonesInit /\ [][PhonesNext]_phoneVars

-----------------------------------------------------------------------------
(* Properties *)

\* Rows and calls have their shape.
PhonesTypeOK ==
    /\ phones \in [Number -> PhoneRow]
    /\ codes \in Seq(CodeRow) /\ confirms \in Nat
    /\ \A r \in Slot : call[r] \in {Free} \cup PhoneCall

\* Every wrong code is counted exactly once, except by a call that died before it
\* could; so overlapping guesses overrun the limit by no more than there are of
\* them in flight.
EveryGuessCounts ==
    \A c \in DOMAIN codes :
        /\ codes[c].guesses = codes[c].attempts + codes[c].lost
               + Cardinality({r \in Slot : At(r, "countAttempt") /\ call[r].code = c})
        /\ codes[c].attempts <= MaxAttempts + Overlap

\* Texts go to the user's primary number.  Two numbers are primary only if the
\* confirmation of one began to look before the other's was in; and a user with a
\* verified number has a primary one unless some number was confirmed twice.
PrimaryNumber ==
    /\ \A n, m \in Number :
          phones[n].primary /\ phones[m].primary /\ phones[n].at < phones[m].at
              => phones[m].seen < phones[n].at
    /\ (\E n \in Number : phones[n].verified) /\ (\A n \in Number : ~phones[n].primary)
          => \E n \in Number : phones[n].times > 1

=============================================================================
