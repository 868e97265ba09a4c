----------------------------- MODULE PaperRequests -----------------------------
(***************************************************************************)
(* IdSubmissionsService and the payment proofs of LendersService: a tenant *)
(* answers a request by a paper that goes out by e-mail, and then the row  *)
(* records that it did.  Every endpoint reads the row's status and later   *)
(* updates the row by its id.  One conversation, one lender assignment.    *)
(***************************************************************************)
EXTENDS ApiCalls

CONSTANT MaxPapers \* bound: rows of IdSubmission and LenderPaymentRequest

VARIABLES
    papers,    \* IdSubmission and LenderPaymentRequest rows
    assignment \* the LenderAssignment: "none", "active" or "revoked"

paperVars == <<papers, assignment, call>>

PaperKind == {"id", "lender"}
OpenStatus == [id |-> "PAID", lender |-> "PENDING"]
DoneStatus == [id |-> "SUBMITTED", lender |-> "FULFILLED"]
WithdrawnStatus == [id |-> "CANCELLED", lender |-> "DECLINED"]

\* mailed and lost are history: the paper went out; a call died right after.
PaperRow == UNION {[kind : {k}, status : {OpenStatus[k], DoneStatus[k], WithdrawnStatus[k]},
                    emailSent : BOOLEAN, mailed : BOOLEAN, lost : BOOLEAN] : k \in PaperKind}
PaperCall == [step : {"createPaper"}, kind : PaperKind]
             \cup [step : {"email", "recordSkipped", "recordSent", "withdraw"}, paper : Nat]

ASSUME PapersAssumption == MaxPapers \in Nat

PapersInit ==
    /\ papers = <<>>
    /\ assignment = "none"
    /\ call = NoCalls

Unanswered(i) == papers[i].status = OpenStatus[papers[i].kind]
Closed(i, s) == [papers EXCEPT ![i].status = s[papers[i].kind]]
RoomForPaper == Len(papers) + Cardinality({r \in Slot : At(r, "createPaper")}) < MaxPapers

\* An ID submission is opened by the tenant unless one is open already, a payment
\* proof is asked for by the lender of an assignment that is not revoked.
BeginCreatePaper(r, k) ==
    /\ RoomForPaper
    /\ k = "id" => \A i \in DOMAIN papers : papers[i].kind = "id" => ~Unanswered(i)
    /\ k = "lender" => assignment = "active"
    /\ Begin(r, [step |-> "createPaper", kind |-> k])
    /\ UNCHANGED <<papers, assignment>>

CreatePaper(r) ==
    LET k == call[r].kind IN
    /\ At(r, "createPaper")
    /\ papers' = Append(papers, [kind |-> k, status |-> OpenStatus[k], emailSent |-> FALSE,
                                 mailed |-> FALSE, lost |-> FALSE])
    /\ Return(r)
    /\ UNCHANGED assignment

\* submit and submitRequest: the row is open, the recipient has an address or
\* not.  Whether the lender's assignment is still in force is not looked at.
BeginSubmit(r, i) ==
    /\ Unanswered(i)
    /\ \E step \in {"email", "recordSkipped"} : Begin(r, [step |-> step, paper |-> i])
    /\ UNCHANGED <<papers, assignment>>

Email(r) ==
    /\ At(r, "email")
    /\ papers' = [papers EXCEPT ![call[r].paper].mailed = TRUE]
    /\ Proceed(r, "recordSent")
    /\ UNCHANGED assignment

\* Mutant: the e-mail is not awaited.
RecordUnsent(r) ==
    LET i == call[r].paper IN
    /\ At(r, "email") \/ At(r, "recordSent") \/ At(r, "recordSkipped")
    /\ papers' = [Closed(i, DoneStatus) EXCEPT ![i].emailSent = ~At(r, "recordSkipped")]
    /\ Return(r)
    /\ UNCHANGED assignment

RecordAnswer(r) ==
    LET i == call[r].paper IN
    /\ At(r, "recordSent") \/ At(r, "recordSkipped")
    /\ papers' = [Closed(i, DoneStatus) EXCEPT ![i].emailSent = At(r, "recordSent")]
    /\ Return(r)
    /\ UNCHANGED assignment

\* cancel and declineRequest.
BeginWithdraw(r, i) ==
    /\ Unanswered(i)
    /\ Begin(r, [step |-> "withdraw", paper |-> i])
    /\ UNCHANGED <<papers, assignment>>

\* Mutant: a declined payment proof gets the status of a cancelled submission.
WithdrawCancels(r) ==
    /\ At(r, "withdraw")
    /\ papers' = [papers EXCEPT ![call[r].paper].status = "CANCELLED"]
    /\ Return(r)
    /\ UNCHANGED assignment

Withdraw(r) ==
    /\ At(r, "withdraw")
    /\ papers' = Closed(call[r].paper, WithdrawnStatus)
    /\ Return(r)
    /\ UNCHANGED assignment

\* createAssignment is one upsert that also ends a revocation; revokeAssignment.
Assign == assignment' = "active" /\ UNCHANGED <<papers, call>>
RevokeAssignment ==
    /\ assignment # "none"
    /\ assignment' = "revoked"
    /\ UNCHANGED <<papers, call>>

AbortPaper(r) ==
    /\ Abort(r)
    /\ papers' = IF At(r, "recordSent") THEN [papers EXCEPT ![call[r].paper].lost = TRUE]
                 ELSE papers
    /\ UNCHANGED assignment

PapersNext ==
    \/ \E r \in Slot :
          \/ \E k \in PaperKind : BeginCreatePaper(r, k)
          \/ \E i \in DOMAIN papers : BeginSubmit(r, i) \/ BeginWithdraw(r, i)
          \/ CreatePaper(r) \/ Email(r) \/ RecordAnswer(r) \/ Withdraw(r) \/ AbortPaper(r)
    \/ Assign \/ RevokeAssignment

PapersSpec == PapersInit /\ [][PapersNext]_paperVars

-----------------------------------------------------------------------------
(* Properties *)

\* Rows and calls have their shape.
PapersTypeOK ==
    /\ \A i \in DOMAIN papers : papers[i] \in PaperRow
    /\ assignment \in {"none", "active", "revoked"}
    /\ \A r \in Slot : call[r] \in {Free} \cup PaperCall

\* A row that says its paper was e-mailed means it, wherever a call died and
\* whatever withdrew the row meanwhile; and a paper is out under a row that is
\* still open only if the call that sent it is in flight or was lost.
AnsweredMeansSent ==
    \A i \in DOMAIN papers :
        /\ papers[i].emailSent => papers[i].mailed
        /\ papers[i].mailed /\ Unanswered(i)
              => \/ papers[i].lost
                 \/ \E r \in Slot : At(r, "recordSent") /\ call[r].paper = i

=============================================================================
