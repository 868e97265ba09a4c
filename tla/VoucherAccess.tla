----------------------------- MODULE VoucherAccess -----------------------------
(***************************************************************************)
(* VoucherAccessRequestsService and VoucherDocumentsService, for one       *)
(* conversation: the landlord asks for the tenant's voucher, the tenant    *)
(* accepts, declines or revokes, and the landlord downloads it while the   *)
(* grant stands.  Every endpoint reads the row's status and later writes   *)
(* a status over whatever it has become.                                   *)
(***************************************************************************)
EXTENDS ApiCalls

CONSTANT MaxAsked \* bound: times the landlord asks

VARIABLES
    access,   \* VoucherAccessRequest.status, "none" without a row
    uploaded, \* a VoucherDocument exists
    asked,    \* history: how often the landlord asked
    decision, \* history: the tenant's last recorded decision
    handed    \* history: the decisions in force when a download was let through

voucherVars == <<access, uploaded, asked, decision, handed, call>>

AccessStatus == {"none", "PENDING", "ACCEPTED", "DECLINED", "REVOKED"}
VoucherCall == [step : {"create", "renew", "checkUpload", "accept", "handOut"}]
               \cup [step : {"respond"}, target : {"DECLINED", "REVOKED"}]

ASSUME VoucherAssumption == MaxAsked \in Nat

VoucherInit ==
    /\ access = "none"
    /\ uploaded = FALSE
    /\ asked = 0
    /\ decision = "none"
    /\ handed = {}
    /\ call = NoCalls

\* createOrRenew: the first request, or a new one after a refusal; while one is
\* pending or accepted nothing happens.
BeginAsk(r) ==
    /\ access \in {"none", "DECLINED", "REVOKED"}
    /\ Begin(r, [step |-> IF access = "none" THEN "create" ELSE "renew"])
    /\ UNCHANGED <<access, uploaded, asked, decision, handed>>

\* conversationId is unique: the second of two overlapping first requests throws.
CreateAccess(r) ==
    /\ At(r, "create")
    /\ IF access = "none" THEN access' = "PENDING" /\ asked' = asked + 1
       ELSE UNCHANGED <<access, asked>>
    /\ Return(r)
    /\ UNCHANGED <<uploaded, decision, handed>>

\* Mutant: a renewed request gets back the answer it had before.
RenewReinstates(r) ==
    /\ At(r, "renew") /\ asked < MaxAsked
    /\ access' = IF access = "REVOKED" THEN "ACCEPTED" ELSE "PENDING"
    /\ asked' = asked + 1
    /\ Return(r)
    /\ UNCHANGED <<uploaded, decision, handed>>

RenewAccess(r) ==
    /\ At(r, "renew") /\ asked < MaxAsked
    /\ access' = "PENDING" /\ asked' = asked + 1
    /\ Return(r)
    /\ UNCHANGED <<uploaded, decision, handed>>

BeginGrant(r) ==
    /\ access = "PENDING"
    /\ Begin(r, [step |-> "checkUpload"])
    /\ UNCHANGED <<access, uploaded, asked, decision, handed>>

CheckUpload(r) ==
    /\ At(r, "checkUpload")
    /\ IF uploaded THEN Proceed(r, "accept") ELSE Return(r)
    /\ UNCHANGED <<access, uploaded, asked, decision, handed>>

\* The e-mail to the landlord that follows changes nothing here.
Grant(r) ==
    /\ At(r, "accept")
    /\ access' = "ACCEPTED" /\ decision' = "accept"
    /\ Return(r)
    /\ UNCHANGED <<uploaded, asked, handed>>

\* decline: what it writes was decided on the status read first.
BeginRefuse(r) ==
    /\ access \in {"PENDING", "ACCEPTED"}
    /\ Begin(r, [step |-> "respond",
                 target |-> IF access = "ACCEPTED" THEN "REVOKED" ELSE "DECLINED"])
    /\ UNCHANGED <<access, uploaded, asked, decision, handed>>

Refuse(r) ==
    /\ At(r, "respond")
    /\ access' = call[r].target /\ decision' = "decline"
    /\ Return(r)
    /\ UNCHANGED <<uploaded, asked, handed>>

\* upsertMine: one statement; no code deletes a document.
UploadVoucher ==
    /\ uploaded' = TRUE
    /\ UNCHANGED <<access, asked, decision, handed, call>>

\* getDownloadTarget: the status is checked, then the file is read.
BeginDownload(r) ==
    /\ access = "ACCEPTED"
    /\ handed' = handed \cup {decision}
    /\ Begin(r, [step |-> "handOut"])
    /\ UNCHANGED <<access, uploaded, asked, decision>>

HandOut(r) ==
    /\ At(r, "handOut") /\ uploaded
    /\ Return(r)
    /\ UNCHANGED <<access, uploaded, asked, decision, handed>>

AbortVoucher(r) == Abort(r) /\ UNCHANGED <<access, uploaded, asked, decision, handed>>

VoucherNext ==
    \/ \E r \in Slot :
          \/ BeginAsk(r) \/ CreateAccess(r) \/ RenewAccess(r) \/ BeginGrant(r) \/ CheckUpload(r)
          \/ Grant(r) \/ BeginRefuse(r) \/ Refuse(r) \/ BeginDownload(r) \/ HandOut(r)
          \/ AbortVoucher(r)
    \/ UploadVoucher

VoucherSpec == VoucherInit /\ [][VoucherNext]_voucherVars

-----------------------------------------------------------------------------
(* Properties *)

\* The row and the calls have their shape.
VoucherTypeOK ==
    /\ access \in AccessStatus /\ uploaded \in BOOLEAN /\ asked \in Nat
    /\ decision \in {"none", "accept", "decline"}
    /\ \A r \in Slot : call[r] \in {Free} \cup VoucherCall

\* Answers of the tenant overlap with each other and with renewed requests of
\* the landlord, and each writes over a status it read earlier; still the
\* landlord gets past the check only while the tenant's last recorded word is an
\* acceptance, and then there is a document to hand out.
DownloadsGranted ==
    /\ handed \subseteq {"accept"}
    /\ access = "ACCEPTED" => decision = "accept" /\ uploaded
    /\ \A r \in Slot : At(r, "handOut") => uploaded

=============================================================================
