------------------------------- MODULE Workflows -------------------------------
(***************************************************************************)
(* The small services side by side.  They keep separate tables and share   *)
(* no more than the server's call slots, so a behaviour exercises one of   *)
(* them, `service', and leaves the tables of the others empty.             *)
(***************************************************************************)
EXTENDS Conversations, Showings, VoucherAccess, PaperRequests, RateLimiter, Phones,
        Upgrades, UserAdmin

VARIABLE service

Service == {"conversations", "showings", "vouchers", "papers", "limiter", "phones",
            "upgrades", "users"}

vars == <<service, call, threads, talk, showings, invited, access, uploaded, asked,
          decision, handed, papers, assignment, windows, phones, codes, confirms,
          upgrades, checkouts, accounts, suspensions>>

Init ==
    /\ service \in Service
    /\ ThreadsInit /\ ShowingsInit /\ VoucherInit /\ PapersInit
    /\ LimiterInit /\ PhonesInit /\ UpgradesInit /\ AdminInit

\* The other services keep their tables.
Only(s) ==
    /\ service = s /\ UNCHANGED service
    /\ IF s = "conversations" THEN TRUE ELSE UNCHANGED threads
    /\ IF s = "showings" THEN TRUE ELSE UNCHANGED <<talk, showings, invited>>
    /\ IF s = "vouchers" THEN TRUE ELSE UNCHANGED <<access, uploaded, asked, decision, handed>>
    /\ IF s = "papers" THEN TRUE ELSE UNCHANGED <<papers, assignment>>
    /\ IF s = "limiter" THEN TRUE ELSE UNCHANGED windows
    /\ IF s = "phones" THEN TRUE ELSE UNCHANGED <<phones, codes, confirms>>
    /\ IF s = "upgrades" THEN TRUE ELSE UNCHANGED <<upgrades, checkouts>>
    /\ IF s = "users" THEN TRUE ELSE UNCHANGED <<accounts, suspensions>>

Next ==
    \/ Only("conversations") /\ ThreadsNext
    \/ Only("showings") /\ ShowingsNext
    \/ Only("vouchers") /\ VoucherNext
    \/ Only("papers") /\ PapersNext
    \/ Only("limiter") /\ LimiterNext
    \/ Only("phones") /\ PhonesNext
    \/ Only("upgrades") /\ UpgradesNext
    \/ Only("users") /\ AdminNext

Spec == Init /\ [][Next]_vars

-----------------------------------------------------------------------------
(* Properties *)

\* The tables the behaviour works on have their shape.
TablesTypeOK ==
    /\ service = "conversations" => ThreadsTypeOK
    /\ service = "showings" => ShowingsTypeOK
    /\ service = "vouchers" => VoucherTypeOK
    /\ service = "papers" => PapersTypeOK
    /\ service = "limiter" => LimiterTypeOK
    /\ service = "phones" => PhonesTypeOK
    /\ service = "upgrades" => UpgradesTypeOK
    /\ service = "users" => AdminTypeOK

=============================================================================
