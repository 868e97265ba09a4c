---------------------------- MODULE WorkflowsProofs ----------------------------
(***************************************************************************)
(* The small services, each for any number of overlapping calls, rows,     *)
(* numbers, keys and accounts, with or without faults.  Every service has  *)
(* its inductive invariant; the specification that runs one of them keeps  *)
(* the invariant of the one it runs.                                       *)
(***************************************************************************)
EXTENDS Workflows, ConversationsProofs

\* The calls of a service have its shape, and other slots are unused.
Calls(S) == call \in [Slot -> {Free} \cup S]

\* What a call becomes is what its slot holds; the other slots keep theirs.
LEMMA CallSet ==
    ASSUME NEW S, Calls(S), NEW r \in Slot, NEW c \in {Free} \cup S,
           call' = [call EXCEPT ![r] = c]
    PROVE  Calls(S)' /\ call'[r] = c /\ \A q \in Slot \ {r} : call'[q] = call[q]
  BY DEF Calls

\* Nothing is called at the start.
LEMMA NoCallsYet ==
    ASSUME NEW S, call = NoCalls
    PROVE  Calls(S) /\ \A r \in Slot : call[r] = Free
  BY DEF Calls, NoCalls

\* A call that returns or dies leaves its slot free.
LEMMA FreeSet ==
    ASSUME NEW S, Calls(S), NEW r \in Slot, call' = [call EXCEPT ![r] = Free]
    PROVE  Calls(S)' /\ call'[r] = Free /\ \A q \in Slot \ {r} : call'[q] = call[q]
  BY DEF Calls

\* A set of slots that one slot may have entered or left.
LEMMA OneMoves ==
    ASSUME NEW A, NEW B, A \subseteq Slot, B \subseteq Slot, NEW r \in Slot,
           \A q \in Slot \ {r} : q \in A <=> q \in B
    PROVE  /\ Cardinality(A) \in Nat /\ Cardinality(B) \in Nat
           /\ (r \in A <=> r \in B) => Cardinality(B) = Cardinality(A)
           /\ r \notin A /\ r \in B => Cardinality(B) = Cardinality(A) + 1
           /\ r \in A /\ r \notin B => Cardinality(A) = Cardinality(B) + 1
<1>1. IsFiniteSet(A) /\ IsFiniteSet(B)
  BY ApiCallsAssumption, FS_Subset
<1>2. Cardinality(A) \in Nat /\ Cardinality(B) \in Nat
  BY <1>1, FS_CardinalityType
<1>3. ASSUME r \in A <=> r \in B PROVE Cardinality(B) = Cardinality(A)
  <2>1. A = B
    BY <1>3
  <2> QED BY <2>1
<1>4. ASSUME r \notin A, r \in B PROVE Cardinality(B) = Cardinality(A) + 1
  <2>1. B = A \cup {r}
    BY <1>4
  <2> QED BY <1>1, <1>4, <2>1, FS_AddElement
<1>5. ASSUME r \in A, r \notin B PROVE Cardinality(A) = Cardinality(B) + 1
  <2>1. A = B \cup {r}
    BY <1>5
  <2> QED BY <1>1, <1>5, <2>1, FS_AddElement
<1> QED BY <1>2, <1>3, <1>4, <1>5

-----------------------------------------------------------------------------
(* Housing-voucher access *)

\* A call that will accept a document does so after the upload.
VoucherInv ==
    /\ VoucherTypeOK /\ Calls(VoucherCall)
    /\ DownloadsGranted
    /\ \A r \in Slot : At(r, "accept") => uploaded

\* Nothing was asked for.
LEMMA VoucherInitInv == VoucherInit => VoucherInv
<1> SUFFICES ASSUME VoucherInit PROVE VoucherInv
  OBVIOUS
<1>1. Calls(VoucherCall) /\ \A r \in Slot : call[r] = Free
  BY NoCallsYet DEF VoucherInit
<1>2. \A r \in Slot : call[r] \in {Free} \cup VoucherCall /\ call[r].step = "free"
  BY <1>1 DEF Free
<1> QED BY <1>1, <1>2
        DEF VoucherInit, VoucherInv, VoucherTypeOK, AccessStatus, DownloadsGranted, At

\* A step of a call changes one slot and leaves an uploaded document alone.
LEMMA VoucherSlot ==
    ASSUME VoucherInv, NEW r \in Slot, NEW c \in {Free} \cup VoucherCall,
           call' = [call EXCEPT ![r] = c], uploaded' = uploaded,
           c.step \in {"accept", "handOut"} => uploaded
    PROVE  /\ Calls(VoucherCall)'
           /\ \A q \in Slot : call'[q] \in {Free} \cup VoucherCall
           /\ \A q \in Slot : call'[q].step \in {"accept", "handOut"} => uploaded'
<1>1. Calls(VoucherCall)' /\ call'[r] = c /\ \A q \in Slot \ {r} : call'[q] = call[q]
  BY CallSet DEF VoucherInv
<1>2. \A q \in Slot : call[q] \in {Free} \cup VoucherCall
  BY DEF VoucherInv, VoucherTypeOK
<1>3. \A q \in Slot : call[q].step \in {"accept", "handOut"} => uploaded
  BY DEF VoucherInv, DownloadsGranted, At
<1> QED BY <1>1, <1>2, <1>3

\* Every step keeps the invariant: whoever answers last decides, and a renewed
\* request only ever takes the grant away.
LEMMA VoucherStep == VoucherInv /\ [VoucherNext]_voucherVars => VoucherInv'
<1> SUFFICES ASSUME VoucherInv, [VoucherNext]_voucherVars PROVE VoucherInv'
  OBVIOUS
<1>1. ASSUME NEW r \in Slot,
             BeginAsk(r) \/ CreateAccess(r) \/ RenewAccess(r) \/ BeginRefuse(r) \/ Refuse(r)
      PROVE  VoucherInv'
  <2>1. CASE BeginAsk(r) \/ BeginRefuse(r)
    <3>1. PICK c : /\ c \in VoucherCall /\ c.step \in {"create", "renew", "respond"}
                   /\ call' = [call EXCEPT ![r] = c]
      <4>1. CASE BeginAsk(r)
        <5>1. PICK step \in {"create", "renew"} : call' = [call EXCEPT ![r] = [step |-> step]]
          BY <4>1 DEF BeginAsk, Begin
        <5> QED BY <5>1 DEF VoucherCall
      <4>2. CASE BeginRefuse(r)
        <5>1. PICK target \in {"DECLINED", "REVOKED"} :
                 call' = [call EXCEPT ![r] = [step |-> "respond", target |-> target]]
          BY <4>2 DEF BeginRefuse, Begin
        <5> QED BY <5>1 DEF VoucherCall
      <4> QED BY <2>1, <4>1, <4>2
    <3>2. UNCHANGED <<access, uploaded, asked, decision, handed>>
      BY <2>1 DEF BeginAsk, BeginRefuse
    <3> QED BY <3>1, <3>2, VoucherSlot DEF VoucherInv, VoucherTypeOK, DownloadsGranted, At
  <2>2. CASE CreateAccess(r) \/ RenewAccess(r)
    <3>1. /\ call' = [call EXCEPT ![r] = Free] /\ UNCHANGED <<uploaded, decision, handed>>
          /\ \/ access' = "PENDING" /\ asked' = asked + 1
             \/ UNCHANGED <<access, asked>>
      BY <2>2 DEF CreateAccess, RenewAccess, Return
    <3>2. /\ Calls(VoucherCall)' /\ \A q \in Slot : call'[q] \in {Free} \cup VoucherCall
          /\ \A q \in Slot : call'[q].step \in {"accept", "handOut"} => uploaded'
      BY <3>1, VoucherSlot DEF Free
    <3> QED BY <3>1, <3>2 DEF VoucherInv, VoucherTypeOK, AccessStatus, DownloadsGranted, At
  <2>3. CASE Refuse(r)
    <3>1. call[r].target \in {"DECLINED", "REVOKED"}
      <4>1. call[r] \in {Free} \cup VoucherCall /\ call[r].step = "respond"
        BY <2>3 DEF Refuse, At, VoucherInv, VoucherTypeOK
      <4> QED BY <4>1 DEF VoucherCall, Free
    <3>2. /\ call' = [call EXCEPT ![r] = Free] /\ UNCHANGED <<uploaded, asked, handed>>
          /\ access' = call[r].target /\ decision' = "decline"
      BY <2>3 DEF Refuse, Return
    <3> QED BY <3>1, <3>2, VoucherSlot
            DEF VoucherInv, VoucherTypeOK, AccessStatus, DownloadsGranted, At, Free
  <2> QED BY <1>1, <2>1, <2>2, <2>3
<1>2. ASSUME NEW r \in Slot, BeginGrant(r) \/ CheckUpload(r) \/ Grant(r)
      PROVE  VoucherInv'
  <2>1. CASE BeginGrant(r) \/ CheckUpload(r)
    <3>1. PICK c \in {Free, [step |-> "checkUpload"], [step |-> "accept"]} :
             call' = [call EXCEPT ![r] = c] /\ (c.step = "accept" => uploaded)
      <4>1. CASE BeginGrant(r)
        BY <4>1 DEF BeginGrant, Begin
      <4>2. CASE CheckUpload(r)
        <5>1. call[r] = [step |-> "checkUpload"]
          <6>1. call[r] \in {Free} \cup VoucherCall /\ call[r].step = "checkUpload"
            BY <4>2 DEF CheckUpload, At, VoucherInv, VoucherTypeOK
          <6> QED BY <6>1 DEF VoucherCall, Free
        <5>2. \/ uploaded /\ call' = [call EXCEPT ![r] = [call[r] EXCEPT !.step = "accept"]]
              \/ call' = [call EXCEPT ![r] = Free]
          BY <4>2 DEF CheckUpload, Proceed, Return
        <5>3. [call[r] EXCEPT !.step = "accept"] = [step |-> "accept"]
          BY <5>1
        <5> QED BY <5>2, <5>3 DEF Free
      <4> QED BY <2>1, <4>1, <4>2
    <3>2. c \in {Free} \cup VoucherCall /\ c.step # "handOut"
      BY DEF VoucherCall, Free
    <3>3. UNCHANGED <<access, uploaded, asked, decision, handed>>
      BY <2>1 DEF BeginGrant, CheckUpload
    <3> QED BY <3>1, <3>2, <3>3, VoucherSlot DEF VoucherInv, VoucherTypeOK, DownloadsGranted, At
  <2>2. CASE Grant(r)
    <3>1. /\ uploaded /\ call' = [call EXCEPT ![r] = Free] /\ UNCHANGED <<uploaded, asked, handed>>
          /\ access' = "ACCEPTED" /\ decision' = "accept"
      BY <2>2 DEF Grant, Return, VoucherInv
    <3> QED BY <3>1, VoucherSlot
            DEF VoucherInv, VoucherTypeOK, AccessStatus, DownloadsGranted, At, Free
  <2> QED BY <1>2, <2>1, <2>2
<1>3. ASSUME NEW r \in Slot, BeginDownload(r) \/ HandOut(r) \/ AbortVoucher(r)
      PROVE  VoucherInv'
  <2>1. CASE BeginDownload(r)
    <3>1. /\ call' = [call EXCEPT ![r] = [step |-> "handOut"]]
          /\ [step |-> "handOut"] \in VoucherCall
          /\ access = "ACCEPTED" /\ handed' = handed \cup {decision}
          /\ UNCHANGED <<access, uploaded, asked, decision>>
      BY <2>1 DEF BeginDownload, Begin, VoucherCall
    <3>2. decision = "accept" /\ uploaded
      BY <3>1 DEF VoucherInv, DownloadsGranted
    <3> QED BY <3>1, <3>2, VoucherSlot DEF VoucherInv, VoucherTypeOK, DownloadsGranted, At
  <2>2. CASE HandOut(r) \/ AbortVoucher(r)
    <3>1. /\ call' = [call EXCEPT ![r] = Free]
          /\ UNCHANGED <<access, uploaded, asked, decision, handed>>
      BY <2>2 DEF HandOut, AbortVoucher, Abort, Return
    <3> QED BY <3>1, VoucherSlot DEF VoucherInv, VoucherTypeOK, DownloadsGranted, At, Free
  <2> QED BY <1>3, <2>1, <2>2
<1>4. CASE UploadVoucher \/ UNCHANGED voucherVars
  BY <1>4 DEF UploadVoucher, voucherVars, VoucherInv, VoucherTypeOK, Calls, DownloadsGranted, At
<1> QED BY <1>1, <1>2, <1>3, <1>4 DEF VoucherNext

\* The landlord gets at the voucher only while the tenant's last recorded word is
\* an acceptance, however answers, renewed requests and crashes overlap.
THEOREM DownloadsCorrect == VoucherSpec => []DownloadsGranted
<1>1. VoucherInv => DownloadsGranted
  BY DEF VoucherInv
<1> QED BY <1>1, VoucherInitInv, VoucherStep, PTL DEF VoucherSpec

-----------------------------------------------------------------------------
(* User administration *)

\* A moderator's call goes on to the update only for a target that was a member
\* when it was read: whoever is staff by then has been promoted since.
SparedInv ==
    \A r \in Slot : At(r, "setActive") /\ call[r].by = "STAFF_MODERATOR" =>
        LET row == accounts[call[r].target] IN
        /\ call[r].seen <= row.changes
        /\ row.role \in StaffRole => call[r].seen < row.changes

\* Everything user administration keeps true.
AdminInv == AdminTypeOK /\ Calls(AdminCall) /\ SparedInv /\ ModeratorsSpareStaff

\* The records of the four kinds of call.
LEMMA AdminCallAt ==
    ASSUME AdminInv, NEW r \in Slot
    PROVE  /\ At(r, "setRole") => call[r].target \in Account /\ call[r].role \in Role
           /\ At(r, "setPermission") => call[r].target \in Account /\ call[r].enabled \in BOOLEAN
           /\ At(r, "readTarget") => call[r].target \in Account /\ call[r].active \in BOOLEAN
           /\ At(r, "setActive") => /\ call[r].target \in Account /\ call[r].active \in BOOLEAN
                                    /\ call[r].by \in Role /\ call[r].seen \in Nat
<1>1. call[r] \in {Free} \cup AdminCall
  BY DEF AdminInv, AdminTypeOK
<1> QED BY <1>1 DEF At, Free, AdminCall

\* Nobody has called yet.
LEMMA AdminInitInv == AdminInit => AdminInv
<1> SUFFICES ASSUME AdminInit PROVE AdminInv
  OBVIOUS
<1>1. Calls(AdminCall) /\ \A r \in Slot : call[r] = Free
  BY NoCallsYet DEF AdminInit
<1>2. accounts \in [Account -> AccountRow]
  BY DEF AdminInit, AccountRow, Role
<1> QED BY <1>1, <1>2 DEF AdminInit, AdminInv, AdminTypeOK, SparedInv, ModeratorsSpareStaff, At, Free

\* A step that writes no account's role and no suspension, and that puts only a
\* spared target into the slot.
LEMMA AdminSlot ==
    ASSUME AdminInv, NEW r \in Slot, NEW c \in {Free} \cup AdminCall,
           call' = [call EXCEPT ![r] = c],
           accounts' \in [Account -> AccountRow], suspensions' = suspensions,
           \A a \in Account : accounts'[a].role = accounts[a].role
                              /\ accounts'[a].changes = accounts[a].changes,
           c.step = "setActive" /\ c.by = "STAFF_MODERATOR" =>
               /\ c.seen <= accounts[c.target].changes
               /\ accounts[c.target].role \notin StaffRole
    PROVE  AdminInv'
<1>1. Calls(AdminCall)' /\ call'[r] = c /\ \A q \in Slot \ {r} : call'[q] = call[q]
  BY CallSet DEF AdminInv
<1>2. AdminTypeOK'
  BY <1>1 DEF AdminInv, AdminTypeOK
<1>3. SparedInv'
  <2> SUFFICES ASSUME NEW q \in Slot, call'[q].step = "setActive",
                      call'[q].by = "STAFF_MODERATOR"
               PROVE  /\ call'[q].seen <= accounts'[call'[q].target].changes
                      /\ accounts'[call'[q].target].role \in StaffRole =>
                            call'[q].seen < accounts'[call'[q].target].changes
    BY DEF SparedInv, At
  <2>1. CASE q = r
    <3>1. c.target \in Account
      BY <1>1, <2>1 DEF AdminCall, Free
    <3> QED BY <1>1, <2>1, <3>1
  <2>2. CASE q # r
    <3>1. call'[q] = call[q] /\ call[q].step = "setActive"
      BY <1>1, <2>2
    <3>2. call[q].target \in Account
      BY <3>1, AdminCallAt DEF At
    <3>3. /\ call[q].seen <= accounts[call[q].target].changes
          /\ accounts[call[q].target].role \in StaffRole =>
                call[q].seen < accounts[call[q].target].changes
      BY <3>1 DEF AdminInv, SparedInv, At
    <3> QED BY <3>1, <3>2, <3>3
  <2> QED BY <2>1, <2>2
<1> QED BY <1>1, <1>2, <1>3 DEF AdminInv, ModeratorsSpareStaff

\* The row a role change leaves.
LEMMA Promoted ==
    ASSUME NEW w \in AccountRow, NEW role
    PROVE  [w EXCEPT !.role = role, !.changes = @ + 1]
              = [role |-> role, active |-> w.active, canSuspend |-> w.canSuspend,
                 changes |-> w.changes + 1]
<1> DEFINE v == [w EXCEPT !.role = role]
<1>1. v = [role |-> role, active |-> w.active, canSuspend |-> w.canSuspend, changes |-> w.changes]
  BY DEF AccountRow
<1> HIDE DEF v
<1>2. [v EXCEPT !.changes = w.changes + 1]
        = [role |-> role, active |-> w.active, canSuspend |-> w.canSuspend,
           changes |-> w.changes + 1]
  BY <1>1
<1> QED BY <1>2 DEF v

\* A role change counts as one, so whoever a moderator had read as a member is
\* known to have been promoted since.
LEMMA RoleStep ==
    ASSUME AdminInv, NEW r \in Slot, SetRole(r)
    PROVE  AdminInv'
<1>1. At(r, "setRole") /\ call[r].target \in Account /\ call[r].role \in Role
  BY AdminCallAt DEF SetRole
<1> DEFINE t == call[r].target
           row == [role |-> call[r].role, active |-> accounts[t].active,
                   canSuspend |-> accounts[t].canSuspend, changes |-> accounts[t].changes + 1]
<1>2. accounts \in [Account -> AccountRow] /\ accounts[t] \in AccountRow
  BY <1>1 DEF AdminInv, AdminTypeOK
<1>3. row \in AccountRow /\ row.changes = accounts[t].changes + 1
  BY <1>1, <1>2 DEF AccountRow
<1>4. accounts' = [accounts EXCEPT ![t] = row]
  <2>1. accounts' = [accounts EXCEPT ![t].role = call[r].role, ![t].changes = @ + 1]
    BY DEF SetRole
  <2>2. accounts' = [accounts EXCEPT ![t] = [accounts[t] EXCEPT !.role = call[r].role,
                                                                !.changes = @ + 1]]
    BY <1>2, <2>1
  <2>3. [accounts[t] EXCEPT !.role = call[r].role, !.changes = @ + 1] = row
    BY <1>2, Promoted
  <2> QED BY <2>2, <2>3
<1>5. Calls(AdminCall)' /\ call'[r] = Free /\ \A q \in Slot \ {r} : call'[q] = call[q]
  BY FreeSet DEF AdminInv, SetRole, Return
<1> HIDE DEF row
<1>6. AdminTypeOK'
  BY <1>2, <1>3, <1>4, <1>5 DEF AdminInv, AdminTypeOK
<1>7. SparedInv'
  <2> SUFFICES ASSUME NEW q \in Slot, call'[q].step = "setActive",
                      call'[q].by = "STAFF_MODERATOR"
               PROVE  /\ call'[q].seen <= accounts'[call'[q].target].changes
                      /\ accounts'[call'[q].target].role \in StaffRole =>
                            call'[q].seen < accounts'[call'[q].target].changes
    BY DEF SparedInv, At
  <2>1. q # r /\ call'[q] = call[q]
    BY <1>5 DEF Free
  <2>2. call[q].target \in Account /\ call[q].seen \in Nat
    BY <2>1, AdminCallAt DEF At
  <2>3. /\ call[q].seen <= accounts[call[q].target].changes
        /\ accounts[call[q].target].role \in StaffRole =>
              call[q].seen < accounts[call[q].target].changes
    BY <2>1 DEF AdminInv, SparedInv, At
  <2>4. CASE call[q].target = t
    <3>1. accounts[t].changes \in Nat /\ accounts'[t] = row
      BY <1>1, <1>2, <1>4 DEF AccountRow
    <3> QED BY <1>3, <2>1, <2>2, <2>3, <2>4, <3>1
  <2>5. CASE call[q].target # t
    <3>1. accounts'[call[q].target] = accounts[call[q].target]
      BY <1>2, <1>4, <2>2, <2>5
    <3> QED BY <2>1, <2>3, <3>1
  <2> QED BY <2>4, <2>5
<1> QED BY <1>5, <1>6, <1>7 DEF AdminInv, ModeratorsSpareStaff, SetRole

\* The update itself: a staff account a moderator hits was promoted in the call.
LEMMA ActiveStep ==
    ASSUME AdminInv, NEW r \in Slot, SetActiveFlag(r)
    PROVE  AdminInv'
<1>1. At(r, "setActive") /\ call[r].target \in Account /\ call[r].active \in BOOLEAN
  BY AdminCallAt DEF SetActiveFlag
<1> DEFINE t == call[r].target
           row == [accounts[t] EXCEPT !.active = call[r].active]
<1>2. accounts \in [Account -> AccountRow] /\ accounts[t] \in AccountRow
  BY <1>1 DEF AdminInv, AdminTypeOK
<1>3. /\ accounts' = [accounts EXCEPT ![t] = row] /\ row \in AccountRow
      /\ row.role = accounts[t].role /\ row.changes = accounts[t].changes
  BY <1>1, <1>2 DEF SetActiveFlag, AccountRow
<1> HIDE DEF row
<1>4. /\ accounts' \in [Account -> AccountRow]
      /\ \A a \in Account : accounts'[a].role = accounts[a].role
                            /\ accounts'[a].changes = accounts[a].changes
  BY <1>1, <1>2, <1>3
<1>5. Calls(AdminCall)' /\ call'[r] = Free /\ \A q \in Slot \ {r} : call'[q] = call[q]
  BY FreeSet DEF AdminInv, SetActiveFlag, Return
<1>6. AdminTypeOK'
  BY <1>4, <1>5 DEF AdminInv, AdminTypeOK
<1>7. SparedInv'
  <2> SUFFICES ASSUME NEW q \in Slot, call'[q].step = "setActive",
                      call'[q].by = "STAFF_MODERATOR"
               PROVE  /\ call'[q].seen <= accounts'[call'[q].target].changes
                      /\ accounts'[call'[q].target].role \in StaffRole =>
                            call'[q].seen < accounts'[call'[q].target].changes
    BY DEF SparedInv, At
  <2>1. q # r /\ call'[q] = call[q]
    BY <1>5 DEF Free
  <2>2. call[q].target \in Account
    BY <2>1, AdminCallAt DEF At
  <2> QED BY <1>4, <2>1, <2>2 DEF AdminInv, SparedInv, At
<1>8. ModeratorsSpareStaff'
  <2>1. CASE call[r].by = "STAFF_MODERATOR" /\ accounts[t].role \in StaffRole
    <3>1. call[r].seen < accounts[t].changes
      BY <1>1, <2>1 DEF AdminInv, SparedInv
    <3>2. accounts[t].changes > call[r].seen
      BY <1>1, <1>2, <3>1, AdminCallAt DEF AccountRow
    <3>3. suspensions' = suspensions \cup {[promoted |-> TRUE]}
      BY <2>1, <3>2 DEF SetActiveFlag
    <3> QED BY <3>3 DEF AdminInv, ModeratorsSpareStaff
  <2>2. CASE ~(call[r].by = "STAFF_MODERATOR" /\ accounts[t].role \in StaffRole)
    <3>1. suspensions' = suspensions
      BY <2>2 DEF SetActiveFlag
    <3> QED BY <3>1 DEF AdminInv, ModeratorsSpareStaff
  <2> QED BY <2>1, <2>2
<1> QED BY <1>5, <1>6, <1>7, <1>8 DEF AdminInv

\* Every step keeps the invariant.
LEMMA AdminStep == AdminInv /\ [AdminNext]_adminVars => AdminInv'
<1> SUFFICES ASSUME AdminInv, [AdminNext]_adminVars PROVE AdminInv'
  OBVIOUS
<1>0. accounts \in [Account -> AccountRow]
  BY DEF AdminInv, AdminTypeOK
<1>1. ASSUME NEW r \in Slot, NEW a \in Account, NEW t \in Account, NEW role \in Role,
             BeginChangeRole(r, a, t, role)
      PROVE  AdminInv'
  <2>1. [step |-> "setRole", target |-> t, role |-> role] \in AdminCall
    BY DEF AdminCall
  <2> QED BY <1>0, <1>1, <2>1, AdminSlot DEF BeginChangeRole, Begin
<1>2. ASSUME NEW r \in Slot, NEW a \in Account, NEW t \in Account, NEW b \in BOOLEAN,
             BeginSetPermission(r, a, t, b)
      PROVE  AdminInv'
  <2>1. [step |-> "setPermission", target |-> t, enabled |-> b] \in AdminCall
    BY DEF AdminCall
  <2> QED BY <1>0, <1>2, <2>1, AdminSlot DEF BeginSetPermission, Begin
<1>3. ASSUME NEW r \in Slot, NEW a \in Account, NEW t \in Account, NEW b \in BOOLEAN,
             BeginSetActive(r, a, t, b)
      PROVE  AdminInv'
  <2>1. CASE accounts[a].role = "STAFF_MODERATOR"
    <3>1. [step |-> "readTarget", target |-> t, active |-> b] \in AdminCall
      BY DEF AdminCall
    <3> QED BY <1>0, <1>3, <2>1, <3>1, AdminSlot DEF BeginSetActive, Begin
  <2>2. CASE accounts[a].role # "STAFF_MODERATOR"
    <3> DEFINE c == [step |-> "setActive", target |-> t, active |-> b,
                     by |-> accounts[a].role, seen |-> 0]
    <3>1. c \in AdminCall
      BY <1>0 DEF AdminCall, AccountRow
    <3>2. c.by # "STAFF_MODERATOR"
      BY <2>2
    <3>3. call' = [call EXCEPT ![r] = c] /\ UNCHANGED <<accounts, suspensions>>
      BY <1>3, <2>2 DEF BeginSetActive, Begin
    <3> HIDE DEF c
    <3> QED BY <1>0, <3>1, <3>2, <3>3, AdminSlot
  <2> QED BY <2>1, <2>2
<1>4. ASSUME NEW r \in Slot, SetPermission(r) PROVE AdminInv'
  <2>1. call[r].target \in Account /\ call[r].enabled \in BOOLEAN
    BY <1>4, AdminCallAt DEF SetPermission
  <2>2. /\ accounts' = [accounts EXCEPT ![call[r].target].canSuspend = call[r].enabled]
        /\ call' = [call EXCEPT ![r] = Free] /\ suspensions' = suspensions
    BY <1>4 DEF SetPermission, Return
  <2>3. /\ accounts' \in [Account -> AccountRow]
        /\ \A a \in Account : accounts'[a].role = accounts[a].role
                              /\ accounts'[a].changes = accounts[a].changes
    BY <1>0, <2>1, <2>2 DEF AccountRow
  <2> QED BY <2>2, <2>3, AdminSlot DEF Free
<1>5. ASSUME NEW r \in Slot, ReadTarget(r) PROVE AdminInv'
  <2>1. call[r].target \in Account /\ call[r].active \in BOOLEAN
    BY <1>5, AdminCallAt DEF ReadTarget
  <2> DEFINE c == [step |-> "setActive", target |-> call[r].target, active |-> call[r].active,
                   by |-> "STAFF_MODERATOR", seen |-> accounts[call[r].target].changes]
  <2>2. UNCHANGED <<accounts, suspensions>>
    BY <1>5 DEF ReadTarget
  <2>3. CASE accounts[call[r].target].role \in StaffRole
    BY <1>0, <1>5, <2>2, <2>3, AdminSlot DEF ReadTarget, Return, Free
  <2>4. CASE accounts[call[r].target].role \notin StaffRole
    <3>1. c \in AdminCall /\ accounts[call[r].target].changes \in Nat
      BY <1>0, <2>1 DEF AdminCall, AccountRow, Role
    <3>2. call' = [call EXCEPT ![r] = c]
      BY <1>5, <2>4 DEF ReadTarget
    <3>3. c.target = call[r].target /\ c.seen = accounts[call[r].target].changes
      OBVIOUS
    <3>4. c.seen <= accounts[c.target].changes /\ accounts[c.target].role \notin StaffRole
      BY <2>4, <3>1, <3>3
    <3>5. /\ accounts' \in [Account -> AccountRow] /\ suspensions' = suspensions
          /\ \A a \in Account : accounts'[a].role = accounts[a].role
                                /\ accounts'[a].changes = accounts[a].changes
      BY <1>0, <2>2
    <3> HIDE DEF c
    <3> QED BY <3>1, <3>2, <3>4, <3>5, AdminSlot
  <2> QED BY <2>3, <2>4
<1>6. ASSUME NEW r \in Slot, AbortAdmin(r) PROVE AdminInv'
  BY <1>0, <1>6, AdminSlot DEF AbortAdmin, Abort, Return, Free
<1>7. CASE UNCHANGED adminVars
  BY <1>7 DEF adminVars, AdminInv, AdminTypeOK, Calls, SparedInv, ModeratorsSpareStaff, At
<1> QED BY <1>1, <1>2, <1>3, <1>4, <1>5, <1>6, <1>7, RoleStep, ActiveStep DEF AdminNext

\* A moderator never suspends or restores another moderator or an administrator,
\* except one that became staff in the middle of the call, however roles and
\* permissions change around it.
THEOREM ModeratorsCorrect == AdminSpec => []ModeratorsSpareStaff
<1>1. AdminInv => ModeratorsSpareStaff
  BY DEF AdminInv
<1> QED BY <1>1, AdminInitInv, AdminStep, PTL DEF AdminSpec

-----------------------------------------------------------------------------
(* Landlord subscriptions and listing boosts *)

\* Tier t of product p was paid for.
Sold(rows, p, t) ==
    \E o \in DOMAIN rows : rows[o].product = p /\ rows[o].paid /\ rows[o].tier = t

\* The order a row holds is one of its product, for what is pending.
OrderOf(rows, p, row) ==
    row.order # 0 => /\ row.order \in DOMAIN rows
                     /\ rows[row.order].product = p
                     /\ row.pending \in {Unpaid, rows[row.order].tier}

\* What a call carries belongs to its order, and an event's tier was paid for.
SaleOK(rows, c) ==
    /\ c.step = "checkout" => c.tier \in Tier[c.product]
    /\ c.step = "save" => /\ c.order \in DOMAIN rows
                          /\ rows[c.order].product = c.product
                          /\ rows[c.order].tier = c.tier
    /\ c.step = "apply" => Sold(rows, c.product, c.tier)

Offered(rows) == \A o \in DOMAIN rows : rows[o].tier \in Tier[rows[o].product]

\* Orders are added and get paid; they are never changed otherwise.
OrdersKept(rows, new) ==
    /\ DOMAIN rows \subseteq DOMAIN new
    /\ \A o \in DOMAIN rows : /\ new[o].product = rows[o].product
                              /\ new[o].tier = rows[o].tier
                              /\ rows[o].paid => new[o].paid

\* Everything the upgrades keep true: orders match rows, and tiers were paid for.
UpgradesInv ==
    /\ UpgradesTypeOK /\ Calls(UpgradeCall)
    /\ Offered(checkouts)
    /\ \A p \in Product : OrderOf(checkouts, p, upgrades[p])
    /\ \A r \in Slot : SaleOK(checkouts, call[r])
    /\ TierPaidFor

\* Whatever is true of a row or of a call stays true as orders are added and paid.
LEMMA SaleKept ==
    ASSUME NEW rows, NEW new, OrdersKept(rows, new)
    PROVE  /\ \A p, t : Sold(rows, p, t) => Sold(new, p, t)
           /\ \A p, row : OrderOf(rows, p, row) => OrderOf(new, p, row)
           /\ \A c : SaleOK(rows, c) => SaleOK(new, c)
<1>1. \A p, t : Sold(rows, p, t) => Sold(new, p, t)
  BY DEF OrdersKept, Sold
<1>2. ASSUME NEW p, NEW row, OrderOf(rows, p, row) PROVE OrderOf(new, p, row)
  BY <1>2 DEF OrdersKept, OrderOf
<1>3. ASSUME NEW c, SaleOK(rows, c) PROVE SaleOK(new, c)
  BY <1>1, <1>3 DEF OrdersKept, SaleOK
<1> QED BY <1>1, <1>2, <1>3

\* The records of the three kinds of call.
LEMMA UpgradeCallAt ==
    ASSUME UpgradesInv, NEW r \in Slot
    PROVE  /\ At(r, "checkout") \/ At(r, "save") \/ At(r, "apply") =>
                 call[r].product \in Product /\ call[r].tier \in AnyTier
           /\ At(r, "save") => call[r].order \in Nat
<1>1. call[r] \in {Free} \cup UpgradeCall
  BY DEF UpgradesInv, UpgradesTypeOK
<1> QED BY <1>1 DEF At, Free, UpgradeCall

\* Nothing has been sold yet.
LEMMA UpgradesInitInv == UpgradesInit => UpgradesInv
<1> SUFFICES ASSUME UpgradesInit PROVE UpgradesInv
  OBVIOUS
<1>1. Calls(UpgradeCall) /\ \A r \in Slot : call[r] = Free
  BY NoCallsYet DEF UpgradesInit
<1>2. upgrades \in [Product -> UpgradeRow]
      /\ \A p \in Product : upgrades[p].order = 0 /\ upgrades[p].tier = Unpaid
  BY DEF UpgradesInit, UpgradeRow, AnyTier, Unpaid, Product
<1>3. checkouts \in Seq(CheckoutRow) /\ DOMAIN checkouts = {}
  BY DEF UpgradesInit
<1>4. \A r \in Slot : SaleOK(checkouts, call[r])
  BY <1>1 DEF SaleOK, Free
<1>5. \A p \in Product : OrderOf(checkouts, p, upgrades[p])
  BY <1>2 DEF OrderOf
<1> QED BY <1>1, <1>2, <1>3, <1>4, <1>5 DEF UpgradesInv, UpgradesTypeOK, Offered, TierPaidFor

\* What a step of a call has to show of the rows it leaves and of its own slot.
LEMMA UpgradeSlot ==
    ASSUME UpgradesInv, NEW r \in Slot, NEW c \in {Free} \cup UpgradeCall,
           call' = [call EXCEPT ![r] = c],
           checkouts' \in Seq(CheckoutRow), OrdersKept(checkouts, checkouts'), Offered(checkouts'),
           SaleOK(checkouts', c),
           upgrades' \in [Product -> UpgradeRow],
           \A p \in Product : OrderOf(checkouts', p, upgrades'[p]),
           \A p \in Product : upgrades'[p].tier # Unpaid =>
               Sold(checkouts', p, upgrades'[p].tier)
    PROVE  UpgradesInv'
<1>1. Calls(UpgradeCall)' /\ call'[r] = c /\ \A q \in Slot \ {r} : call'[q] = call[q]
  BY CallSet DEF UpgradesInv
<1>2. UpgradesTypeOK'
  BY <1>1 DEF UpgradesInv, UpgradesTypeOK
<1>3. \A q \in Slot : SaleOK(checkouts', call'[q])
  <2>1. \A d : SaleOK(checkouts, d) => SaleOK(checkouts', d)
    BY SaleKept
  <2>2. \A q \in Slot : SaleOK(checkouts, call[q])
    BY DEF UpgradesInv
  <2> QED BY <1>1, <2>1, <2>2
<1>4. TierPaidFor'
  BY DEF TierPaidFor, Sold
<1> QED BY <1>1, <1>2, <1>3, <1>4 DEF UpgradesInv

\* The same for a step that leaves both tables alone.
LEMMA UpgradeQuiet ==
    ASSUME UpgradesInv, NEW r \in Slot, NEW c \in {Free} \cup UpgradeCall,
           call' = [call EXCEPT ![r] = c], UNCHANGED <<upgrades, checkouts>>,
           SaleOK(checkouts, c)
    PROVE  UpgradesInv'
<1>1. OrdersKept(checkouts, checkouts')
  BY DEF OrdersKept
<1>2. /\ checkouts' \in Seq(CheckoutRow) /\ upgrades' \in [Product -> UpgradeRow]
      /\ checkouts' = checkouts /\ upgrades' = upgrades
  BY DEF UpgradesInv, UpgradesTypeOK
<1>3. \A p \in Product : upgrades[p].tier # Unpaid => Sold(checkouts, p, upgrades[p].tier)
  BY DEF UpgradesInv, TierPaidFor, Sold
<1>4. Offered(checkouts) /\ \A p \in Product : OrderOf(checkouts, p, upgrades[p])
  BY DEF UpgradesInv
<1> QED BY <1>1, <1>2, <1>3, <1>4, UpgradeSlot

\* A checkout adds an order for what the call asked for.
LEMMA CheckoutStep ==
    ASSUME UpgradesInv, NEW r \in Slot, CreateCheckout(r)
    PROVE  UpgradesInv'
<1>1. At(r, "checkout") /\ call[r].product \in Product /\ call[r].tier \in AnyTier
  BY UpgradeCallAt DEF CreateCheckout
<1>2. call[r].tier \in Tier[call[r].product]
  BY <1>1 DEF UpgradesInv, SaleOK, At
<1> DEFINE o == Len(checkouts) + 1
           row == [product |-> call[r].product, tier |-> call[r].tier, paid |-> FALSE]
           c == [step |-> "save", product |-> call[r].product, tier |-> call[r].tier, order |-> o]
<1>3. checkouts \in Seq(CheckoutRow) /\ row \in CheckoutRow /\ o \in Nat
  BY <1>1 DEF UpgradesInv, UpgradesTypeOK, CheckoutRow
<1>4. /\ c \in UpgradeCall /\ c.step = "save" /\ c.order = o
      /\ c.product = row.product /\ c.tier = row.tier /\ row.tier \in Tier[row.product]
  BY <1>1, <1>2, <1>3 DEF UpgradeCall
<1>5. /\ checkouts' = Append(checkouts, row) /\ call' = [call EXCEPT ![r] = c]
      /\ upgrades' = upgrades
  BY DEF CreateCheckout
<1> HIDE DEF row, c
<1>6. /\ checkouts' \in Seq(CheckoutRow) /\ DOMAIN checkouts' = DOMAIN checkouts \cup {o}
      /\ checkouts'[o] = row /\ \A i \in DOMAIN checkouts : checkouts'[i] = checkouts[i]
  BY <1>3, <1>5
<1> HIDE DEF o
<1>7. OrdersKept(checkouts, checkouts')
  BY <1>6 DEF OrdersKept
<1>8. Offered(checkouts')
  BY <1>4, <1>6 DEF UpgradesInv, Offered
<1>9. SaleOK(checkouts', c)
  BY <1>4, <1>6 DEF SaleOK
<1>10. /\ upgrades' \in [Product -> UpgradeRow]
       /\ \A p \in Product : OrderOf(checkouts', p, upgrades'[p])
       /\ \A p \in Product : upgrades'[p].tier # Unpaid =>
              Sold(checkouts', p, upgrades'[p].tier)
  <2>1. /\ \A p, t : Sold(checkouts, p, t) => Sold(checkouts', p, t)
        /\ \A p, w : OrderOf(checkouts, p, w) => OrderOf(checkouts', p, w)
    BY <1>7, SaleKept
  <2>2. \A p \in Product : upgrades[p].tier # Unpaid => Sold(checkouts, p, upgrades[p].tier)
    BY DEF UpgradesInv, TierPaidFor, Sold
  <2>3. /\ upgrades \in [Product -> UpgradeRow]
        /\ \A p \in Product : OrderOf(checkouts, p, upgrades[p])
    BY DEF UpgradesInv, UpgradesTypeOK
  <2> QED BY <1>5, <2>1, <2>2, <2>3
<1> QED BY <1>4, <1>5, <1>6, <1>7, <1>8, <1>9, <1>10, UpgradeSlot

\* The row takes the order, and what is pending with it.
LEMMA SaveStep ==
    ASSUME UpgradesInv, NEW r \in Slot, SaveOrder(r)
    PROVE  UpgradesInv'
<1> DEFINE p == call[r].product
           row == [tier |-> upgrades[p].tier, pending |-> call[r].tier, order |-> call[r].order]
<1>1. /\ At(r, "save") /\ p \in Product /\ call[r].tier \in AnyTier /\ call[r].order \in Nat
      /\ upgrades \in [Product -> UpgradeRow]
  BY UpgradeCallAt DEF SaveOrder, UpgradesInv, UpgradesTypeOK
<1>2. /\ call[r].order \in DOMAIN checkouts /\ checkouts[call[r].order].product = p
      /\ checkouts[call[r].order].tier = call[r].tier
  BY <1>1 DEF UpgradesInv, SaleOK, At
<1>3. row \in UpgradeRow /\ upgrades[p] \in UpgradeRow /\ row.tier = upgrades[p].tier
  BY <1>1 DEF UpgradeRow
<1>4. OrderOf(checkouts, p, row)
  BY <1>2 DEF OrderOf
<1>5. upgrades' = [upgrades EXCEPT ![p] = row]
  <2>1. upgrades' = [upgrades EXCEPT ![p].pending = call[r].tier, ![p].order = call[r].order]
    BY DEF SaveOrder
  <2>2. upgrades' = [upgrades EXCEPT ![p] = [upgrades[p] EXCEPT !.pending = call[r].tier,
                                                              !.order = call[r].order]]
    BY <1>1, <2>1
  <2> DEFINE w == [upgrades[p] EXCEPT !.pending = call[r].tier]
  <2>3. w = [tier |-> upgrades[p].tier, pending |-> call[r].tier, order |-> upgrades[p].order]
    BY <1>3 DEF UpgradeRow
  <2> HIDE DEF w
  <2>4. [w EXCEPT !.order = call[r].order] = row
    BY <2>3
  <2> QED BY <2>2, <2>4 DEF w
<1>6. /\ call' = [call EXCEPT ![r] = Free] /\ checkouts' = checkouts
      /\ checkouts \in Seq(CheckoutRow) /\ Offered(checkouts)
      /\ OrdersKept(checkouts, checkouts')
  BY DEF SaveOrder, Return, OrdersKept, UpgradesInv, UpgradesTypeOK
<1> HIDE DEF row, p
<1>7. \A q \in Product : OrderOf(checkouts, q, upgrades'[q])
  BY <1>1, <1>4, <1>5 DEF UpgradesInv
<1>8. \A q \in Product : upgrades'[q].tier # Unpaid => Sold(checkouts, q, upgrades'[q].tier)
  BY <1>1, <1>3, <1>5 DEF UpgradesInv, TierPaidFor, Sold
<1>9. SaleOK(checkouts, Free) /\ upgrades' \in [Product -> UpgradeRow]
  BY <1>1, <1>3, <1>5 DEF SaleOK, Free
<1> QED BY <1>6, <1>7, <1>8, <1>9, UpgradeSlot

\* The tier an event puts in force was paid for.
LEMMA ApplyStep ==
    ASSUME UpgradesInv, NEW r \in Slot, ApplyEvent(r)
    PROVE  UpgradesInv'
<1> DEFINE p == call[r].product
           t == call[r].tier
<1>1. /\ At(r, "apply") /\ p \in Product /\ t \in AnyTier
      /\ upgrades \in [Product -> UpgradeRow]
  BY UpgradeCallAt DEF ApplyEvent, UpgradesInv, UpgradesTypeOK
<1>2. Sold(checkouts, p, t) /\ t \in Tier[p]
  <2>1. Sold(checkouts, p, t)
    BY <1>1 DEF UpgradesInv, SaleOK, At
  <2> QED BY <2>1 DEF Sold, UpgradesInv, Offered
<1>3. PICK row \in UpgradeRow :
         /\ upgrades' = [upgrades EXCEPT ![p] = row] /\ row.tier = t
         /\ row.order \in {0, upgrades[p].order}
         /\ row.order # 0 => row.pending = Unpaid
  <2>1. CASE p = "boost"
    <3>1. t = "BOOSTED"
      BY <1>2, <2>1 DEF Tier
    <3>2. upgrades' = [upgrades EXCEPT ![p] =
              [tier |-> "BOOSTED", pending |-> upgrades[p].pending, order |-> 0]]
      <4>1. upgrades' = [upgrades EXCEPT ![p] = [@ EXCEPT !.tier = "BOOSTED", !.order = 0]]
        BY <2>1 DEF ApplyEvent
      <4> DEFINE w == [upgrades[p] EXCEPT !.tier = "BOOSTED"]
      <4>2. w = [tier |-> "BOOSTED", pending |-> upgrades[p].pending, order |-> upgrades[p].order]
        BY <1>1 DEF UpgradeRow
      <4> HIDE DEF w
      <4>3. [w EXCEPT !.order = 0]
              = [tier |-> "BOOSTED", pending |-> upgrades[p].pending, order |-> 0]
        BY <4>2
      <4> QED BY <4>1, <4>3 DEF w
    <3>3. [tier |-> "BOOSTED", pending |-> upgrades[p].pending, order |-> 0] \in UpgradeRow
      BY <1>1 DEF UpgradeRow, AnyTier
    <3> QED BY <3>1, <3>2, <3>3
  <2>2. CASE p # "boost"
    <3>1. upgrades' = [upgrades EXCEPT ![p] =
              [tier |-> t, pending |-> Unpaid, order |-> upgrades[p].order]]
      <4>1. upgrades' = [upgrades EXCEPT ![p] = [@ EXCEPT !.tier = t, !.pending = Unpaid]]
        BY <2>2 DEF ApplyEvent
      <4> DEFINE w == [upgrades[p] EXCEPT !.tier = t]
      <4>2. w = [tier |-> t, pending |-> upgrades[p].pending, order |-> upgrades[p].order]
        BY <1>1 DEF UpgradeRow
      <4> HIDE DEF w
      <4>3. [w EXCEPT !.pending = Unpaid]
              = [tier |-> t, pending |-> Unpaid, order |-> upgrades[p].order]
        BY <4>2
      <4> QED BY <4>1, <4>3 DEF w
    <3>2. [tier |-> t, pending |-> Unpaid, order |-> upgrades[p].order] \in UpgradeRow
      BY <1>1 DEF UpgradeRow
    <3> QED BY <3>1, <3>2
  <2> QED BY <2>1, <2>2
<1>4. /\ call' = [call EXCEPT ![r] = Free] /\ checkouts' = checkouts
      /\ checkouts \in Seq(CheckoutRow) /\ Offered(checkouts)
      /\ OrdersKept(checkouts, checkouts')
  BY DEF ApplyEvent, Return, OrdersKept, UpgradesInv, UpgradesTypeOK
<1> HIDE DEF p, t
<1>5. OrderOf(checkouts, p, row)
  <2>1. OrderOf(checkouts, p, upgrades[p])
    BY <1>1 DEF UpgradesInv
  <2> QED BY <1>3, <2>1 DEF OrderOf
<1>6. \A q \in Product : OrderOf(checkouts, q, upgrades'[q])
  BY <1>1, <1>3, <1>5 DEF UpgradesInv
<1>7. \A q \in Product : upgrades'[q].tier # Unpaid => Sold(checkouts, q, upgrades'[q].tier)
  <2>1. \A q \in Product : upgrades[q].tier # Unpaid => Sold(checkouts, q, upgrades[q].tier)
    BY DEF UpgradesInv, TierPaidFor, Sold
  <2> QED BY <1>1, <1>2, <1>3, <2>1
<1>8. SaleOK(checkouts, Free) /\ upgrades' \in [Product -> UpgradeRow]
  BY <1>1, <1>3 DEF SaleOK, Free
<1> QED BY <1>4, <1>6, <1>7, <1>8, UpgradeSlot

\* Every step keeps the invariant: an event finds only the row that holds its
\* order, and what was pending there is what the order was for.
LEMMA UpgradesStep == UpgradesInv /\ [UpgradesNext]_upgradeVars => UpgradesInv'
<1> SUFFICES ASSUME UpgradesInv, [UpgradesNext]_upgradeVars PROVE UpgradesInv'
  OBVIOUS
<1>1. ASSUME NEW r \in Slot, NEW p \in Product, NEW t \in Tier[p], BeginPurchase(r, p, t)
      PROVE  UpgradesInv'
  <2> DEFINE c == [step |-> "checkout", product |-> p, tier |-> t]
  <2>1. t \in AnyTier
    BY DEF Product, Tier, AnyTier
  <2>2. c \in UpgradeCall /\ SaleOK(checkouts, c)
    BY <2>1 DEF UpgradeCall, SaleOK
  <2>3. call' = [call EXCEPT ![r] = c] /\ UNCHANGED <<upgrades, checkouts>>
    BY <1>1 DEF BeginPurchase, Begin
  <2> HIDE DEF c
  <2> QED BY <2>2, <2>3, UpgradeQuiet
<1>2. ASSUME NEW r \in Slot, NEW p \in Product, NEW o \in DOMAIN checkouts, BeginEvent(r, p, o)
      PROVE  UpgradesInv'
  <2> DEFINE c == [step |-> "apply", product |-> p, tier |-> upgrades[p].pending]
  <2>1. /\ upgrades[p] \in UpgradeRow /\ OrderOf(checkouts, p, upgrades[p])
        /\ checkouts \in Seq(CheckoutRow)
    BY DEF UpgradesInv, UpgradesTypeOK
  <2>2. /\ checkouts[o].paid /\ upgrades[p].order = o /\ upgrades[p].pending # Unpaid
        /\ call' = [call EXCEPT ![r] = c] /\ UNCHANGED <<upgrades, checkouts>>
    BY <1>2 DEF BeginEvent, Begin
  <2>3. o # 0
    BY <2>1
  <2>4. Sold(checkouts, p, upgrades[p].pending)
    BY <2>1, <2>2, <2>3 DEF OrderOf, Sold
  <2>5. c \in UpgradeCall /\ SaleOK(checkouts, c)
    BY <2>1, <2>2, <2>4 DEF UpgradeCall, UpgradeRow, SaleOK
  <2> HIDE DEF c
  <2> QED BY <2>2, <2>5, UpgradeQuiet
<1>3. ASSUME NEW r \in Slot, AbortUpgrade(r) PROVE UpgradesInv'
  <2>1. SaleOK(checkouts, Free)
    BY DEF SaleOK, Free
  <2> QED BY <1>3, <2>1, UpgradeQuiet DEF AbortUpgrade, Abort, Return
<1>4. ASSUME NEW o \in DOMAIN checkouts, PayCheckout(o) PROVE UpgradesInv'
  <2>1. /\ checkouts \in Seq(CheckoutRow) /\ checkouts[o] \in CheckoutRow
        /\ checkouts' = [checkouts EXCEPT ![o].paid = TRUE] /\ UNCHANGED <<upgrades, call>>
    BY <1>4 DEF PayCheckout, UpgradesInv, UpgradesTypeOK
  <2> DEFINE row == [checkouts[o] EXCEPT !.paid = TRUE]
  <2>2. row \in CheckoutRow /\ row.product = checkouts[o].product /\ row.tier = checkouts[o].tier
        /\ row.paid
    BY <2>1 DEF CheckoutRow
  <2> HIDE DEF row
  <2>3. /\ checkouts' \in Seq(CheckoutRow) /\ DOMAIN checkouts' = DOMAIN checkouts
        /\ checkouts'[o] = row /\ \A i \in DOMAIN checkouts \ {o} : checkouts'[i] = checkouts[i]
    BY <2>1, <2>2 DEF row
  <2>4. OrdersKept(checkouts, checkouts')
    BY <2>2, <2>3 DEF OrdersKept
  <2>5. /\ \A p, t : Sold(checkouts, p, t) => Sold(checkouts', p, t)
        /\ \A p, w : OrderOf(checkouts, p, w) => OrderOf(checkouts', p, w)
        /\ \A c : SaleOK(checkouts, c) => SaleOK(checkouts', c)
    BY <2>4, SaleKept
  <2>6. \A p \in Product : upgrades[p].tier # Unpaid => Sold(checkouts, p, upgrades[p].tier)
    BY DEF UpgradesInv, TierPaidFor, Sold
  <2>7. TierPaidFor'
    <3>1. \A p \in Product : upgrades'[p].tier # Unpaid => Sold(checkouts', p, upgrades'[p].tier)
      BY <2>1, <2>5, <2>6
    <3> QED BY <3>1 DEF TierPaidFor, Sold
  <2>8. Offered(checkouts')
    BY <2>2, <2>3 DEF UpgradesInv, Offered
  <2>9. /\ \A p \in Product : OrderOf(checkouts', p, upgrades'[p])
        /\ \A r \in Slot : SaleOK(checkouts', call'[r])
    BY <2>1, <2>5 DEF UpgradesInv
  <2>10. UpgradesTypeOK' /\ Calls(UpgradeCall)'
    BY <2>1, <2>3 DEF UpgradesInv, UpgradesTypeOK, Calls
  <2> QED BY <2>7, <2>8, <2>9, <2>10 DEF UpgradesInv
<1>5. CASE UNCHANGED upgradeVars
  <2>1. UpgradesTypeOK' /\ Calls(UpgradeCall)' /\ TierPaidFor'
    BY <1>5 DEF upgradeVars, UpgradesInv, UpgradesTypeOK, Calls, TierPaidFor
  <2>2. /\ Offered(checkouts)'
        /\ (\A p \in Product : OrderOf(checkouts, p, upgrades[p]))'
        /\ (\A r \in Slot : SaleOK(checkouts, call[r]))'
    BY <1>5 DEF upgradeVars, UpgradesInv
  <2> QED BY <2>1, <2>2 DEF UpgradesInv
<1> QED BY <1>1, <1>2, <1>3, <1>4, <1>5, CheckoutStep, SaveStep, ApplyStep DEF UpgradesNext

\* The tier in force is one the landlord paid for, however checkouts overlap with
\* each other and with late, repeated events.
THEOREM TierCorrect == UpgradesSpec => []TierPaidFor
<1>1. UpgradesInv => TierPaidFor
  BY DEF UpgradesInv
<1> QED BY <1>1, UpgradesInitInv, UpgradesStep, PTL DEF UpgradesSpec

-----------------------------------------------------------------------------
(* Showings *)

\* A showing's selected times are the one it is scheduled at.
Picked(row) ==
    /\ {t \in DOMAIN row.times : row.times[t]} = {row.scheduledAt} \ {0}
    /\ row.status = "SCHEDULED" => row.scheduledAt # 0

\* The showing a call works on exists, with its time; after the transaction it has
\* been scheduled.
ShowingOK(rows, c) ==
    /\ c.step \in {"addTime", "markProposed", "select", "markScheduled", "invite"} =>
          c.showing \in DOMAIN rows
    /\ c.step = "select" => c.time \in DOMAIN rows[c.showing].times
    /\ c.step \in {"markScheduled", "invite"} => rows[c.showing].scheduledAt # 0

\* Showings and their times are only added to, and stay scheduled once they were.
ShowingsKept(rows, new) ==
    /\ DOMAIN rows \subseteq DOMAIN new
    /\ \A s \in DOMAIN rows : /\ DOMAIN rows[s].times \subseteq DOMAIN new[s].times
                              /\ rows[s].scheduledAt # 0 => new[s].scheduledAt # 0

AnyScheduled(rows) == \E s \in DOMAIN rows : rows[s].scheduledAt # 0

\* Everything the showings keep true.
ShowingsInv ==
    /\ ShowingsTypeOK /\ Calls(ShowingCall)
    /\ \A s \in DOMAIN showings : Picked(showings[s])
    /\ \A r \in Slot : ShowingOK(showings, call[r])
    /\ talk = "SHOWING_SCHEDULED" => AnyScheduled(showings)
    /\ \A i \in invited : i[1] \in DOMAIN showings /\ showings[i[1]].scheduledAt # 0

\* The invariant says of every showing what the property says.
LEMMA PickedEach == ShowingsInv => OneTimeSelected
  BY DEF ShowingsInv, OneTimeSelected, Picked, AnyScheduled

\* What holds of a call or of the table goes on holding as the table grows.
LEMMA ShowingKept ==
    ASSUME NEW rows, NEW new, ShowingsKept(rows, new)
    PROVE  /\ \A c : ShowingOK(rows, c) => ShowingOK(new, c)
           /\ AnyScheduled(rows) => AnyScheduled(new)
<1>1. ASSUME NEW c, ShowingOK(rows, c) PROVE ShowingOK(new, c)
  BY <1>1 DEF ShowingsKept, ShowingOK
<1>2. AnyScheduled(rows) => AnyScheduled(new)
  BY DEF ShowingsKept, AnyScheduled
<1> QED BY <1>1, <1>2

\* One column of a row is written.
LEMMA ShowingField ==
    ASSUME NEW w \in ShowingRow, NEW x
    PROVE  /\ [w EXCEPT !.status = x]
                = [status |-> x, times |-> w.times, scheduledAt |-> w.scheduledAt]
           /\ [w EXCEPT !.times = x]
                = [status |-> w.status, times |-> x, scheduledAt |-> w.scheduledAt]
           /\ [w EXCEPT !.scheduledAt = x]
                = [status |-> w.status, times |-> w.times, scheduledAt |-> x]
<1>1. w = [status |-> w.status, times |-> w.times, scheduledAt |-> w.scheduledAt]
  BY DEF ShowingRow
<1> DEFINE a == w.status
           b == w.times
           d == w.scheduledAt
<1>2. w = [status |-> a, times |-> b, scheduledAt |-> d]
  BY <1>1
<1> HIDE DEF a, b, d
<1>3. /\ [w EXCEPT !.status = x] = [status |-> x, times |-> b, scheduledAt |-> d]
      /\ [w EXCEPT !.times = x] = [status |-> a, times |-> x, scheduledAt |-> d]
      /\ [w EXCEPT !.scheduledAt = x] = [status |-> a, times |-> b, scheduledAt |-> x]
  BY <1>2
<1> QED BY <1>3 DEF a, b, d

\* A row that is written over, with its times and what they say.
LEMMA ShowingSet ==
    ASSUME ShowingsInv, NEW s \in DOMAIN showings, NEW row \in ShowingRow, Picked(row),
           DOMAIN showings[s].times \subseteq DOMAIN row.times,
           showings[s].scheduledAt # 0 => row.scheduledAt # 0,
           showings' = [showings EXCEPT ![s] = row]
    PROVE  /\ showings' \in Seq(ShowingRow) /\ ShowingsKept(showings, showings')
           /\ \A i \in DOMAIN showings' : Picked(showings'[i])
           /\ DOMAIN showings' = DOMAIN showings /\ showings'[s] = row
<1>1. showings \in Seq(ShowingRow) /\ \A i \in DOMAIN showings : Picked(showings[i])
  BY DEF ShowingsInv, ShowingsTypeOK
<1>2. /\ showings' \in Seq(ShowingRow) /\ DOMAIN showings' = DOMAIN showings
      /\ showings'[s] = row
      /\ \A i \in DOMAIN showings \ {s} : showings'[i] = showings[i]
  BY <1>1
<1>3. ShowingsKept(showings, showings')
  <2> SUFFICES ASSUME NEW i \in DOMAIN showings
               PROVE  /\ DOMAIN showings[i].times \subseteq DOMAIN showings'[i].times
                      /\ showings[i].scheduledAt # 0 => showings'[i].scheduledAt # 0
    BY <1>2 DEF ShowingsKept
  <2>1. CASE i = s
    BY <1>2, <2>1
  <2>2. CASE i # s
    BY <1>2, <2>2
  <2> QED BY <2>1, <2>2
<1>4. \A i \in DOMAIN showings' : Picked(showings'[i])
  BY <1>1, <1>2
<1> QED BY <1>2, <1>3, <1>4

\* The records of the seven kinds of call.
LEMMA ShowingCallAt ==
    ASSUME ShowingsInv, NEW r \in Slot
    PROVE  /\ At(r, "addTime") \/ At(r, "markProposed") =>
                 call[r] = [step |-> call[r].step, showing |-> call[r].showing]
                 /\ call[r].showing \in Nat
           /\ At(r, "select") \/ At(r, "markScheduled") \/ At(r, "invite") =>
                 /\ call[r] = [step |-> call[r].step, showing |-> call[r].showing,
                               time |-> call[r].time]
                 /\ call[r].showing \in Nat /\ call[r].time \in Nat
           /\ At(r, "createShowing") => call[r] = [step |-> "createShowing"]
<1>1. call[r] \in {Free} \cup ShowingCall
  BY DEF ShowingsInv, ShowingsTypeOK
<1> QED BY <1>1 DEF At, Free, ShowingCall

\* Nothing has been proposed.
LEMMA ShowingsInitInv == ShowingsInit => ShowingsInv
<1> SUFFICES ASSUME ShowingsInit PROVE ShowingsInv
  OBVIOUS
<1>1. Calls(ShowingCall) /\ \A r \in Slot : call[r] = Free
  BY NoCallsYet DEF ShowingsInit
<1>2. ShowingsTypeOK
  BY <1>1 DEF ShowingsInit, ShowingsTypeOK, TalkStatus
<1>3. \A r \in Slot : ShowingOK(showings, call[r])
  BY <1>1 DEF ShowingOK, Free
<1> QED BY <1>1, <1>2, <1>3 DEF ShowingsInit, ShowingsInv

\* What a step of a call has to show.
LEMMA ShowingSlot ==
    ASSUME ShowingsInv, NEW r \in Slot, NEW c \in {Free} \cup ShowingCall,
           call' = [call EXCEPT ![r] = c],
           showings' \in Seq(ShowingRow), ShowingsKept(showings, showings'),
           \A s \in DOMAIN showings' : Picked(showings'[s]),
           ShowingOK(showings', c),
           talk' \in TalkStatus,
           talk' = "SHOWING_SCHEDULED" => talk = "SHOWING_SCHEDULED" \/ AnyScheduled(showings'),
           invited' \subseteq Nat \X Nat,
           \A i \in invited' \ invited : i[1] \in DOMAIN showings /\ showings[i[1]].scheduledAt # 0
    PROVE  ShowingsInv'
<1>1. Calls(ShowingCall)' /\ call'[r] = c /\ \A q \in Slot \ {r} : call'[q] = call[q]
  BY CallSet DEF ShowingsInv
<1>2. ShowingsTypeOK'
  BY <1>1 DEF ShowingsInv, ShowingsTypeOK
<1>3. /\ \A d : ShowingOK(showings, d) => ShowingOK(showings', d)
      /\ AnyScheduled(showings) => AnyScheduled(showings')
  BY ShowingKept
<1>4. \A q \in Slot : ShowingOK(showings', call'[q])
  <2>1. \A q \in Slot : ShowingOK(showings, call[q])
    BY DEF ShowingsInv
  <2> QED BY <1>1, <1>3, <2>1
<1>5. talk' = "SHOWING_SCHEDULED" => AnyScheduled(showings')
  BY <1>3 DEF ShowingsInv
<1>6. \A i \in invited' : i[1] \in DOMAIN showings' /\ showings'[i[1]].scheduledAt # 0
  <2>1. \A i \in invited' : i[1] \in DOMAIN showings /\ showings[i[1]].scheduledAt # 0
    BY DEF ShowingsInv
  <2> QED BY <2>1 DEF ShowingsKept
<1> QED BY <1>1, <1>2, <1>4, <1>5, <1>6 DEF ShowingsInv

\* The same for a step that leaves the showings and the invitations alone.
LEMMA ShowingQuiet ==
    ASSUME ShowingsInv, NEW r \in Slot, NEW c \in {Free} \cup ShowingCall,
           call' = [call EXCEPT ![r] = c], UNCHANGED <<showings, invited>>,
           ShowingOK(showings, c), talk' \in TalkStatus,
           talk' = "SHOWING_SCHEDULED" => talk = "SHOWING_SCHEDULED" \/ AnyScheduled(showings)
    PROVE  ShowingsInv'
<1>1. /\ showings' \in Seq(ShowingRow) /\ invited' \subseteq Nat \X Nat
      /\ \A s \in DOMAIN showings' : Picked(showings'[s])
  BY DEF ShowingsInv, ShowingsTypeOK
<1>2. ShowingsKept(showings, showings')
  BY DEF ShowingsKept
<1> QED BY <1>1, <1>2, ShowingSlot

\* A call that starts, or ends, with at most a change of the conversation.
LEMMA ShowingEnds ==
    ASSUME ShowingsInv, NEW r \in Slot,
           BeginReply(r) \/ MarkRequested(r) \/ MarkActive(r) \/ Touch(r) \/ AbortShowing(r)
    PROVE  ShowingsInv'
<1>1. PICK c \in {Free, [step |-> "touch"]} : call' = [call EXCEPT ![r] = c]
  BY DEF BeginReply, MarkRequested, MarkActive, Touch, AbortShowing, Abort, Begin, Return
<1>2. /\ UNCHANGED <<showings, invited>>
      /\ talk' \in {talk, "SHOWING_REQUESTED", "ACTIVE"}
  BY DEF BeginReply, MarkRequested, MarkActive, Touch, AbortShowing
<1>3. c \in {Free} \cup ShowingCall /\ ShowingOK(showings, c)
  BY DEF ShowingCall, Free, ShowingOK
<1>4. talk' \in TalkStatus
  BY <1>2 DEF ShowingsInv, ShowingsTypeOK, TalkStatus
<1> QED BY <1>1, <1>2, <1>3, <1>4, ShowingQuiet

\* Proposing: a new showing, or one more time for the newest open one.
LEMMA BeginProposeStep ==
    ASSUME ShowingsInv, NEW r \in Slot, BeginPropose(r)
    PROVE  ShowingsInv'
<1>1. PICK c : /\ c \in ShowingCall /\ ShowingOK(showings, c)
               /\ call' = [call EXCEPT ![r] = c]
  <2>1. CASE Begin(r, [step |-> "createShowing"])
    BY <2>1 DEF Begin, ShowingCall, ShowingOK
  <2>2. CASE \E s \in Newest(OpenShowings) :
                 RoomForTime(s) /\ Begin(r, [step |-> "addTime", showing |-> s])
    <3>1. PICK s \in DOMAIN showings : call' = [call EXCEPT ![r] = [step |-> "addTime", showing |-> s]]
      BY <2>2 DEF Newest, OpenShowings, Begin
    <3>2. s \in Nat
      BY DEF ShowingsInv, ShowingsTypeOK
    <3> QED BY <3>1, <3>2 DEF ShowingCall, ShowingOK
  <2> QED BY <2>1, <2>2 DEF BeginPropose
<1>2. /\ UNCHANGED <<talk, showings, invited>> /\ talk \in TalkStatus
  BY DEF BeginPropose, ShowingsInv, ShowingsTypeOK
<1> QED BY <1>1, <1>2, ShowingQuiet

\* A new showing has one time, and none selected.
LEMMA CreateShowingStep ==
    ASSUME ShowingsInv, NEW r \in Slot, CreateShowing(r)
    PROVE  ShowingsInv'
<1> DEFINE row == [status |-> "REQUESTED", times |-> <<FALSE>>, scheduledAt |-> 0]
           c == [step |-> "markRequested"]
<1>1. /\ At(r, "createShowing") /\ showings' = Append(showings, row)
      /\ call' = [call EXCEPT ![r].step = "markRequested"] /\ UNCHANGED <<talk, invited>>
  BY DEF CreateShowing, Proceed
<1>2. call' = [call EXCEPT ![r] = c]
  <2>1. call[r] = [step |-> "createShowing"]
    BY <1>1, ShowingCallAt
  <2>2. [call[r] EXCEPT !.step = "markRequested"] = c
    BY <2>1
  <2> QED BY <1>1, <2>2
<1>3. c \in ShowingCall /\ c.step = "markRequested"
  BY DEF ShowingCall
<1>4. row \in ShowingRow /\ row.scheduledAt = 0
  BY DEF ShowingRow, ShowingStatus
<1>5. Picked(row)
  <2>1. row.times = <<FALSE>> /\ row.scheduledAt = 0 /\ row.status = "REQUESTED"
    OBVIOUS
  <2>2. {t \in DOMAIN <<FALSE>> : <<FALSE>>[t]} = {}
    <3>1. DOMAIN <<FALSE>> = {1} /\ <<FALSE>>[1] = FALSE
      OBVIOUS
    <3> QED BY <3>1
  <2> HIDE DEF row
  <2> QED BY <2>1, <2>2 DEF Picked
<1>6. /\ showings \in Seq(ShowingRow) /\ talk \in TalkStatus /\ invited \subseteq Nat \X Nat
      /\ \A s \in DOMAIN showings : Picked(showings[s])
  BY DEF ShowingsInv, ShowingsTypeOK
<1> HIDE DEF row, c
<1>7. /\ showings' \in Seq(ShowingRow) /\ DOMAIN showings \subseteq DOMAIN showings'
      /\ \A s \in DOMAIN showings : showings'[s] = showings[s]
      /\ \A s \in DOMAIN showings' \ DOMAIN showings : showings'[s] = row
  BY <1>1, <1>4, <1>6
<1>8. ShowingsKept(showings, showings')
  BY <1>7 DEF ShowingsKept
<1>9. \A s \in DOMAIN showings' : Picked(showings'[s])
  BY <1>5, <1>6, <1>7
<1>10. ShowingOK(showings', c)
  BY <1>3 DEF ShowingOK
<1> QED BY <1>1, <1>2, <1>3, <1>6, <1>7, <1>8, <1>9, <1>10, ShowingSlot

\* A time that is added is not selected.
LEMMA AppendTimes ==
    ASSUME NEW times \in Seq(BOOLEAN)
    PROVE  LET more == Append(times, FALSE) IN
           /\ times \in Seq(BOOLEAN) /\ more \in Seq(BOOLEAN)
           /\ DOMAIN times \subseteq DOMAIN more
           /\ \A t \in DOMAIN more : more[t] => t \in DOMAIN times
           /\ \A t \in DOMAIN times : more[t] = times[t]
<1> DEFINE more == Append(times, FALSE)
<1>1. /\ more \in Seq(BOOLEAN) /\ Len(more) = Len(times) + 1
      /\ more[Len(times) + 1] = FALSE
      /\ \A t \in 1..Len(times) : more[t] = times[t]
  BY AppendProperties
<1>2. /\ DOMAIN times = 1..Len(times) /\ DOMAIN more = 1..(Len(times) + 1)
      /\ Len(times) \in Nat
  BY <1>1
<1> HIDE DEF more
<1>3. \A t \in DOMAIN more : more[t] => t \in DOMAIN times
  BY <1>1, <1>2
<1> QED BY <1>1, <1>2, <1>3 DEF more

\* One more time, not selected; and the status that is written after it.
LEMMA ProposeStep ==
    ASSUME ShowingsInv, NEW r \in Slot, AddTime(r) \/ MarkProposed(r)
    PROVE  ShowingsInv'
<1> DEFINE s == call[r].showing
<1>1. /\ showings \in Seq(ShowingRow) /\ talk \in TalkStatus /\ invited \subseteq Nat \X Nat
      /\ \A i \in DOMAIN showings : Picked(showings[i])
  BY DEF ShowingsInv, ShowingsTypeOK
<1>2. /\ At(r, "addTime") \/ At(r, "markProposed")
      /\ s \in DOMAIN showings
      /\ call[r] = [step |-> call[r].step, showing |-> s] /\ s \in Nat
  <2>1. At(r, "addTime") \/ At(r, "markProposed")
    BY DEF AddTime, MarkProposed
  <2>2. ShowingOK(showings, call[r])
    BY DEF ShowingsInv
  <2> QED BY <2>1, <2>2, ShowingCallAt DEF ShowingOK, At
<1>3. showings[s] \in ShowingRow /\ Picked(showings[s])
  BY <1>1, <1>2
<1>4. UNCHANGED <<talk, invited>>
  BY DEF AddTime, MarkProposed
<1>5. CASE AddTime(r)
  <2> DEFINE more == Append(showings[s].times, FALSE)
             row == [status |-> showings[s].status, times |-> more,
                     scheduledAt |-> showings[s].scheduledAt]
             c == [step |-> "markProposed", showing |-> s]
  <2>1. /\ showings' = [showings EXCEPT ![s].times = Append(@, FALSE)]
        /\ call' = [call EXCEPT ![r].step = "markProposed"]
    BY <1>5 DEF AddTime, Proceed
  <2>2. showings' = [showings EXCEPT ![s] = row]
    <3>1. [showings[s] EXCEPT !.times = Append(showings[s].times, FALSE)] = row
      BY <1>3, ShowingField
    <3> QED BY <2>1, <3>1
  <2>3. call' = [call EXCEPT ![r] = c]
    <3>1. [call[r] EXCEPT !.step = "markProposed"] = c
      BY <1>2
    <3> QED BY <2>1, <3>1
  <2>4. /\ showings[s].times \in Seq(BOOLEAN) /\ more \in Seq(BOOLEAN)
        /\ DOMAIN showings[s].times \subseteq DOMAIN more
        /\ \A t \in DOMAIN more : more[t] => t \in DOMAIN showings[s].times
        /\ \A t \in DOMAIN showings[s].times : more[t] = showings[s].times[t]
    <3>1. showings[s].times \in Seq(BOOLEAN)
      BY <1>3 DEF ShowingRow
    <3> QED BY <3>1, AppendTimes
  <2>5. /\ row \in ShowingRow /\ row.times = more /\ row.status = showings[s].status
        /\ row.scheduledAt = showings[s].scheduledAt
    BY <1>3, <2>4 DEF ShowingRow
  <2>6. c \in ShowingCall /\ c.step = "markProposed" /\ c.showing = s
    BY <1>2 DEF ShowingCall
  <2> HIDE DEF row, c, more
  <2>7. Picked(row)
    <3>1. {t \in DOMAIN more : more[t]} = {t \in DOMAIN showings[s].times : showings[s].times[t]}
      BY <2>4
    <3> QED BY <1>3, <2>5, <3>1 DEF Picked
  <2>8. /\ showings' \in Seq(ShowingRow) /\ ShowingsKept(showings, showings')
        /\ \A i \in DOMAIN showings' : Picked(showings'[i])
        /\ DOMAIN showings' = DOMAIN showings
    BY <1>1, <1>2, <2>2, <2>4, <2>5, <2>7, ShowingSet
  <2>9. ShowingOK(showings', c)
    BY <1>2, <2>6, <2>8 DEF ShowingOK
  <2> QED BY <1>1, <1>4, <2>3, <2>6, <2>8, <2>9, ShowingSlot
<1>6. CASE MarkProposed(r)
  <2> DEFINE row == [status |-> "SLOT_PROPOSED", times |-> showings[s].times,
                     scheduledAt |-> showings[s].scheduledAt]
             c == [step |-> "markRequested"]
  <2>1. /\ showings' = [showings EXCEPT ![s].status = "SLOT_PROPOSED"]
        /\ call' = [call EXCEPT ![r] = c]
    BY <1>6 DEF MarkProposed
  <2>2. showings' = [showings EXCEPT ![s] = row]
    <3>1. [showings[s] EXCEPT !.status = "SLOT_PROPOSED"] = row
      BY <1>3 DEF ShowingRow
    <3> QED BY <2>1, <3>1
  <2>3. /\ row \in ShowingRow /\ row.times = showings[s].times
        /\ row.scheduledAt = showings[s].scheduledAt /\ row.status = "SLOT_PROPOSED"
    BY <1>3 DEF ShowingRow, ShowingStatus
  <2>4. c \in ShowingCall /\ ShowingOK(showings', c)
    BY DEF ShowingCall, ShowingOK
  <2> HIDE DEF row, c
  <2>5. Picked(row)
    BY <1>3, <2>3 DEF Picked
  <2>6. /\ showings' \in Seq(ShowingRow) /\ ShowingsKept(showings, showings')
        /\ \A i \in DOMAIN showings' : Picked(showings'[i])
    BY <1>1, <1>2, <2>2, <2>3, <2>5, ShowingSet
  <2> QED BY <1>1, <1>4, <2>1, <2>4, <2>6, ShowingSlot
<1> QED BY <1>5, <1>6

\* A tenant picks a time that exists.
LEMMA BeginAcceptStep ==
    ASSUME ShowingsInv, NEW r \in Slot, NEW s \in DOMAIN showings,
           NEW t \in DOMAIN showings[s].times, BeginAccept(r, s, t)
    PROVE  ShowingsInv'
<1> DEFINE c == [step |-> "select", showing |-> s, time |-> t]
<1>1. s \in Nat /\ t \in Nat /\ talk \in TalkStatus
  <2>1. showings \in Seq(ShowingRow) /\ talk \in TalkStatus
    BY DEF ShowingsInv, ShowingsTypeOK
  <2>2. showings[s] \in ShowingRow
    BY <2>1
  <2>3. showings[s].times \in Seq(BOOLEAN)
    BY <2>2 DEF ShowingRow
  <2> QED BY <2>1, <2>3
<1>2. c \in ShowingCall /\ ShowingOK(showings, c)
  BY <1>1 DEF ShowingCall, ShowingOK
<1>3. call' = [call EXCEPT ![r] = c] /\ UNCHANGED <<talk, showings, invited>>
  BY DEF BeginAccept, Begin
<1> HIDE DEF c
<1> QED BY <1>1, <1>2, <1>3, ShowingQuiet

\* The transaction: whatever was selected before, one time is afterwards.
LEMMA SelectStep ==
    ASSUME ShowingsInv, NEW r \in Slot, Select(r)
    PROVE  ShowingsInv'
<1> DEFINE s == call[r].showing
           at == call[r].time
           one == [t \in DOMAIN showings[s].times |-> t = at]
           row == [status |-> "SCHEDULED", times |-> one, scheduledAt |-> at]
           c == [step |-> "markScheduled", showing |-> s, time |-> at]
<1>1. /\ showings \in Seq(ShowingRow) /\ talk \in TalkStatus /\ invited \subseteq Nat \X Nat
      /\ \A i \in DOMAIN showings : Picked(showings[i])
  BY DEF ShowingsInv, ShowingsTypeOK
<1>2. /\ s \in DOMAIN showings /\ at \in DOMAIN showings[s].times
      /\ call[r] = [step |-> call[r].step, showing |-> s, time |-> at]
      /\ s \in Nat /\ at \in Nat
  <2>1. At(r, "select") /\ ShowingOK(showings, call[r])
    BY DEF Select, ShowingsInv
  <2> QED BY <2>1, ShowingCallAt DEF ShowingOK, At
<1>3. showings[s] \in ShowingRow /\ showings[s].times \in Seq(BOOLEAN)
  <2>1. showings[s] \in ShowingRow
    BY <1>1, <1>2
  <2> QED BY <2>1 DEF ShowingRow
<1>4. /\ one \in Seq(BOOLEAN) /\ DOMAIN one = DOMAIN showings[s].times /\ at # 0
      /\ {t \in DOMAIN one : one[t]} = {at}
  <2>1. DOMAIN showings[s].times = 1..Len(showings[s].times) /\ Len(showings[s].times) \in Nat
    BY <1>3
  <2>2. one \in [1..Len(showings[s].times) -> BOOLEAN]
    BY <2>1
  <2>3. one \in Seq(BOOLEAN)
    BY <2>1, <2>2
  <2>4. DOMAIN one = DOMAIN showings[s].times /\ \A t \in DOMAIN one : one[t] <=> t = at
    OBVIOUS
  <2> HIDE DEF one
  <2>5. {t \in DOMAIN one : one[t]} = {at}
    BY <1>2, <2>4
  <2> QED BY <1>2, <2>1, <2>3, <2>4, <2>5
<1>5. /\ row \in ShowingRow /\ row.times = one /\ row.scheduledAt = at
      /\ row.status = "SCHEDULED"
  BY <1>2, <1>4 DEF ShowingRow, ShowingStatus
<1>6. showings' = [showings EXCEPT ![s] = row]
  <2> DEFINE u == [status |-> "SCHEDULED", times |-> showings[s].times,
                   scheduledAt |-> showings[s].scheduledAt]
             v == [status |-> "SCHEDULED", times |-> showings[s].times, scheduledAt |-> at]
             rowsU == [showings EXCEPT ![s].status = "SCHEDULED"]
             rowsV == [rowsU EXCEPT ![s].scheduledAt = at]
  <2>1. showings' = [rowsV EXCEPT ![s].times = [t \in DOMAIN rowsV[s].times |-> t = at]]
    BY DEF Select
  <2>2. u \in ShowingRow /\ v \in ShowingRow
    BY <1>2, <1>3 DEF ShowingRow, ShowingStatus
  <2>3. rowsU = [showings EXCEPT ![s] = u]
    <3>1. [showings[s] EXCEPT !.status = "SCHEDULED"] = u
      BY <1>3, ShowingField
    <3> QED BY <3>1
  <2>4. [u EXCEPT !.scheduledAt = at] = v /\ [v EXCEPT !.times = one] = row
    BY <2>2, ShowingField
  <2>5. v.times = showings[s].times
    OBVIOUS
  <2> HIDE DEF u, v, rowsU, row
  <2>6. rowsV = [showings EXCEPT ![s] = v]
    <3>1. rowsU[s] = u
      BY <1>2, <2>3
    <3>2. rowsV = [rowsU EXCEPT ![s] = v]
      BY <2>4, <3>1
    <3> HIDE DEF rowsV
    <3> QED BY <2>3, <3>2
  <2> HIDE DEF rowsV
  <2>7. rowsV[s] = v
    BY <1>2, <2>6
  <2>8. [t \in DOMAIN rowsV[s].times |-> t = at] = one
    BY <2>5, <2>7
  <2> HIDE DEF one
  <2>9. showings' = [rowsV EXCEPT ![s] = row]
    BY <2>1, <2>4, <2>7, <2>8
  <2> QED BY <2>6, <2>9
<1>7. /\ call' = [call EXCEPT ![r] = c] /\ UNCHANGED <<talk, invited>>
  <2>1. /\ call' = [call EXCEPT ![r].step = "markScheduled"] /\ UNCHANGED <<talk, invited>>
    BY DEF Select, Proceed
  <2>2. [call[r] EXCEPT !.step = "markScheduled"] = c
    BY <1>2
  <2> QED BY <2>1, <2>2
<1>8. c \in ShowingCall /\ c.step = "markScheduled" /\ c.showing = s
  BY <1>2 DEF ShowingCall
<1> HIDE DEF one, row, c
<1>9. Picked(row)
  BY <1>4, <1>5 DEF Picked
<1>10. /\ showings' \in Seq(ShowingRow) /\ ShowingsKept(showings, showings')
       /\ \A i \in DOMAIN showings' : Picked(showings'[i])
       /\ DOMAIN showings' = DOMAIN showings /\ showings'[s] = row
  BY <1>1, <1>2, <1>4, <1>5, <1>6, <1>9, ShowingSet
<1>11. ShowingOK(showings', c)
  BY <1>2, <1>4, <1>5, <1>8, <1>10 DEF ShowingOK
<1> QED BY <1>1, <1>7, <1>8, <1>10, <1>11, ShowingSlot

\* The conversation is called scheduled, and invitations go out, only for a
\* showing the transaction has scheduled.
LEMMA ScheduledStep ==
    ASSUME ShowingsInv, NEW r \in Slot, MarkScheduled(r) \/ Invite(r)
    PROVE  ShowingsInv'
<1> DEFINE s == call[r].showing
<1>1. /\ s \in DOMAIN showings /\ showings[s].scheduledAt # 0
      /\ call[r] = [step |-> call[r].step, showing |-> s, time |-> call[r].time]
      /\ s \in Nat /\ call[r].time \in Nat
  <2>1. (At(r, "markScheduled") \/ At(r, "invite")) /\ ShowingOK(showings, call[r])
    BY DEF MarkScheduled, Invite, ShowingsInv
  <2> QED BY <2>1, ShowingCallAt DEF ShowingOK, At
<1>2. CASE MarkScheduled(r)
  <2> DEFINE c == [step |-> "invite", showing |-> s, time |-> call[r].time]
  <2>1. call' = [call EXCEPT ![r] = c] /\ UNCHANGED <<showings, invited>>
        /\ talk' = "SHOWING_SCHEDULED"
    <3>1. [call[r] EXCEPT !.step = "invite"] = c
      BY <1>1
    <3> QED BY <1>2, <3>1 DEF MarkScheduled, Proceed
  <2>2. c \in ShowingCall /\ ShowingOK(showings, c)
    BY <1>1 DEF ShowingCall, ShowingOK
  <2>3. AnyScheduled(showings) /\ talk' \in TalkStatus
    BY <1>1, <2>1 DEF AnyScheduled, TalkStatus
  <2> HIDE DEF c
  <2> QED BY <2>1, <2>2, <2>3, ShowingQuiet
<1>3. CASE Invite(r)
  <2>1. /\ call' = [call EXCEPT ![r] = Free] /\ UNCHANGED <<talk, showings>>
        /\ invited' = invited \cup {<<s, call[r].time>>}
    BY <1>3 DEF Invite, Return
  <2>2. /\ showings \in Seq(ShowingRow) /\ talk \in TalkStatus /\ invited \subseteq Nat \X Nat
        /\ \A i \in DOMAIN showings : Picked(showings[i])
    BY DEF ShowingsInv, ShowingsTypeOK
  <2>3. ShowingsKept(showings, showings') /\ ShowingOK(showings', Free)
    BY <2>1 DEF ShowingsKept, ShowingOK, Free
  <2>4. /\ invited' \subseteq Nat \X Nat
        /\ \A i \in invited' \ invited :
              i[1] \in DOMAIN showings /\ showings[i[1]].scheduledAt # 0
    BY <1>1, <2>1, <2>2
  <2> QED BY <2>1, <2>2, <2>3, <2>4, ShowingSlot
<1> QED BY <1>2, <1>3

\* Cancelled or completed: the selected time stays.
LEMMA CloseShowing ==
    ASSUME ShowingsInv, NEW s \in DOMAIN showings, NEW status \in {"CANCELLED", "COMPLETED"},
           showings' = [showings EXCEPT ![s].status = status]
    PROVE  /\ showings' \in Seq(ShowingRow) /\ ShowingsKept(showings, showings')
           /\ \A i \in DOMAIN showings' : Picked(showings'[i])
<1> DEFINE row == [status |-> status, times |-> showings[s].times,
                   scheduledAt |-> showings[s].scheduledAt]
<1>1. /\ showings \in Seq(ShowingRow) /\ showings[s] \in ShowingRow
      /\ \A i \in DOMAIN showings : Picked(showings[i])
  BY DEF ShowingsInv, ShowingsTypeOK
<1>2. showings' = [showings EXCEPT ![s] = row]
  <2>1. [showings[s] EXCEPT !.status = status] = row
    BY <1>1, ShowingField
  <2> QED BY <2>1
<1>3. /\ row \in ShowingRow /\ row.times = showings[s].times /\ row.status = status
      /\ row.scheduledAt = showings[s].scheduledAt
  BY <1>1 DEF ShowingRow, ShowingStatus
<1> HIDE DEF row
<1>4. Picked(row)
  BY <1>1, <1>3 DEF Picked
<1> QED BY <1>1, <1>2, <1>3, <1>4, ShowingSet

\* Every step keeps the invariant: only the transaction selects, and it clears the
\* other times of the showing with it.
LEMMA ShowingsStep == ShowingsInv /\ [ShowingsNext]_showingVars => ShowingsInv'
<1> SUFFICES ASSUME ShowingsInv, [ShowingsNext]_showingVars PROVE ShowingsInv'
  OBVIOUS
<1>1. ASSUME NEW r \in Slot, NEW s \in DOMAIN showings, Cancel(r, s) PROVE ShowingsInv'
  <2> DEFINE c == [step |-> "markActive"]
  <2>1. /\ showings' = [showings EXCEPT ![s].status = "CANCELLED"]
        /\ call' = [call EXCEPT ![r] = c] /\ UNCHANGED <<talk, invited>>
    BY <1>1 DEF Cancel, Begin
  <2>2. c \in ShowingCall /\ ShowingOK(showings', c)
    BY DEF ShowingCall, ShowingOK
  <2>3. talk \in TalkStatus /\ invited \subseteq Nat \X Nat
    BY DEF ShowingsInv, ShowingsTypeOK
  <2>4. /\ showings' \in Seq(ShowingRow) /\ ShowingsKept(showings, showings')
        /\ \A i \in DOMAIN showings' : Picked(showings'[i])
    BY <2>1, CloseShowing
  <2> HIDE DEF c
  <2> QED BY <2>1, <2>2, <2>3, <2>4, ShowingSlot
<1>2. ASSUME NEW s \in DOMAIN showings, Complete(s) PROVE ShowingsInv'
  <2>1. /\ showings' = [showings EXCEPT ![s].status = "COMPLETED"]
        /\ UNCHANGED <<talk, invited, call>>
    BY <1>2 DEF Complete
  <2>2. /\ showings' \in Seq(ShowingRow) /\ ShowingsKept(showings, showings')
        /\ \A i \in DOMAIN showings' : Picked(showings'[i])
    BY <2>1, CloseShowing
  <2>3. /\ \A d : ShowingOK(showings, d) => ShowingOK(showings', d)
        /\ AnyScheduled(showings) => AnyScheduled(showings')
    BY <2>2, ShowingKept
  <2>4. ShowingsTypeOK' /\ Calls(ShowingCall)'
    BY <2>1, <2>2 DEF ShowingsInv, ShowingsTypeOK, Calls
  <2>5. \A r \in Slot : ShowingOK(showings', call'[r])
    BY <2>1, <2>3 DEF ShowingsInv
  <2>6. \A i \in invited' : i[1] \in DOMAIN showings' /\ showings'[i[1]].scheduledAt # 0
    <3>1. \A i \in invited : i[1] \in DOMAIN showings /\ showings[i[1]].scheduledAt # 0
      BY DEF ShowingsInv
    <3> QED BY <2>1, <2>2, <3>1 DEF ShowingsKept
  <2>7. talk' = "SHOWING_SCHEDULED" => AnyScheduled(showings')
    BY <2>1, <2>3 DEF ShowingsInv
  <2> QED BY <2>2, <2>4, <2>5, <2>6, <2>7 DEF ShowingsInv
<1>3. CASE UNCHANGED showingVars
  <2>1. ShowingsTypeOK' /\ Calls(ShowingCall)'
    BY <1>3 DEF showingVars, ShowingsInv, ShowingsTypeOK, Calls
  <2>2. /\ (\A s \in DOMAIN showings : Picked(showings[s]))'
        /\ (\A r \in Slot : ShowingOK(showings, call[r]))'
        /\ (talk = "SHOWING_SCHEDULED" => AnyScheduled(showings))'
        /\ (\A i \in invited : i[1] \in DOMAIN showings /\ showings[i[1]].scheduledAt # 0)'
    BY <1>3 DEF showingVars, ShowingsInv
  <2> QED BY <2>1, <2>2 DEF ShowingsInv
<1> QED BY <1>1, <1>2, <1>3, ShowingEnds, BeginProposeStep, CreateShowingStep, ProposeStep,
           BeginAcceptStep, SelectStep, ScheduledStep DEF ShowingsNext

\* A showing that was ever scheduled has exactly one selected time, the one its
\* scheduledAt speaks of, however acceptances, proposals and cancellations overlap.
THEOREM ShowingsCorrect == ShowingsSpec => []OneTimeSelected
<1> QED BY PickedEach, ShowingsInitInv, ShowingsStep, PTL DEF ShowingsSpec

-----------------------------------------------------------------------------
(* Paper requests *)

PaperStatuses(k) == {OpenStatus[k], DoneStatus[k], WithdrawnStatus[k]}

\* The row a call works on exists; once the e-mail is awaited, it went out.
PaperCallOK(rows, c) ==
    /\ c.step \in {"email", "recordSkipped", "recordSent", "withdraw"} => c.paper \in DOMAIN rows
    /\ c.step = "recordSent" => rows[c.paper].mailed

Sends(c, i) == c.step = "recordSent" /\ c.paper = i

\* What the property says of one row; sending: a call has yet to record its e-mail.
PaperOK(row, sending) ==
    /\ row.emailSent => row.mailed
    /\ row.mailed /\ row.status = OpenStatus[row.kind] => row.lost \/ sending

\* Everything the paper requests keep true.
PapersInv ==
    /\ papers \in Seq(PaperRow) /\ assignment \in {"none", "active", "revoked"}
    /\ \A r \in Slot : call[r] \in {Free} \cup PaperCall
    /\ Calls(PaperCall)
    /\ \A r \in Slot : PaperCallOK(papers, call[r])
    /\ \A i \in DOMAIN papers : PaperOK(papers[i], \E r \in Slot : Sends(call[r], i))

\* The invariant contains the type invariant and the property.
LEMMA PapersFrom == PapersInv => PapersTypeOK /\ AnsweredMeansSent
<1> SUFFICES ASSUME PapersInv PROVE PapersTypeOK /\ AnsweredMeansSent
  OBVIOUS
<1>1. PapersTypeOK
  BY DEF PapersInv, PapersTypeOK
<1>2. AnsweredMeansSent
  BY DEF PapersInv, AnsweredMeansSent, PaperOK, Sends, Unanswered, At
<1> QED BY <1>1, <1>2

\* A row is one of the two kinds, with the statuses of its kind.
LEMMA PaperShape ==
    ASSUME NEW w \in PaperRow
    PROVE  /\ w = [kind |-> w.kind, status |-> w.status, emailSent |-> w.emailSent,
                   mailed |-> w.mailed, lost |-> w.lost]
           /\ w.kind \in PaperKind /\ w.status \in PaperStatuses(w.kind)
           /\ w.emailSent \in BOOLEAN /\ w.mailed \in BOOLEAN /\ w.lost \in BOOLEAN
<1>1. PICK k \in PaperKind : w \in [kind : {k}, status : PaperStatuses(k),
                                    emailSent : BOOLEAN, mailed : BOOLEAN, lost : BOOLEAN]
  BY DEF PaperRow, PaperStatuses
<1> QED BY <1>1

\* And the other way round.
LEMMA PaperMake ==
    ASSUME NEW k \in PaperKind, NEW s \in PaperStatuses(k),
           NEW e \in BOOLEAN, NEW m \in BOOLEAN, NEW l \in BOOLEAN
    PROVE  [kind |-> k, status |-> s, emailSent |-> e, mailed |-> m, lost |-> l] \in PaperRow
<1>1. [kind |-> k, status |-> s, emailSent |-> e, mailed |-> m, lost |-> l]
        \in [kind : {k}, status : PaperStatuses(k), emailSent : BOOLEAN, mailed : BOOLEAN,
             lost : BOOLEAN]
  OBVIOUS
<1> QED BY <1>1 DEF PaperRow, PaperStatuses

\* One column of a row is written.
LEMMA PaperField ==
    ASSUME NEW w \in PaperRow, NEW x
    PROVE  /\ [w EXCEPT !.status = x]
                = [kind |-> w.kind, status |-> x, emailSent |-> w.emailSent,
                   mailed |-> w.mailed, lost |-> w.lost]
           /\ [w EXCEPT !.emailSent = x]
                = [kind |-> w.kind, status |-> w.status, emailSent |-> x,
                   mailed |-> w.mailed, lost |-> w.lost]
           /\ [w EXCEPT !.mailed = x]
                = [kind |-> w.kind, status |-> w.status, emailSent |-> w.emailSent,
                   mailed |-> x, lost |-> w.lost]
           /\ [w EXCEPT !.lost = x]
                = [kind |-> w.kind, status |-> w.status, emailSent |-> w.emailSent,
                   mailed |-> w.mailed, lost |-> x]
<1> DEFINE k == w.kind
           s == w.status
           e == w.emailSent
           m == w.mailed
           l == w.lost
<1>1. w = [kind |-> k, status |-> s, emailSent |-> e, mailed |-> m, lost |-> l]
  BY PaperShape
<1> HIDE DEF k, s, e, m, l
<1>2. /\ [w EXCEPT !.status = x]
            = [kind |-> k, status |-> x, emailSent |-> e, mailed |-> m, lost |-> l]
      /\ [w EXCEPT !.emailSent = x]
            = [kind |-> k, status |-> s, emailSent |-> x, mailed |-> m, lost |-> l]
      /\ [w EXCEPT !.mailed = x]
            = [kind |-> k, status |-> s, emailSent |-> e, mailed |-> x, lost |-> l]
      /\ [w EXCEPT !.lost = x]
            = [kind |-> k, status |-> s, emailSent |-> e, mailed |-> m, lost |-> x]
  BY <1>1
<1> QED BY <1>2 DEF k, s, e, m, l

\* The records of the five kinds of call.
LEMMA PaperCallAt ==
    ASSUME PapersInv, NEW r \in Slot
    PROVE  /\ At(r, "createPaper") => call[r].kind \in PaperKind
           /\ At(r, "email") \/ At(r, "recordSkipped") \/ At(r, "recordSent") \/ At(r, "withdraw")
                 => /\ call[r] = [step |-> call[r].step, paper |-> call[r].paper]
                    /\ call[r].paper \in DOMAIN papers /\ papers[call[r].paper] \in PaperRow
           /\ At(r, "recordSent") => papers[call[r].paper].mailed
<1>1. /\ call[r] \in {Free} \cup PaperCall /\ PaperCallOK(papers, call[r])
      /\ papers \in Seq(PaperRow)
  BY DEF PapersInv
<1>2. /\ At(r, "createPaper") => call[r].kind \in PaperKind
      /\ At(r, "email") \/ At(r, "recordSkipped") \/ At(r, "recordSent") \/ At(r, "withdraw")
            => call[r] = [step |-> call[r].step, paper |-> call[r].paper]
  BY <1>1 DEF At, Free, PaperCall
<1>3. At(r, "email") \/ At(r, "recordSkipped") \/ At(r, "recordSent") \/ At(r, "withdraw")
          => call[r].paper \in DOMAIN papers
  BY <1>1 DEF At, PaperCallOK
<1>4. call[r].paper \in DOMAIN papers => papers[call[r].paper] \in PaperRow
  BY <1>1
<1> QED BY <1>1, <1>2, <1>3, <1>4 DEF At, PaperCallOK

\* Nothing was asked for.
LEMMA PapersInitInv == PapersInit => PapersInv
<1> SUFFICES ASSUME PapersInit PROVE PapersInv
  OBVIOUS
<1>1. Calls(PaperCall) /\ \A r \in Slot : call[r] = Free
  BY NoCallsYet DEF PapersInit
<1>2. \A r \in Slot : PaperCallOK(papers, call[r])
  BY <1>1 DEF PaperCallOK, Free
<1> QED BY <1>1, <1>2 DEF PapersInit, PapersInv

\* What a step of a call has to show: of its own slot, and of every row that it is
\* answered, lost, or still awaited by whoever awaited it.
LEMMA PaperSlot ==
    ASSUME PapersInv, NEW r \in Slot, NEW c \in {Free} \cup PaperCall,
           call' = [call EXCEPT ![r] = c], assignment' \in {"none", "active", "revoked"},
           papers' \in Seq(PaperRow), DOMAIN papers \subseteq DOMAIN papers',
           \A i \in DOMAIN papers : papers[i].mailed => papers'[i].mailed,
           PaperCallOK(papers', c),
           \A i \in DOMAIN papers' :
               \/ PaperOK(papers'[i], Sends(c, i))
               \/ i \in DOMAIN papers /\ papers'[i] = papers[i] /\ ~Sends(call[r], i)
    PROVE  PapersInv'
<1>1. Calls(PaperCall)' /\ call'[r] = c /\ \A q \in Slot \ {r} : call'[q] = call[q]
  BY CallSet DEF PapersInv
<1>2. \A q \in Slot : call'[q] \in {Free} \cup PaperCall
  BY <1>1 DEF PapersInv
<1>3. \A q \in Slot : PaperCallOK(papers', call'[q])
  <2> SUFFICES ASSUME NEW q \in Slot, q # r PROVE PaperCallOK(papers', call'[q])
    BY <1>1
  <2>1. PaperCallOK(papers, call[q]) /\ call'[q] = call[q]
    BY <1>1 DEF PapersInv
  <2> QED BY <2>1 DEF PaperCallOK
<1>4. \A i \in DOMAIN papers' : PaperOK(papers'[i], \E q \in Slot : Sends(call'[q], i))
  <2> SUFFICES ASSUME NEW i \in DOMAIN papers'
               PROVE  PaperOK(papers'[i], \E q \in Slot : Sends(call'[q], i))
    OBVIOUS
  <2>1. CASE PaperOK(papers'[i], Sends(c, i))
    BY <1>1, <2>1 DEF PaperOK
  <2>2. CASE i \in DOMAIN papers /\ papers'[i] = papers[i] /\ ~Sends(call[r], i)
    <3>1. PaperOK(papers[i], \E q \in Slot : Sends(call[q], i))
      BY <2>2 DEF PapersInv
    <3>2. (\E q \in Slot : Sends(call[q], i)) => \E q \in Slot : Sends(call'[q], i)
      BY <1>1, <2>2
    <3> QED BY <2>2, <3>1, <3>2 DEF PaperOK
  <2> QED BY <2>1, <2>2
<1> QED BY <1>1, <1>2, <1>3, <1>4 DEF PapersInv

\* The same for a step that leaves the rows alone.
LEMMA PaperQuiet ==
    ASSUME PapersInv, NEW r \in Slot, NEW c \in {Free} \cup PaperCall,
           call' = [call EXCEPT ![r] = c], UNCHANGED <<papers, assignment>>,
           PaperCallOK(papers, c), ~At(r, "recordSent")
    PROVE  PapersInv'
<1>1. papers \in Seq(PaperRow) /\ assignment \in {"none", "active", "revoked"}
  BY DEF PapersInv
<1>2. \A i \in DOMAIN papers : ~Sends(call[r], i)
  BY DEF Sends, At
<1> QED BY <1>1, <1>2, PaperSlot

\* The same for a step that writes one row, the one its call is about.
LEMMA PaperSet ==
    ASSUME PapersInv, NEW r \in Slot, NEW c \in {Free} \cup PaperCall,
           call' = [call EXCEPT ![r] = c], assignment' = assignment,
           NEW i \in DOMAIN papers, NEW row \in PaperRow, papers' = [papers EXCEPT ![i] = row],
           call[r].paper = i, papers[i].mailed => row.mailed,
           c = Free \/ (c = [step |-> "recordSent", paper |-> i] /\ row.mailed),
           PaperOK(row, c # Free)
    PROVE  PapersInv'
<1>1. papers \in Seq(PaperRow) /\ assignment \in {"none", "active", "revoked"}
  BY DEF PapersInv
<1>2. /\ papers' \in Seq(PaperRow) /\ DOMAIN papers' = DOMAIN papers /\ papers'[i] = row
      /\ \A j \in DOMAIN papers \ {i} : papers'[j] = papers[j]
  BY <1>1
<1>3. PaperCallOK(papers', c)
  BY <1>2 DEF PaperCallOK, Free
<1>4. \A j \in DOMAIN papers' :
          \/ PaperOK(papers'[j], Sends(c, j))
          \/ j \in DOMAIN papers /\ papers'[j] = papers[j] /\ ~Sends(call[r], j)
  <2> SUFFICES ASSUME NEW j \in DOMAIN papers'
               PROVE  \/ PaperOK(papers'[j], Sends(c, j))
                      \/ j \in DOMAIN papers /\ papers'[j] = papers[j] /\ ~Sends(call[r], j)
    OBVIOUS
  <2>1. CASE j = i
    <3>1. c # Free => Sends(c, i)
      BY DEF Sends
    <3> QED BY <1>2, <2>1, <3>1 DEF PaperOK
  <2>2. CASE j # i
    BY <1>2, <2>2 DEF Sends
  <2> QED BY <2>1, <2>2
<1>5. \A j \in DOMAIN papers : papers[j].mailed => papers'[j].mailed
  BY <1>2
<1> QED BY <1>1, <1>2, <1>3, <1>4, <1>5, PaperSlot

\* A call starts on a row that exists, or to make one.
LEMMA BeginPaperStep ==
    ASSUME PapersInv, NEW r \in Slot,
           \/ \E k \in PaperKind : BeginCreatePaper(r, k)
           \/ \E i \in DOMAIN papers : BeginSubmit(r, i) \/ BeginWithdraw(r, i)
    PROVE  PapersInv'
<1>1. papers \in Seq(PaperRow)
  BY DEF PapersInv
<1>2. CASE \E k \in PaperKind : BeginCreatePaper(r, k)
  <2>1. PICK k \in PaperKind : BeginCreatePaper(r, k)
    BY <1>2
  <2> DEFINE c == [step |-> "createPaper", kind |-> k]
  <2>2. c \in PaperCall /\ PaperCallOK(papers, c)
    BY DEF PaperCall, PaperCallOK
  <2>3. /\ call' = [call EXCEPT ![r] = c] /\ UNCHANGED <<papers, assignment>>
        /\ ~At(r, "recordSent")
    BY <2>1 DEF BeginCreatePaper, Begin, At
  <2> HIDE DEF c
  <2> QED BY <2>2, <2>3, PaperQuiet
<1>3. CASE \E i \in DOMAIN papers : BeginSubmit(r, i) \/ BeginWithdraw(r, i)
  <2>1. PICK i \in DOMAIN papers : BeginSubmit(r, i) \/ BeginWithdraw(r, i)
    BY <1>3
  <2>2. PICK step \in {"email", "recordSkipped", "withdraw"} :
           Begin(r, [step |-> step, paper |-> i])
    BY <2>1 DEF BeginSubmit, BeginWithdraw
  <2> DEFINE c == [step |-> step, paper |-> i]
  <2>3. c \in PaperCall /\ PaperCallOK(papers, c)
    BY <1>1 DEF PaperCall, PaperCallOK
  <2>4. /\ call' = [call EXCEPT ![r] = c] /\ UNCHANGED <<papers, assignment>>
        /\ ~At(r, "recordSent")
    BY <2>1, <2>2 DEF BeginSubmit, BeginWithdraw, Begin, At
  <2> HIDE DEF c
  <2> QED BY <2>3, <2>4, PaperQuiet
<1> QED BY <1>2, <1>3

\* A new row is open, and nothing was mailed under it.
LEMMA CreatePaperStep ==
    ASSUME PapersInv, NEW r \in Slot, CreatePaper(r)
    PROVE  PapersInv'
<1> DEFINE k == call[r].kind
           row == [kind |-> k, status |-> OpenStatus[k], emailSent |-> FALSE,
                   mailed |-> FALSE, lost |-> FALSE]
<1>1. /\ papers \in Seq(PaperRow) /\ assignment \in {"none", "active", "revoked"}
      /\ At(r, "createPaper") /\ k \in PaperKind
      /\ papers' = Append(papers, row) /\ assignment' = assignment
      /\ call' = [call EXCEPT ![r] = Free]
  BY PaperCallAt DEF CreatePaper, Return, PapersInv
<1>2. row \in PaperRow /\ row.mailed = FALSE /\ row.emailSent = FALSE
  BY <1>1, PaperMake DEF PaperStatuses
<1> HIDE DEF row, k
<1>3. /\ papers' \in Seq(PaperRow) /\ DOMAIN papers \subseteq DOMAIN papers'
      /\ \A i \in DOMAIN papers : papers'[i] = papers[i]
      /\ \A i \in DOMAIN papers' \ DOMAIN papers : papers'[i] = row
  BY <1>1, <1>2
<1>4. PaperCallOK(papers', Free)
  BY DEF PaperCallOK, Free
<1>5. \A i \in DOMAIN papers' :
          \/ PaperOK(papers'[i], Sends(Free, i))
          \/ i \in DOMAIN papers /\ papers'[i] = papers[i] /\ ~Sends(call[r], i)
  <2>1. \A i : ~Sends(call[r], i)
    BY <1>1 DEF Sends, At
  <2>2. \A b : PaperOK(row, b)
    BY <1>2 DEF PaperOK
  <2> QED BY <1>3, <2>1, <2>2
<1> QED BY <1>1, <1>3, <1>4, <1>5, PaperSlot

\* The e-mail goes out, and its call is the one that records it.
LEMMA EmailStep ==
    ASSUME PapersInv, NEW r \in Slot, Email(r)
    PROVE  PapersInv'
<1> DEFINE i == call[r].paper
           row == [papers[i] EXCEPT !.mailed = TRUE]
           c == [step |-> "recordSent", paper |-> i]
<1>1. /\ At(r, "email") /\ i \in DOMAIN papers /\ papers[i] \in PaperRow
      /\ call[r] = [step |-> call[r].step, paper |-> i] /\ papers \in Seq(PaperRow)
  BY PaperCallAt DEF Email, PapersInv
<1>2. /\ row = [kind |-> papers[i].kind, status |-> papers[i].status,
                emailSent |-> papers[i].emailSent, mailed |-> TRUE, lost |-> papers[i].lost]
  BY <1>1, PaperField
<1>3. row \in PaperRow
  <2>1. /\ papers[i].kind \in PaperKind /\ papers[i].status \in PaperStatuses(papers[i].kind)
        /\ papers[i].emailSent \in BOOLEAN /\ papers[i].lost \in BOOLEAN /\ TRUE \in BOOLEAN
    BY <1>1, PaperShape
  <2> HIDE DEF row
  <2> QED BY <1>2, <2>1, PaperMake
<1>4. row.mailed
  BY <1>2
<1>5. papers' = [papers EXCEPT ![i] = row] /\ assignment' = assignment
  BY DEF Email
<1>6. call' = [call EXCEPT ![r] = c]
  <2>1. [call[r] EXCEPT !.step = "recordSent"] = c
    BY <1>1
  <2> QED BY <2>1 DEF Email, Proceed
<1>7. c \in PaperCall /\ c # Free
  BY <1>1 DEF PaperCall, Free
<1>8. PaperOK(row, c # Free)
  BY <1>4, <1>7 DEF PaperOK
<1>9. c = [step |-> "recordSent", paper |-> i] /\ call[r].paper = i
  OBVIOUS
<1> HIDE DEF row, c, i
<1> QED BY <1>1, <1>3, <1>4, <1>5, <1>6, <1>7, <1>8, <1>9, PaperSet

\* An answer or a withdrawal closes the row; a call that dies after the e-mail is
\* the one way to leave it open.
LEMMA ClosePaperStep ==
    ASSUME PapersInv, NEW r \in Slot, RecordAnswer(r) \/ Withdraw(r)
    PROVE  PapersInv'
<1> DEFINE i == call[r].paper
           w == papers[i]
<1>1. /\ At(r, "recordSent") \/ At(r, "recordSkipped") \/ At(r, "withdraw")
      /\ i \in DOMAIN papers /\ w \in PaperRow /\ papers \in Seq(PaperRow)
      /\ At(r, "recordSent") => w.mailed
      /\ call' = [call EXCEPT ![r] = Free] /\ assignment' = assignment
  BY PaperCallAt DEF RecordAnswer, Withdraw, Return, PapersInv
<1>2. /\ w.kind \in PaperKind /\ w.emailSent \in BOOLEAN /\ w.mailed \in BOOLEAN
      /\ w.lost \in BOOLEAN
  BY <1>1, PaperShape
<1>3. PaperOK(w, \E q \in Slot : Sends(call[q], i))
  BY <1>1 DEF PapersInv
<1>4. PICK row \in PaperRow :
         /\ papers' = [papers EXCEPT ![i] = row]
         /\ row.kind = w.kind /\ row.status # OpenStatus[w.kind]
         /\ row.mailed = w.mailed /\ (row.emailSent => w.mailed)
  <2>1. CASE RecordAnswer(r)
    <3> DEFINE sent == At(r, "recordSent")
               u == [kind |-> w.kind, status |-> DoneStatus[w.kind],
                     emailSent |-> w.emailSent, mailed |-> w.mailed, lost |-> w.lost]
               row == [kind |-> w.kind, status |-> DoneStatus[w.kind], emailSent |-> sent,
                       mailed |-> w.mailed, lost |-> w.lost]
               closed == [papers EXCEPT ![i].status = DoneStatus[papers[i].kind]]
    <3>1. papers' = [closed EXCEPT ![i].emailSent = sent] /\ sent \in BOOLEAN
      BY <2>1 DEF RecordAnswer, Closed, At
    <3>2. u \in PaperRow /\ row \in PaperRow
      BY <1>2, <3>1, PaperMake DEF PaperStatuses
    <3>3. closed = [papers EXCEPT ![i] = u]
      <4>1. [w EXCEPT !.status = DoneStatus[w.kind]] = u
        BY <1>1, PaperField
      <4> QED BY <4>1
    <3>4. [u EXCEPT !.emailSent = sent] = row
      BY <3>2, PaperField
    <3>5. /\ row.kind = w.kind /\ row.status # OpenStatus[w.kind] /\ row.mailed = w.mailed
          /\ row.emailSent => w.mailed
      BY <1>1, <1>2 DEF DoneStatus, OpenStatus, PaperKind
    <3> HIDE DEF u, row, closed, sent
    <3>6. papers' = [papers EXCEPT ![i] = row]
      <4>1. closed[i] = u
        BY <1>1, <3>3
      <4>2. papers' = [closed EXCEPT ![i] = row]
        BY <3>1, <3>4, <4>1
      <4> QED BY <3>3, <4>2
    <3> QED BY <3>2, <3>5, <3>6
  <2>2. CASE Withdraw(r)
    <3> DEFINE row == [kind |-> w.kind, status |-> WithdrawnStatus[w.kind],
                       emailSent |-> w.emailSent, mailed |-> w.mailed, lost |-> w.lost]
    <3>1. papers' = [papers EXCEPT ![i] = row]
      <4>1. [w EXCEPT !.status = WithdrawnStatus[w.kind]] = row
        BY <1>1, PaperField
      <4> QED BY <2>2, <4>1 DEF Withdraw, Closed
    <3>2. row \in PaperRow
      BY <1>2, PaperMake DEF PaperStatuses
    <3>3. row.kind = w.kind /\ row.status # OpenStatus[w.kind] /\ row.mailed = w.mailed
      BY <1>2 DEF WithdrawnStatus, OpenStatus, PaperKind
    <3>4. row.emailSent => w.mailed
      BY <1>3 DEF PaperOK
    <3> QED BY <3>1, <3>2, <3>3, <3>4
  <2> QED BY <2>1, <2>2
<1>5. \A b : PaperOK(row, b)
  BY <1>4 DEF PaperOK
<1> HIDE DEF w
<1> QED BY <1>1, <1>4, <1>5, PaperSet DEF w

\* A call that dies.
LEMMA AbortPaperStep ==
    ASSUME PapersInv, NEW r \in Slot, AbortPaper(r)
    PROVE  PapersInv'
<1> DEFINE i == call[r].paper
<1>1. call' = [call EXCEPT ![r] = Free] /\ assignment' = assignment
  BY DEF AbortPaper, Abort, Return
<1>2. CASE At(r, "recordSent")
  <2> DEFINE row == [papers[i] EXCEPT !.lost = TRUE]
  <2>1. /\ i \in DOMAIN papers /\ papers[i] \in PaperRow /\ papers[i].mailed
    BY <1>2, PaperCallAt
  <2>2. row = [kind |-> papers[i].kind, status |-> papers[i].status,
               emailSent |-> papers[i].emailSent, mailed |-> papers[i].mailed, lost |-> TRUE]
    BY <2>1, PaperField
  <2>3. row \in PaperRow
    <3>1. /\ papers[i].kind \in PaperKind /\ papers[i].status \in PaperStatuses(papers[i].kind)
          /\ papers[i].emailSent \in BOOLEAN /\ papers[i].mailed \in BOOLEAN /\ TRUE \in BOOLEAN
      BY <2>1, PaperShape
    <3> HIDE DEF row
    <3> QED BY <2>2, <3>1, PaperMake
  <2>4. papers' = [papers EXCEPT ![i] = row]
    BY <1>2 DEF AbortPaper
  <2>5. row.mailed = papers[i].mailed /\ row.lost
    BY <2>2
  <2> HIDE DEF row
  <2>6. \A b : PaperOK(row, b)
    BY <2>1, <2>5 DEF PaperOK
  <2> QED BY <1>1, <2>1, <2>3, <2>4, <2>5, <2>6, PaperSet
<1>3. CASE ~At(r, "recordSent")
  <2>1. papers' = papers /\ PaperCallOK(papers, Free)
    BY <1>3 DEF AbortPaper, PaperCallOK, Free
  <2> QED BY <1>1, <1>3, <2>1, PaperQuiet
<1> QED BY <1>2, <1>3

\* Every step keeps the invariant.
LEMMA PapersStep == PapersInv /\ [PapersNext]_paperVars => PapersInv'
<1> SUFFICES ASSUME PapersInv, [PapersNext]_paperVars PROVE PapersInv'
  OBVIOUS
<1>1. CASE Assign \/ RevokeAssignment \/ UNCHANGED paperVars
  <2>1. /\ papers' = papers /\ call' = call /\ assignment' \in {"none", "active", "revoked"}
    BY <1>1 DEF Assign, RevokeAssignment, paperVars, PapersInv
  <2>2. /\ (\A r \in Slot : call[r] \in {Free} \cup PaperCall)'
        /\ Calls(PaperCall)'
        /\ (\A r \in Slot : PaperCallOK(papers, call[r]))'
        /\ (\A i \in DOMAIN papers : PaperOK(papers[i], \E r \in Slot : Sends(call[r], i)))'
    BY <2>1 DEF PapersInv, Calls
  <2> QED BY <2>1, <2>2 DEF PapersInv
<1> QED BY <1>1, BeginPaperStep, CreatePaperStep, EmailStep, ClosePaperStep, AbortPaperStep
        DEF PapersNext

\* A row that says its paper was e-mailed means it, and a paper is out under an
\* open row only if its call is in flight or was lost.
THEOREM PapersCorrect == PapersSpec => []AnsweredMeansSent
<1> QED BY PapersFrom, PapersInitInv, PapersStep, PTL DEF PapersSpec

-----------------------------------------------------------------------------
(* The rate limiter *)

\* Call c was counted within the limit of key k's window and has yet to go on.
Admits(c, k) == c.step # "free" /\ c.key = k /\ c.count <= Limit
Admitted(k) == {r \in Slot : Admits(call[r], k)}

\* Who was let through or will be, was counted, and at most the limit.
LetThrough(k) ==
    /\ windows[k].allowed + Cardinality(Admitted(k)) <= windows[k].count
    /\ windows[k].allowed + Cardinality(Admitted(k)) <= Limit

Ends(w, expiring) == w.count > 0 /\ ~w.ends => w.lost \/ expiring
Expiring(k) == \E r \in Slot : call[r].step = "expire" /\ call[r].key = k

\* Everything the limiter keeps true of its windows and calls.
LimiterInv ==
    /\ windows \in [LimitKey -> Window]
    /\ \A r \in Slot : call[r] \in {Free} \cup LimiterCall
    /\ Calls(LimiterCall)
    /\ \A k \in LimitKey : LetThrough(k) /\ Ends(windows[k], Expiring(k))

\* The invariant contains the type invariant and the property.
LEMMA LimiterFrom == LimiterInv => LimiterTypeOK /\ WindowsLimitAndEnd
<1> SUFFICES ASSUME LimiterInv PROVE LimiterTypeOK /\ WindowsLimitAndEnd
  OBVIOUS
<1>1. LimiterTypeOK
  BY DEF LimiterInv, LimiterTypeOK
<1>2. ASSUME NEW k \in LimitKey
      PROVE  /\ windows[k].allowed <= Limit
             /\ windows[k].count > 0 /\ ~windows[k].ends =>
                   windows[k].lost \/ \E r \in Slot : At(r, "expire") /\ call[r].key = k
  <2>1. LetThrough(k) /\ Ends(windows[k], Expiring(k)) /\ windows[k] \in Window
    BY DEF LimiterInv
  <2>2. Cardinality(Admitted(k)) \in Nat
    BY ApiCallsAssumption, FS_Subset, FS_CardinalityType DEF Admitted
  <2>3. windows[k].allowed <= Limit
    BY <2>1, <2>2, LimiterAssumption DEF LetThrough, Window
  <2> QED BY <2>1, <2>3 DEF Ends, Expiring, At
<1> QED BY <1>1, <1>2 DEF WindowsLimitAndEnd

\* The record of a call.
LEMMA LimiterCallAt ==
    ASSUME LimiterInv, NEW r \in Slot, call[r].step # "free"
    PROVE  /\ call[r] = [step |-> call[r].step, key |-> call[r].key, count |-> call[r].count]
           /\ call[r].step \in {"expire", "decide"} /\ call[r].key \in LimitKey
           /\ call[r].count \in 1..(Limit + 1)
<1>1. call[r] \in {Free} \cup LimiterCall
  BY DEF LimiterInv
<1> QED BY <1>1 DEF Free, LimiterCall

\* Nothing was counted.
LEMMA LimiterInitInv == LimiterInit => LimiterInv
<1> SUFFICES ASSUME LimiterInit PROVE LimiterInv
  OBVIOUS
<1>1. Calls(LimiterCall) /\ \A r \in Slot : call[r] = Free
  BY NoCallsYet DEF LimiterInit
<1>2. windows \in [LimitKey -> Window] /\ \A k \in LimitKey : windows[k] = Fresh
  BY LimiterAssumption DEF LimiterInit, Window, Fresh
<1>3. ASSUME NEW k \in LimitKey PROVE LetThrough(k) /\ Ends(windows[k], Expiring(k))
  <2>1. Admitted(k) = {}
    BY <1>1 DEF Admitted, Admits, Free
  <2>2. Cardinality(Admitted(k)) = 0
    BY <2>1, FS_EmptySet
  <2>3. windows[k].count = 0 /\ windows[k].allowed = 0
    BY <1>2 DEF Fresh
  <2> QED BY <2>2, <2>3, LimiterAssumption DEF LetThrough, Ends
<1> QED BY <1>1, <1>2, <1>3 DEF LimiterInv

\* A step of one call about key k: the other keys are as they were, and of this
\* one it has to show what the call adds to or takes from those let through.
LEMMA LimiterSlot ==
    ASSUME LimiterInv, NEW r \in Slot, NEW c \in {Free} \cup LimiterCall, NEW k \in LimitKey,
           NEW w \in Window,
           call' = [call EXCEPT ![r] = c], windows' = [windows EXCEPT ![k] = w],
           c.step # "free" => c.key = k,
           call[r].step # "free" => call[r].key = k,
           LET n == w.allowed + Cardinality(Admitted(k))
               m == IF Admits(c, k) /\ ~Admits(call[r], k) THEN n + 1 ELSE n
           IN  IF Admits(call[r], k) /\ ~Admits(c, k) THEN m <= w.count + 1 /\ m <= Limit + 1
               ELSE m <= w.count /\ m <= Limit,
           \/ Ends(w, c.step = "expire")
           \/ /\ call[r].step # "expire"
              /\ w.count > 0 /\ ~w.ends => windows[k].count > 0 /\ ~windows[k].ends
              /\ windows[k].lost => w.lost
    PROVE  LimiterInv'
<1>1. Calls(LimiterCall)' /\ call'[r] = c /\ \A q \in Slot \ {r} : call'[q] = call[q]
  BY CallSet DEF LimiterInv
<1>2. \A q \in Slot : call'[q] \in {Free} \cup LimiterCall
  BY <1>1 DEF LimiterInv
<1>3. /\ windows \in [LimitKey -> Window] /\ windows' \in [LimitKey -> Window]
      /\ windows'[k] = w /\ \A j \in LimitKey \ {k} : windows'[j] = windows[j]
  BY DEF LimiterInv
<1>4. \A j \in LimitKey : LetThrough(j) /\ Ends(windows[j], Expiring(j))
  BY DEF LimiterInv
<1>5. \A j \in LimitKey : \A q \in Slot \ {r} : q \in Admitted(j) <=> q \in Admitted(j)'
  BY <1>1 DEF Admitted
<1>6. \A j \in LimitKey : (r \in Admitted(j) <=> Admits(call[r], j))
                          /\ (r \in Admitted(j)' <=> Admits(c, j))
  BY <1>1 DEF Admitted
<1>7. ASSUME NEW j \in LimitKey, j # k PROVE LetThrough(j)' /\ Ends(windows'[j], Expiring(j)')
  <2>1. Cardinality(Admitted(j)') = Cardinality(Admitted(j))
    <3>1. ~Admits(call[r], j) /\ ~Admits(c, j)
      BY <1>7 DEF Admits
    <3>2. Admitted(j)' \subseteq Slot /\ Admitted(j) \subseteq Slot
      BY DEF Admitted
    <3> QED BY <1>5, <1>6, <3>1, <3>2, OneMoves
  <2>2. Expiring(j) => Expiring(j)'
    BY <1>1, <1>7 DEF Expiring
  <2> QED BY <1>3, <1>4, <1>7, <2>1, <2>2 DEF LetThrough, Ends
<1>8. LetThrough(k)'
  <2>1. Admitted(k)' \subseteq Slot /\ Admitted(k) \subseteq Slot
    BY DEF Admitted
  <2>2. /\ Cardinality(Admitted(k)) \in Nat /\ Cardinality(Admitted(k)') \in Nat
        /\ (Admits(call[r], k) <=> Admits(c, k)) =>
              Cardinality(Admitted(k)') = Cardinality(Admitted(k))
        /\ ~Admits(call[r], k) /\ Admits(c, k) =>
              Cardinality(Admitted(k)') = Cardinality(Admitted(k)) + 1
        /\ Admits(call[r], k) /\ ~Admits(c, k) =>
              Cardinality(Admitted(k)) = Cardinality(Admitted(k)') + 1
    BY <1>5, <1>6, <2>1, OneMoves
  <2>3. w.allowed \in Nat /\ w.count \in Nat /\ Limit \in Nat
    BY LimiterAssumption DEF Window
  <2>4. /\ w.allowed + Cardinality(Admitted(k)') <= w.count
        /\ w.allowed + Cardinality(Admitted(k)') <= Limit
    BY <2>2, <2>3
  <2> QED BY <1>3, <2>4 DEF LetThrough
<1>9. Ends(windows'[k], Expiring(k)')
  <2>1. c.step = "expire" => Expiring(k)'
    BY <1>1 DEF Expiring
  <2>2. Expiring(k) /\ call[r].step # "expire" => Expiring(k)'
    BY <1>1 DEF Expiring
  <2> QED BY <1>3, <1>4, <2>1, <2>2 DEF Ends
<1> QED BY <1>1, <1>2, <1>3, <1>7, <1>8, <1>9 DEF LimiterInv

\* The counter is incremented: who it counts within the limit will be let through.
LEMMA IncrStep ==
    ASSUME LimiterInv, NEW r \in Slot, NEW k \in LimitKey, Incr(r, k)
    PROVE  LimiterInv'
<1> DEFINE n == IF windows[k].count > Limit THEN Limit + 1 ELSE windows[k].count + 1
           w == [windows[k] EXCEPT !.count = n]
           c == [step |-> IF n = 1 THEN "expire" ELSE "decide", key |-> k, count |-> n]
<1>1. /\ windows \in [LimitKey -> Window] /\ windows[k] \in Window /\ Limit \in Nat \ {0}
      /\ LetThrough(k) /\ Ends(windows[k], Expiring(k))
  BY LimiterAssumption DEF LimiterInv
<1>2. windows[k].count \in 0..(Limit + 1) /\ windows[k].allowed \in Nat
  BY <1>1 DEF Window
<1>3. n \in 1..(Limit + 1) /\ (n = 1 <=> windows[k].count = 0) /\ n >= windows[k].count
      /\ (n <= Limit => n = windows[k].count + 1)
  BY <1>1, <1>2
<1>4. /\ windows' = [windows EXCEPT ![k] = w] /\ call' = [call EXCEPT ![r] = c]
      /\ call[r].step = "free"
  BY DEF Incr, Begin, At
<1>5. /\ w \in Window /\ w.count = n /\ w.allowed = windows[k].allowed
      /\ w.ends = windows[k].ends /\ w.lost = windows[k].lost
  BY <1>1, <1>3 DEF Window
<1>6. /\ c \in LimiterCall /\ c.key = k /\ c.count = n /\ c.step \in {"expire", "decide"}
      /\ (c.step = "expire" <=> n = 1)
  BY <1>3 DEF LimiterCall
<1> HIDE DEF n, w, c
<1>7. Cardinality(Admitted(k)) \in Nat
  BY ApiCallsAssumption, FS_Subset, FS_CardinalityType DEF Admitted
<1>8. ~Admits(call[r], k) /\ (Admits(c, k) <=> n <= Limit)
  BY <1>4, <1>6 DEF Admits
<1>9. LET s == w.allowed + Cardinality(Admitted(k))
          m == IF Admits(c, k) /\ ~Admits(call[r], k) THEN s + 1 ELSE s
      IN  IF Admits(call[r], k) /\ ~Admits(c, k) THEN m <= w.count + 1 /\ m <= Limit + 1
          ELSE m <= w.count /\ m <= Limit
  BY <1>1, <1>2, <1>3, <1>5, <1>7, <1>8 DEF LetThrough
<1>10. \/ Ends(w, c.step = "expire")
       \/ /\ call[r].step # "expire"
          /\ w.count > 0 /\ ~w.ends => windows[k].count > 0 /\ ~windows[k].ends
          /\ windows[k].lost => w.lost
  BY <1>2, <1>3, <1>4, <1>5, <1>6 DEF Ends
<1> QED BY <1>4, <1>5, <1>6, <1>9, <1>10, LimiterSlot

\* The call that opened the window gives it its end.
LEMMA ExpireStep ==
    ASSUME LimiterInv, NEW r \in Slot, Expire(r)
    PROVE  LimiterInv'
<1> DEFINE k == call[r].key
           w == [windows[k] EXCEPT !.ends = TRUE]
           c == [step |-> "decide", key |-> k, count |-> call[r].count]
<1>1. /\ call[r].step = "expire" /\ k \in LimitKey /\ call[r].count \in 1..(Limit + 1)
      /\ call[r] = [step |-> "expire", key |-> k, count |-> call[r].count]
  BY LimiterCallAt DEF Expire, At
<1>2. windows \in [LimitKey -> Window] /\ windows[k] \in Window /\ LetThrough(k)
  BY <1>1 DEF LimiterInv
<1>3. windows' = [windows EXCEPT ![k] = w]
  BY DEF Expire
<1>4. call' = [call EXCEPT ![r] = c]
  <2>1. [call[r] EXCEPT !.step = "decide"] = c
    BY <1>1
  <2> QED BY <2>1 DEF Expire, Proceed
<1>5. /\ w \in Window /\ w.count = windows[k].count /\ w.allowed = windows[k].allowed /\ w.ends
  BY <1>2 DEF Window
<1>6. /\ c \in LimiterCall /\ c.key = k /\ c.count = call[r].count /\ c.step = "decide"
  BY <1>1 DEF LimiterCall
<1> HIDE DEF w, c
<1>7. Admits(call[r], k) <=> Admits(c, k)
  BY <1>1, <1>6 DEF Admits
<1>8. w.allowed + Cardinality(Admitted(k)) <= w.count
      /\ w.allowed + Cardinality(Admitted(k)) <= Limit
  BY <1>2, <1>5 DEF LetThrough
<1>9. Ends(w, c.step = "expire")
  BY <1>5 DEF Ends
<1> HIDE DEF k
<1> QED BY <1>1, <1>3, <1>4, <1>5, <1>6, <1>7, <1>8, <1>9, LimiterSlot DEF k

\* A call that was admitted is let through, or its place in the window is lost.
LEMMA DecideStep ==
    ASSUME LimiterInv, NEW r \in Slot, Decide(r) \/ AbortConsume(r)
    PROVE  LimiterInv'
<1> DEFINE k == call[r].key
<1>1. /\ call[r].step # "free" /\ k \in LimitKey /\ call[r].count \in 1..(Limit + 1)
      /\ Decide(r) => call[r].step = "decide"
  BY LimiterCallAt DEF Decide, AbortConsume, Abort, At
<1>2. windows \in [LimitKey -> Window] /\ windows[k] \in Window /\ LetThrough(k)
  BY <1>1 DEF LimiterInv
<1>3. call' = [call EXCEPT ![r] = Free] /\ ~Admits(Free, k)
  BY DEF Decide, AbortConsume, Abort, Return, Admits, Free
<1>4. PICK w \in Window :
         /\ windows' = [windows EXCEPT ![k] = w]
         /\ w.count = windows[k].count /\ w.ends = windows[k].ends
         /\ w.allowed \in {windows[k].allowed, windows[k].allowed + 1}
         /\ w.allowed # windows[k].allowed => Admits(call[r], k)
         /\ call[r].step = "expire" => w.lost
         /\ windows[k].lost => w.lost
  <2>1. CASE windows' = windows /\ call[r].step # "expire"
    <3>1. windows' = [windows EXCEPT ![k] = windows[k]]
      BY <1>1, <1>2, <2>1
    <3> QED BY <1>2, <2>1, <3>1
  <2>2. CASE windows' = [windows EXCEPT ![k].allowed = @ + 1] /\ call[r].count <= Limit
             /\ call[r].step = "decide"
    <3> DEFINE w == [windows[k] EXCEPT !.allowed = windows[k].allowed + 1]
    <3>1. windows' = [windows EXCEPT ![k] = w]
      BY <2>2
    <3>2. /\ w \in Window /\ w.count = windows[k].count /\ w.ends = windows[k].ends
          /\ w.allowed = windows[k].allowed + 1 /\ w.lost = windows[k].lost
      BY <1>2 DEF Window
    <3>3. Admits(call[r], k)
      BY <1>1, <2>2 DEF Admits
    <3> HIDE DEF w
    <3> QED BY <2>2, <3>1, <3>2, <3>3
  <2>3. CASE windows' = [windows EXCEPT ![k].lost = TRUE]
    <3> DEFINE w == [windows[k] EXCEPT !.lost = TRUE]
    <3>1. windows' = [windows EXCEPT ![k] = w]
      BY <2>3
    <3>2. /\ w \in Window /\ w.count = windows[k].count /\ w.ends = windows[k].ends
          /\ w.allowed = windows[k].allowed /\ w.lost
      BY <1>2 DEF Window
    <3> HIDE DEF w
    <3> QED BY <3>1, <3>2
  <2>4. \/ windows' = windows /\ call[r].step # "expire"
        \/ windows' = [windows EXCEPT ![k].allowed = @ + 1] /\ call[r].count <= Limit
             /\ call[r].step = "decide"
        \/ windows' = [windows EXCEPT ![k].lost = TRUE]
    BY <1>1 DEF Decide, AbortConsume, At
  <2> QED BY <2>1, <2>2, <2>3, <2>4
<1>5. /\ Cardinality(Admitted(k)) \in Nat /\ w.allowed \in Nat /\ windows[k].allowed \in Nat
      /\ w.count \in Nat /\ Limit \in Nat
  BY <1>2, ApiCallsAssumption, LimiterAssumption, FS_Subset, FS_CardinalityType
     DEF Admitted, Window
<1>6. LET s == w.allowed + Cardinality(Admitted(k))
          m == IF Admits(Free, k) /\ ~Admits(call[r], k) THEN s + 1 ELSE s
      IN  IF Admits(call[r], k) /\ ~Admits(Free, k) THEN m <= w.count + 1 /\ m <= Limit + 1
          ELSE m <= w.count /\ m <= Limit
  BY <1>2, <1>3, <1>4, <1>5 DEF LetThrough
<1>7. \/ Ends(w, Free.step = "expire")
      \/ /\ call[r].step # "expire"
         /\ w.count > 0 /\ ~w.ends => windows[k].count > 0 /\ ~windows[k].ends
         /\ windows[k].lost => w.lost
  BY <1>4 DEF Ends
<1>8. Free.step = "free"
  BY DEF Free
<1> HIDE DEF k
<1> QED BY <1>1, <1>3, <1>4, <1>6, <1>7, <1>8, LimiterSlot DEF k

\* A window ends when none of its calls is under way, and starts from nothing.
LEMMA WindowStep ==
    ASSUME LimiterInv, NEW k \in LimitKey, WindowEnds(k)
    PROVE  LimiterInv'
<1>1. /\ windows \in [LimitKey -> Window] /\ Limit \in Nat \ {0}
      /\ \A j \in LimitKey : LetThrough(j) /\ Ends(windows[j], Expiring(j))
  BY LimiterAssumption DEF LimiterInv
<1>2. /\ windows' = [windows EXCEPT ![k] = Fresh] /\ call' = call
      /\ \A r \in Slot : call[r].step # "free" => call[r].key # k
  BY DEF WindowEnds, At
<1>3. Fresh \in Window /\ Fresh.count = 0 /\ Fresh.allowed = 0
  BY <1>1 DEF Fresh, Window
<1>4. /\ windows' \in [LimitKey -> Window] /\ windows'[k] = Fresh
      /\ \A j \in LimitKey \ {k} : windows'[j] = windows[j]
  BY <1>1, <1>2, <1>3
<1>5. /\ (\A r \in Slot : call[r] \in {Free} \cup LimiterCall)' /\ Calls(LimiterCall)'
      /\ \A j \in LimitKey : Admitted(j)' = Admitted(j) /\ Expiring(j)' = Expiring(j)
  BY <1>2 DEF LimiterInv, Calls, Admitted, Expiring
<1>6. Cardinality(Admitted(k)) = 0
  <2>1. Admitted(k) = {}
    BY <1>2 DEF Admitted, Admits
  <2> QED BY <2>1, FS_EmptySet
<1>7. ASSUME NEW j \in LimitKey PROVE LetThrough(j)' /\ Ends(windows'[j], Expiring(j)')
  <2>1. CASE j = k
    BY <1>1, <1>3, <1>4, <1>5, <1>6, <2>1 DEF LetThrough, Ends
  <2>2. CASE j # k
    BY <1>1, <1>4, <1>5, <2>2 DEF LetThrough
  <2> QED BY <2>1, <2>2
<1> QED BY <1>4, <1>5, <1>7 DEF LimiterInv

\* Every step keeps the invariant.
LEMMA LimiterStep == LimiterInv /\ [LimiterNext]_limiterVars => LimiterInv'
<1> SUFFICES ASSUME LimiterInv, [LimiterNext]_limiterVars PROVE LimiterInv'
  OBVIOUS
<1>1. CASE UNCHANGED limiterVars
  <2>1. windows' = windows /\ call' = call
    BY <1>1 DEF limiterVars
  <2>2. /\ (windows \in [LimitKey -> Window])'
        /\ (\A r \in Slot : call[r] \in {Free} \cup LimiterCall)' /\ Calls(LimiterCall)'
    BY <2>1 DEF LimiterInv, Calls
  <2>3. (\A k \in LimitKey : LetThrough(k) /\ Ends(windows[k], Expiring(k)))'
    <3>1. \A k \in LimitKey : Admitted(k)' = Admitted(k) /\ Expiring(k)' = Expiring(k)
      BY <2>1 DEF Admitted, Expiring
    <3> QED BY <2>1, <3>1 DEF LimiterInv, LetThrough
  <2> QED BY <2>2, <2>3 DEF LimiterInv
<1> QED BY <1>1, IncrStep, ExpireStep, DecideStep, WindowStep DEF LimiterNext

\* A window lets no more calls through than the limit, and every window that was
\* opened ends unless the one call that sets its expiry dies first.
THEOREM LimiterCorrect == LimiterSpec => []WindowsLimitAndEnd
<1> QED BY LimiterFrom, LimiterInitInv, LimiterStep, PTL DEF LimiterSpec

-----------------------------------------------------------------------------
(* Phone verification *)

\* The guesses at code c that are under way, and the wrong ones not yet counted.
Guesses(d, c) == d.step \in {"compare", "countAttempt"} /\ d.code = c
Guessing(c) == {r \in Slot : Guesses(call[r], c)}
Miscounts(d, c) == d.step = "countAttempt" /\ d.code = c
Uncounted(c) == {r \in Slot : Miscounts(call[r], c)}

\* Every guess was admitted below the limit, at most one per slot over it.
CodeCounted(c) ==
    /\ codes[c].guesses = codes[c].attempts + codes[c].lost + Cardinality(Uncounted(c))
    /\ codes[c].attempts + Cardinality(Guessing(c)) <= MaxAttempts + Overlap

\* The code a call works on exists.
CodeOf(rows, d) ==
    d.step \in {"compare", "checkPrimary", "countAttempt", "verify"} => d.code \in DOMAIN rows

\* A primary number was confirmed, in a confirmation already counted.
Confirmed(rows, n) == rows[n].at <= confirms /\ (rows[n].primary => rows[n].times > 0)

\* Some number is primary, or was confirmed again while another one was looked at.
TwiceOrPrimary(rows) == \E n \in Number : rows[n].primary \/ rows[n].times > 1

\* A call that found no primary number came before any there is by now.
Looked(rows, d) ==
    d.step = "verify" =>
        /\ d.seen <= confirms
        /\ d.hasPrimary => TwiceOrPrimary(rows)
        /\ ~d.hasPrimary => \A n \in Number : rows[n].primary => d.seen < rows[n].at

InOrder(rows) == \A n, m \in Number :
    rows[n].primary /\ rows[m].primary /\ rows[n].at < rows[m].at => rows[m].seen < rows[n].at

\* Everything phone verification keeps true.
PhonesInv ==
    /\ PhonesTypeOK /\ Calls(PhoneCall)
    /\ \A r \in Slot : CodeOf(codes, call[r]) /\ Looked(phones, call[r])
    /\ \A c \in DOMAIN codes : CodeCounted(c)
    /\ \A n \in Number : Confirmed(phones, n)
    /\ InOrder(phones)
    /\ (\E n \in Number : phones[n].verified) => TwiceOrPrimary(phones)

\* Cardinalities of calls are numbers, and no more than there are slots.
LEMMA GuessNumbers ==
    ASSUME NEW c
    PROVE  /\ Cardinality(Guessing(c)) \in Nat /\ Cardinality(Uncounted(c)) \in Nat
           /\ Cardinality(Guessing(c)) <= Cardinality(Slot)
           /\ Cardinality(Slot) \in Nat \ {0} /\ Overlap \in Nat
<1>1. Guessing(c) \subseteq Slot /\ Uncounted(c) \subseteq Slot
  BY DEF Guessing, Uncounted
<1>2. /\ Cardinality(Guessing(c)) \in Nat /\ Cardinality(Uncounted(c)) \in Nat
      /\ Cardinality(Guessing(c)) <= Cardinality(Slot) /\ Cardinality(Slot) \in Nat
  BY <1>1, ApiCallsAssumption, FS_Subset, FS_CardinalityType
<1>3. Cardinality(Slot) # 0
  BY ApiCallsAssumption, FS_EmptySet
<1> QED BY <1>2, <1>3 DEF Overlap

\* The invariant contains both properties.
LEMMA PhonesFrom == PhonesInv => EveryGuessCounts /\ PrimaryNumber
<1> SUFFICES ASSUME PhonesInv PROVE EveryGuessCounts /\ PrimaryNumber
  OBVIOUS
<1>1. ASSUME NEW c \in DOMAIN codes
      PROVE  /\ codes[c].guesses = codes[c].attempts + codes[c].lost
                   + Cardinality({r \in Slot : At(r, "countAttempt") /\ call[r].code = c})
             /\ codes[c].attempts <= MaxAttempts + Overlap
  <2>1. CodeCounted(c) /\ codes \in Seq(CodeRow)
    BY DEF PhonesInv, PhonesTypeOK
  <2>2. codes[c] \in CodeRow
    BY <2>1
  <2>3. codes[c].attempts <= MaxAttempts + Overlap
    BY <2>1, <2>2, GuessNumbers, PhonesAssumption DEF CodeCounted, CodeRow
  <2>4. Uncounted(c) = {r \in Slot : At(r, "countAttempt") /\ call[r].code = c}
    BY DEF Uncounted, Miscounts, At
  <2> QED BY <2>1, <2>3, <2>4 DEF CodeCounted
<1>2. PrimaryNumber
  BY DEF PhonesInv, PrimaryNumber, InOrder, TwiceOrPrimary
<1> QED BY <1>1, <1>2 DEF EveryGuessCounts

\* The records of the calls.
LEMMA PhoneCallAt ==
    ASSUME PhonesInv, NEW r \in Slot
    PROVE  /\ At(r, "createPhone") \/ At(r, "createCode") =>
                 /\ call[r] = [step |-> call[r].step, number |-> call[r].number]
                 /\ call[r].number \in Number
           /\ At(r, "compare") \/ At(r, "checkPrimary") \/ At(r, "countAttempt") =>
                 /\ call[r] = [step |-> call[r].step, code |-> call[r].code,
                               attempts |-> call[r].attempts]
                 /\ call[r].code \in DOMAIN codes /\ call[r].code \in Nat
                 /\ call[r].attempts \in Nat
           /\ At(r, "verify") =>
                 /\ call[r].code \in DOMAIN codes /\ call[r].hasPrimary \in BOOLEAN
                 /\ call[r].seen \in Nat
<1>1. call[r] \in {Free} \cup PhoneCall /\ CodeOf(codes, call[r])
  BY DEF PhonesInv, PhonesTypeOK
<1>2. At(r, "createPhone") \/ At(r, "createCode") =>
          /\ call[r] = [step |-> call[r].step, number |-> call[r].number]
          /\ call[r].number \in Number
  BY <1>1 DEF At, Free, PhoneCall
<1>3. At(r, "compare") \/ At(r, "checkPrimary") \/ At(r, "countAttempt") =>
          /\ call[r] = [step |-> call[r].step, code |-> call[r].code,
                        attempts |-> call[r].attempts]
          /\ call[r].code \in Nat /\ call[r].attempts \in Nat
  BY <1>1 DEF At, Free, PhoneCall
<1>4. At(r, "verify") => call[r].hasPrimary \in BOOLEAN /\ call[r].seen \in Nat
  BY <1>1 DEF At, Free, PhoneCall
<1> QED BY <1>1, <1>2, <1>3, <1>4 DEF At, CodeOf

\* No code was sent.
LEMMA PhonesInitInv == PhonesInit => PhonesInv
<1> SUFFICES ASSUME PhonesInit PROVE PhonesInv
  OBVIOUS
<1>1. Calls(PhoneCall) /\ \A r \in Slot : call[r] = Free
  BY NoCallsYet DEF PhonesInit
<1>2. \A r \in Slot : CodeOf(codes, call[r]) /\ Looked(phones, call[r])
  BY <1>1 DEF CodeOf, Looked, Free
<1>3. /\ phones \in [Number -> PhoneRow] /\ confirms = 0
      /\ \A n \in Number : /\ phones[n].at = 0 /\ phones[n].times = 0
                           /\ phones[n].primary = FALSE /\ phones[n].verified = FALSE
  BY DEF PhonesInit, PhoneRow
<1>4. codes \in Seq(CodeRow) /\ DOMAIN codes = {}
  BY DEF PhonesInit
<1>5. \A n \in Number : Confirmed(phones, n)
  BY <1>3 DEF Confirmed
<1>6. InOrder(phones)
  BY <1>3 DEF InOrder
<1> QED BY <1>1, <1>2, <1>3, <1>4, <1>5, <1>6 DEF PhonesInv, PhonesTypeOK

\* A step of a call that leaves the numbers alone: the other calls and codes are as
\* they were, and of its own code it has to show what it counts.
LEMMA CodeSlot ==
    ASSUME PhonesInv, NEW r \in Slot, NEW d \in {Free} \cup PhoneCall,
           call' = [call EXCEPT ![r] = d], UNCHANGED <<phones, confirms>>,
           codes' \in Seq(CodeRow), DOMAIN codes' = DOMAIN codes,
           CodeOf(codes, d), Looked(phones, d),
           \A c \in DOMAIN codes :
               IF Guesses(d, c) \/ Guesses(call[r], c) THEN CodeCounted(c)'
               ELSE /\ codes'[c].guesses = codes[c].guesses
                    /\ codes'[c].attempts = codes[c].attempts
                    /\ codes'[c].lost = codes[c].lost
    PROVE  PhonesInv'
<1>1. Calls(PhoneCall)' /\ call'[r] = d /\ \A q \in Slot \ {r} : call'[q] = call[q]
  BY CallSet DEF PhonesInv
<1>2. PhonesTypeOK'
  BY <1>1 DEF PhonesInv, PhonesTypeOK
<1>3. \A q \in Slot : CodeOf(codes', call'[q]) /\ Looked(phones, call[q])'
  <2> SUFFICES ASSUME NEW q \in Slot
               PROVE  CodeOf(codes', call'[q]) /\ Looked(phones, call[q])'
    OBVIOUS
  <2>1. \A x : CodeOf(codes', x) <=> CodeOf(codes, x)
    BY DEF CodeOf
  <2>2. Looked(phones, call'[q])
    <3>1. Looked(phones, call[q])
      BY DEF PhonesInv
    <3> QED BY <1>1, <3>1
  <2>3. CodeOf(codes, call'[q])
    <3>1. CodeOf(codes, call[q])
      BY DEF PhonesInv
    <3> QED BY <1>1, <3>1
  <2>4. Looked(phones, call[q])'
    BY <2>2 DEF Looked, TwiceOrPrimary
  <2> QED BY <2>1, <2>3, <2>4
<1>4. \A c \in DOMAIN codes' : CodeCounted(c)'
  <2> SUFFICES ASSUME NEW c \in DOMAIN codes PROVE CodeCounted(c)'
    OBVIOUS
  <2>1. CASE Guesses(d, c) \/ Guesses(call[r], c)
    BY <2>1
  <2>2. CASE ~(Guesses(d, c) \/ Guesses(call[r], c))
    <3>1. CodeCounted(c)
      BY DEF PhonesInv
    <3>2. Guessing(c)' = Guessing(c)
      BY <1>1, <2>2 DEF Guessing
    <3>3. Uncounted(c)' = Uncounted(c)
      BY <1>1, <2>2 DEF Uncounted, Guesses, Miscounts
    <3> QED BY <2>2, <3>1, <3>2, <3>3 DEF CodeCounted
  <2> QED BY <2>1, <2>2
<1>5. /\ (\A n \in Number : Confirmed(phones, n))' /\ InOrder(phones)'
      /\ ((\E n \in Number : phones[n].verified) => TwiceOrPrimary(phones))'
  BY DEF PhonesInv, Confirmed, InOrder, TwiceOrPrimary
<1> QED BY <1>1, <1>2, <1>3, <1>4, <1>5 DEF PhonesInv

\* What becomes of the two counts of a code as one call goes on.
LEMMA CountsMove ==
    ASSUME PhonesInv, NEW r \in Slot, NEW d \in {Free} \cup PhoneCall,
           call' = [call EXCEPT ![r] = d], NEW c
    PROVE  /\ (Guesses(call[r], c) <=> Guesses(d, c)) =>
                  Cardinality(Guessing(c))' = Cardinality(Guessing(c))
           /\ ~Guesses(call[r], c) /\ Guesses(d, c) =>
                  Cardinality(Guessing(c))' = Cardinality(Guessing(c)) + 1
           /\ Guesses(call[r], c) /\ ~Guesses(d, c) =>
                  Cardinality(Guessing(c)) = Cardinality(Guessing(c))' + 1
           /\ (Miscounts(call[r], c) <=> Miscounts(d, c)) =>
                  Cardinality(Uncounted(c))' = Cardinality(Uncounted(c))
           /\ ~Miscounts(call[r], c) /\ Miscounts(d, c) =>
                  Cardinality(Uncounted(c))' = Cardinality(Uncounted(c)) + 1
           /\ Miscounts(call[r], c) /\ ~Miscounts(d, c) =>
                  Cardinality(Uncounted(c)) = Cardinality(Uncounted(c))' + 1
           /\ Cardinality(Guessing(c))' \in Nat /\ Cardinality(Uncounted(c))' \in Nat
           /\ Cardinality(Guessing(c))' <= Cardinality(Slot)
<1>1. Calls(PhoneCall)' /\ call'[r] = d /\ \A q \in Slot \ {r} : call'[q] = call[q]
  BY CallSet DEF PhonesInv
<1>2. /\ Guessing(c) \subseteq Slot /\ Guessing(c)' \subseteq Slot
      /\ Uncounted(c) \subseteq Slot /\ Uncounted(c)' \subseteq Slot
  BY DEF Guessing, Uncounted
<1>3. /\ \A q \in Slot \ {r} : q \in Guessing(c) <=> q \in Guessing(c)'
      /\ r \in Guessing(c) <=> Guesses(call[r], c)
      /\ r \in Guessing(c)' <=> Guesses(d, c)
  BY <1>1 DEF Guessing
<1>4. /\ \A q \in Slot \ {r} : q \in Uncounted(c) <=> q \in Uncounted(c)'
      /\ r \in Uncounted(c) <=> Miscounts(call[r], c)
      /\ r \in Uncounted(c)' <=> Miscounts(d, c)
  BY <1>1 DEF Uncounted
<1>5. Cardinality(Guessing(c)') <= Cardinality(Slot)
  BY <1>2, ApiCallsAssumption, FS_Subset
<1>6. /\ Cardinality(Guessing(c)') \in Nat
      /\ (Guesses(call[r], c) <=> Guesses(d, c)) =>
             Cardinality(Guessing(c)') = Cardinality(Guessing(c))
      /\ ~Guesses(call[r], c) /\ Guesses(d, c) =>
             Cardinality(Guessing(c)') = Cardinality(Guessing(c)) + 1
      /\ Guesses(call[r], c) /\ ~Guesses(d, c) =>
             Cardinality(Guessing(c)) = Cardinality(Guessing(c)') + 1
  BY <1>2, <1>3, OneMoves
<1>7. /\ Cardinality(Uncounted(c)') \in Nat
      /\ (Miscounts(call[r], c) <=> Miscounts(d, c)) =>
             Cardinality(Uncounted(c)') = Cardinality(Uncounted(c))
      /\ ~Miscounts(call[r], c) /\ Miscounts(d, c) =>
             Cardinality(Uncounted(c)') = Cardinality(Uncounted(c)) + 1
      /\ Miscounts(call[r], c) /\ ~Miscounts(d, c) =>
             Cardinality(Uncounted(c)) = Cardinality(Uncounted(c)') + 1
  BY <1>2, <1>4, OneMoves
<1> QED BY <1>5, <1>6, <1>7

\* A code is sent, or its number made: no guess is concerned.
LEMMA SendStep ==
    ASSUME PhonesInv, NEW r \in Slot,
           (\E n \in Number : BeginSendCode(r, n)) \/ CreatePhone(r)
    PROVE  PhonesInv'
<1>1. CASE \E n \in Number : BeginSendCode(r, n)
  <2>1. PICK d : /\ d \in PhoneCall /\ d.step \in {"createCode", "createPhone"}
                 /\ call' = [call EXCEPT ![r] = d] /\ call[r].step = "free"
    <3>1. PICK n \in Number : BeginSendCode(r, n)
      BY <1>1
    <3> DEFINE d == [step |-> IF phones[n].known THEN "createCode" ELSE "createPhone",
                     number |-> n]
    <3>2. call' = [call EXCEPT ![r] = d] /\ call[r].step = "free"
      BY <3>1 DEF BeginSendCode, Begin, At
    <3>3. d \in PhoneCall /\ d.step \in {"createCode", "createPhone"}
      BY DEF PhoneCall
    <3> QED BY <3>2, <3>3
  <2>2. UNCHANGED <<phones, codes, confirms>> /\ codes \in Seq(CodeRow)
    BY <1>1 DEF BeginSendCode, PhonesInv, PhonesTypeOK
  <2>3. /\ CodeOf(codes, d) /\ Looked(phones, d)
        /\ \A c : ~Guesses(d, c) /\ ~Guesses(call[r], c)
    BY <2>1 DEF CodeOf, Looked, Guesses
  <2> QED BY <2>1, <2>2, <2>3, CodeSlot
<1>2. CASE CreatePhone(r)
  <2> DEFINE n == call[r].number
             row == [phones[n] EXCEPT !.known = TRUE]
  <2>1. /\ At(r, "createPhone") /\ n \in Number /\ phones \in [Number -> PhoneRow]
        /\ call[r] = [step |-> "createPhone", number |-> n]
        /\ codes \in Seq(CodeRow) /\ UNCHANGED <<codes, confirms>>
    BY <1>2, PhoneCallAt DEF CreatePhone, At, PhonesInv, PhonesTypeOK
  <2>2. phones' = [phones EXCEPT ![n] = row]
    BY <1>2 DEF CreatePhone
  <2>3. /\ row \in PhoneRow /\ row.primary = phones[n].primary /\ row.at = phones[n].at
        /\ row.times = phones[n].times /\ row.seen = phones[n].seen
        /\ row.verified = phones[n].verified
    BY <2>1 DEF PhoneRow
  <2> HIDE DEF row
  <2>4. /\ phones' \in [Number -> PhoneRow]
        /\ \A m \in Number : /\ phones'[m].primary = phones[m].primary
                             /\ phones'[m].at = phones[m].at
                             /\ phones'[m].times = phones[m].times
                             /\ phones'[m].seen = phones[m].seen
                             /\ phones'[m].verified = phones[m].verified
    BY <2>1, <2>2, <2>3
  <2>5. PICK d \in {Free, [step |-> "createCode", number |-> n]} :
           call' = [call EXCEPT ![r] = d]
    <3>1. [call[r] EXCEPT !.step = "createCode"] = [step |-> "createCode", number |-> n]
      BY <2>1
    <3> QED BY <1>2, <3>1 DEF CreatePhone, Return, Proceed
  <2>6. /\ d \in {Free} \cup PhoneCall /\ d.step \in {"free", "createCode"}
        /\ call[r].step = "createPhone"
    BY <2>1 DEF PhoneCall, Free
  <2>7. Calls(PhoneCall)' /\ call'[r] = d /\ \A q \in Slot \ {r} : call'[q] = call[q]
    BY <2>5, <2>6, CallSet DEF PhonesInv
  <2>8. PhonesTypeOK'
    BY <2>1, <2>4, <2>6, <2>7 DEF PhonesInv, PhonesTypeOK
  <2>9. \A c : Guessing(c)' = Guessing(c) /\ Uncounted(c)' = Uncounted(c)
    BY <2>6, <2>7 DEF Guessing, Uncounted, Guesses, Miscounts
  <2>10. (\A c \in DOMAIN codes : CodeCounted(c))'
    BY <2>1, <2>9 DEF PhonesInv, CodeCounted
  <2>11. /\ (\A m \in Number : Confirmed(phones, m))' /\ InOrder(phones)'
         /\ TwiceOrPrimary(phones)' = TwiceOrPrimary(phones)
         /\ ((\E m \in Number : phones[m].verified) => TwiceOrPrimary(phones))'
    BY <2>1, <2>4 DEF PhonesInv, Confirmed, InOrder, TwiceOrPrimary
  <2>12. \A q \in Slot : CodeOf(codes, call[q])' /\ Looked(phones, call[q])'
    <3> SUFFICES ASSUME NEW q \in Slot
                 PROVE  CodeOf(codes, call[q])' /\ Looked(phones, call[q])'
      OBVIOUS
    <3>1. CASE q = r
      BY <2>6, <2>7, <3>1 DEF CodeOf, Looked
    <3>2. CASE q # r
      <4>1. CodeOf(codes, call[q]) /\ Looked(phones, call[q]) /\ call'[q] = call[q]
        BY <2>7, <3>2 DEF PhonesInv
      <4>2. CodeOf(codes, call[q])'
        BY <2>1, <4>1
      <4>3. TwiceOrPrimary(phones') <=> TwiceOrPrimary(phones)
        BY <2>4 DEF TwiceOrPrimary
      <4>4. Looked(phones, call[q])'
        BY <2>1, <2>4, <4>1, <4>3 DEF Looked
      <4> QED BY <4>2, <4>4
    <3> QED BY <3>1, <3>2
  <2> QED BY <2>7, <2>8, <2>10, <2>11, <2>12 DEF PhonesInv
<1> QED BY <1>1, <1>2

\* A new code has not been guessed at.
LEMMA CreateCodeStep ==
    ASSUME PhonesInv, NEW r \in Slot, CreateCode(r)
    PROVE  PhonesInv'
<1> DEFINE row == [number |-> call[r].number, attempts |-> 0, used |-> FALSE,
                   expired |-> FALSE, guesses |-> 0, lost |-> 0]
           o == Len(codes) + 1
<1>1. /\ At(r, "createCode") /\ call[r].number \in Number /\ codes \in Seq(CodeRow)
      /\ codes' = Append(codes, row) /\ UNCHANGED <<phones, confirms>>
      /\ call' = [call EXCEPT ![r] = Free]
  BY PhoneCallAt DEF CreateCode, Return, PhonesInv, PhonesTypeOK
<1>2. row \in CodeRow /\ row.guesses = 0 /\ row.attempts = 0 /\ row.lost = 0
  BY <1>1 DEF CodeRow
<1> HIDE DEF row
<1>3. /\ codes' \in Seq(CodeRow) /\ DOMAIN codes' = DOMAIN codes \cup {o}
      /\ codes'[o] = row /\ o \notin DOMAIN codes
      /\ \A c \in DOMAIN codes : codes'[c] = codes[c]
  BY <1>1, <1>2
<1> HIDE DEF o
<1>4. Calls(PhoneCall)' /\ call'[r] = Free /\ \A q \in Slot \ {r} : call'[q] = call[q]
  BY <1>1, FreeSet DEF PhonesInv
<1>5. PhonesTypeOK'
  BY <1>1, <1>3, <1>4 DEF PhonesInv, PhonesTypeOK
<1>6. \A c : Guessing(c)' = Guessing(c) /\ Uncounted(c)' = Uncounted(c)
  <2>1. call[r].step = "createCode" /\ Free.step = "free"
    BY <1>1 DEF At, Free
  <2> QED BY <1>4, <2>1 DEF Guessing, Uncounted, Guesses, Miscounts
<1>7. ASSUME NEW c \in DOMAIN codes' PROVE CodeCounted(c)'
  <2>1. CASE c \in DOMAIN codes
    <3>1. CodeCounted(c) /\ codes'[c] = codes[c]
      BY <1>3, <2>1 DEF PhonesInv
    <3> QED BY <1>6, <3>1 DEF CodeCounted
  <2>2. CASE c = o
    <3>1. Guessing(o) = {}
      <4>1. \A q \in Slot : CodeOf(codes, call[q])
        BY DEF PhonesInv
      <4> QED BY <1>3, <4>1 DEF Guessing, Guesses, CodeOf
    <3>2. Uncounted(o) = {}
      BY <3>1 DEF Guessing, Uncounted, Guesses, Miscounts
    <3>3. Cardinality(Guessing(o)) = 0 /\ Cardinality(Uncounted(o)) = 0
      BY <3>1, <3>2, FS_EmptySet
    <3>4. MaxAttempts + Overlap \in Nat
      BY GuessNumbers, PhonesAssumption
    <3> QED BY <1>2, <1>3, <1>6, <2>2, <3>3, <3>4 DEF CodeCounted
  <2> QED BY <1>3, <2>1, <2>2
<1>8. \A q \in Slot : CodeOf(codes, call[q])' /\ Looked(phones, call[q])'
  <2> SUFFICES ASSUME NEW q \in Slot
               PROVE  CodeOf(codes, call[q])' /\ Looked(phones, call[q])'
    OBVIOUS
  <2>1. CASE q = r
    BY <1>4, <2>1 DEF CodeOf, Looked, Free
  <2>2. CASE q # r
    <3>1. CodeOf(codes, call[q]) /\ Looked(phones, call[q]) /\ call'[q] = call[q]
      BY <1>4, <2>2 DEF PhonesInv
    <3>2. CodeOf(codes, call[q])'
      BY <1>3, <3>1 DEF CodeOf
    <3>3. Looked(phones, call[q])'
      BY <1>1, <3>1 DEF Looked, TwiceOrPrimary
    <3> QED BY <3>2, <3>3
  <2> QED BY <2>1, <2>2
<1>9. /\ (\A n \in Number : Confirmed(phones, n))' /\ InOrder(phones)'
      /\ ((\E n \in Number : phones[n].verified) => TwiceOrPrimary(phones))'
  BY <1>1 DEF PhonesInv, Confirmed, InOrder, TwiceOrPrimary
<1> QED BY <1>4, <1>5, <1>7, <1>8, <1>9 DEF PhonesInv

\* A guess begins below the limit: with the others under way there are at most as
\* many over it as there are other slots.
LEMMA BeginGuessStep ==
    ASSUME PhonesInv, NEW r \in Slot, NEW n \in Number, BeginConfirm(r, n)
    PROVE  PhonesInv'
<1>1. PICK o \in DOMAIN codes :
         /\ codes[o].attempts < MaxAttempts /\ call[r].step = "free"
         /\ call' = [call EXCEPT ![r] = [step |-> "compare", code |-> o,
                                         attempts |-> codes[o].attempts]]
  BY DEF BeginConfirm, Latest, CodesFor, Begin, At
<1> DEFINE d == [step |-> "compare", code |-> o, attempts |-> codes[o].attempts]
<1>2. /\ UNCHANGED <<phones, codes, confirms>> /\ codes \in Seq(CodeRow)
      /\ codes[o] \in CodeRow /\ o \in Nat
  BY DEF BeginConfirm, PhonesInv, PhonesTypeOK
<1>3. codes[o].attempts \in Nat
  BY <1>2 DEF CodeRow
<1>4. d \in PhoneCall /\ d.step = "compare" /\ d.code = o
  BY <1>2, <1>3 DEF PhoneCall
<1>5. call' = [call EXCEPT ![r] = d]
  BY <1>1
<1> HIDE DEF d
<1>6. CodeOf(codes, d) /\ Looked(phones, d)
  BY <1>4 DEF CodeOf, Looked
<1>7. /\ \A c : Guesses(d, c) \/ Guesses(call[r], c) => c = o
      /\ Guesses(d, o) /\ ~Guesses(call[r], o) /\ ~Miscounts(d, o) /\ ~Miscounts(call[r], o)
  BY <1>1, <1>4 DEF Guesses, Miscounts
<1>8. CodeCounted(o)'
  <2>1. /\ CodeCounted(o) /\ Cardinality(Guessing(o))' <= Cardinality(Slot)
        /\ Cardinality(Uncounted(o))' = Cardinality(Uncounted(o))
        /\ Cardinality(Guessing(o))' \in Nat
    BY <1>4, <1>5, <1>7, CountsMove DEF PhonesInv
  <2>2. codes'[o].attempts + Cardinality(Guessing(o))' <= MaxAttempts + Overlap
    BY <1>1, <1>2, <1>3, <2>1, GuessNumbers, PhonesAssumption DEF Overlap
  <2> QED BY <1>2, <2>1, <2>2 DEF CodeCounted
<1> QED BY <1>2, <1>4, <1>5, <1>6, <1>7, <1>8, CodeSlot

\* A wrong code is compared, counted, or lost with its call.
LEMMA GuessStep ==
    ASSUME PhonesInv, NEW r \in Slot, Right(r) \/ Wrong(r) \/ CountAttempt(r)
    PROVE  PhonesInv'
<1> DEFINE kept == call[r].attempts
<1> PICK o : o = call[r].code
  OBVIOUS
<1>1. /\ At(r, "compare") \/ At(r, "countAttempt")
      /\ call[r] = [step |-> call[r].step, code |-> o, attempts |-> kept]
      /\ o \in DOMAIN codes /\ o \in Nat /\ kept \in Nat /\ codes \in Seq(CodeRow)
      /\ UNCHANGED <<phones, confirms>> /\ CodeCounted(o)
  BY PhoneCallAt DEF Right, Wrong, CountAttempt, PhonesInv, PhonesTypeOK
<1>2. codes[o] \in CodeRow
  BY <1>1
<1>3. /\ codes[o].guesses \in Nat /\ codes[o].attempts \in Nat /\ codes[o].lost \in Nat
      /\ Cardinality(Guessing(o)) \in Nat /\ Cardinality(Uncounted(o)) \in Nat
      /\ Overlap \in Nat /\ MaxAttempts \in Nat
  BY <1>2, GuessNumbers, PhonesAssumption DEF CodeRow
<1>4. CASE Right(r)
  <2> DEFINE d == [step |-> "checkPrimary", code |-> o, attempts |-> kept]
  <2>1. call' = [call EXCEPT ![r] = d] /\ codes' = codes /\ call[r].step = "compare"
    <3>1. [call[r] EXCEPT !.step = "checkPrimary"] = d
      BY <1>1
    <3> QED BY <1>4, <3>1 DEF Right, Proceed, At
  <2>2. d \in PhoneCall /\ d.step = "checkPrimary" /\ d.code = o
    BY <1>1 DEF PhoneCall
  <2> HIDE DEF d
  <2>3. CodeOf(codes, d) /\ Looked(phones, d)
    BY <1>1, <2>2 DEF CodeOf, Looked
  <2>4. /\ \A c : Guesses(d, c) \/ Guesses(call[r], c) => c = o
        /\ ~Guesses(d, o) /\ Guesses(call[r], o) /\ ~Miscounts(d, o) /\ ~Miscounts(call[r], o)
    BY <2>1, <2>2 DEF Guesses, Miscounts
  <2>5. /\ Cardinality(Guessing(o)) = Cardinality(Guessing(o))' + 1
        /\ Cardinality(Uncounted(o))' = Cardinality(Uncounted(o))
        /\ Cardinality(Guessing(o))' \in Nat
    BY <2>1, <2>2, <2>4, CountsMove
  <2>6. CodeCounted(o)'
    BY <1>1, <1>3, <2>1, <2>5 DEF CodeCounted
  <2> QED BY <1>1, <2>1, <2>2, <2>3, <2>4, <2>6, CodeSlot
<1>5. CASE Wrong(r)
  <2> DEFINE d == [step |-> "countAttempt", code |-> o, attempts |-> kept]
             row == [codes[o] EXCEPT !.guesses = codes[o].guesses + 1]
  <2>1. call' = [call EXCEPT ![r] = d] /\ call[r].step = "compare"
    <3>1. [call[r] EXCEPT !.step = "countAttempt"] = d
      BY <1>1
    <3> QED BY <1>5, <3>1 DEF Wrong, Proceed, At
  <2>2. codes' = [codes EXCEPT ![o] = row]
    BY <1>5 DEF Wrong
  <2>3. /\ row \in CodeRow /\ row.guesses = codes[o].guesses + 1
        /\ row.attempts = codes[o].attempts /\ row.lost = codes[o].lost
    BY <1>2 DEF CodeRow
  <2>4. d \in PhoneCall /\ d.step = "countAttempt" /\ d.code = o
    BY <1>1 DEF PhoneCall
  <2> HIDE DEF d, row
  <2>5. /\ codes' \in Seq(CodeRow) /\ DOMAIN codes' = DOMAIN codes /\ codes'[o] = row
        /\ \A c \in DOMAIN codes \ {o} : codes'[c] = codes[c]
    BY <1>1, <2>2, <2>3
  <2>6. CodeOf(codes, d) /\ Looked(phones, d)
    BY <1>1, <2>4 DEF CodeOf, Looked
  <2>7. /\ \A c : Guesses(d, c) \/ Guesses(call[r], c) => c = o
        /\ Guesses(d, o) /\ Guesses(call[r], o) /\ Miscounts(d, o) /\ ~Miscounts(call[r], o)
    BY <2>1, <2>4 DEF Guesses, Miscounts
  <2>8. /\ Cardinality(Guessing(o))' = Cardinality(Guessing(o))
        /\ Cardinality(Uncounted(o))' = Cardinality(Uncounted(o)) + 1
    BY <2>1, <2>4, <2>7, CountsMove
  <2>9. CodeCounted(o)'
    <3>1. codes'[o].guesses = codes'[o].attempts + codes'[o].lost
              + Cardinality(Uncounted(o))'
      <4>1. codes[o].guesses = codes[o].attempts + codes[o].lost + Cardinality(Uncounted(o))
        BY <1>1 DEF CodeCounted
      <4>2. /\ codes'[o].guesses = row.guesses /\ codes'[o].attempts = row.attempts
            /\ codes'[o].lost = row.lost
        BY <2>5
      <4>3. Cardinality(Uncounted(o)) \in Nat /\ Cardinality(Uncounted(o))' \in Nat
        BY <1>3, <2>8, GuessNumbers
      <4> QED BY <1>3, <2>3, <2>8, <4>1, <4>2, <4>3
    <3>2. codes'[o].attempts + Cardinality(Guessing(o))' <= MaxAttempts + Overlap
      BY <1>1, <1>3, <2>3, <2>5, <2>8 DEF CodeCounted
    <3> QED BY <3>1, <3>2 DEF CodeCounted
  <2>10. \A c \in DOMAIN codes :
             IF Guesses(d, c) \/ Guesses(call[r], c) THEN CodeCounted(c)'
             ELSE /\ codes'[c].guesses = codes[c].guesses
                  /\ codes'[c].attempts = codes[c].attempts
                  /\ codes'[c].lost = codes[c].lost
    BY <2>5, <2>7, <2>9
  <2> QED BY <1>1, <2>1, <2>4, <2>5, <2>6, <2>10, CodeSlot
<1>6. CASE CountAttempt(r)
  <2> DEFINE row == [codes[o] EXCEPT !.attempts = codes[o].attempts + 1]
  <2>1. call' = [call EXCEPT ![r] = Free] /\ call[r].step = "countAttempt"
    BY <1>6 DEF CountAttempt, Return, At
  <2>2. codes' = [codes EXCEPT ![o] = row]
    BY <1>6 DEF CountAttempt
  <2>3. /\ row \in CodeRow /\ row.guesses = codes[o].guesses
        /\ row.attempts = codes[o].attempts + 1 /\ row.lost = codes[o].lost
    BY <1>2 DEF CodeRow
  <2> HIDE DEF row
  <2>5. /\ codes' \in Seq(CodeRow) /\ DOMAIN codes' = DOMAIN codes /\ codes'[o] = row
        /\ \A c \in DOMAIN codes \ {o} : codes'[c] = codes[c]
    BY <1>1, <2>2, <2>3
  <2>6. CodeOf(codes, Free) /\ Looked(phones, Free)
    BY DEF CodeOf, Looked, Free
  <2>7. /\ \A c : Guesses(Free, c) \/ Guesses(call[r], c) => c = o
        /\ ~Guesses(Free, o) /\ Guesses(call[r], o) /\ ~Miscounts(Free, o)
        /\ Miscounts(call[r], o)
    BY <2>1 DEF Guesses, Miscounts, Free
  <2>8. /\ Cardinality(Guessing(o)) = Cardinality(Guessing(o))' + 1
        /\ Cardinality(Uncounted(o)) = Cardinality(Uncounted(o))' + 1
        /\ Cardinality(Guessing(o))' \in Nat /\ Cardinality(Uncounted(o))' \in Nat
    BY <2>1, <2>7, CountsMove
  <2>9. CodeCounted(o)'
    <3>1. codes'[o].guesses = codes'[o].attempts + codes'[o].lost
              + Cardinality(Uncounted(o))'
      <4>1. codes[o].guesses = codes[o].attempts + codes[o].lost + Cardinality(Uncounted(o))
        BY <1>1 DEF CodeCounted
      <4>2. /\ codes'[o].guesses = row.guesses /\ codes'[o].attempts = row.attempts
            /\ codes'[o].lost = row.lost
        BY <2>5
      <4>3. Cardinality(Uncounted(o)) \in Nat /\ Cardinality(Uncounted(o))' \in Nat
        BY <1>3, <2>8, GuessNumbers
      <4> QED BY <1>3, <2>3, <2>8, <4>1, <4>2, <4>3
    <3>2. codes'[o].attempts + Cardinality(Guessing(o))' <= MaxAttempts + Overlap
      BY <1>1, <1>3, <2>3, <2>5, <2>8 DEF CodeCounted
    <3> QED BY <3>1, <3>2 DEF CodeCounted
  <2>10. \A c \in DOMAIN codes :
             IF Guesses(Free, c) \/ Guesses(call[r], c) THEN CodeCounted(c)'
             ELSE /\ codes'[c].guesses = codes[c].guesses
                  /\ codes'[c].attempts = codes[c].attempts
                  /\ codes'[c].lost = codes[c].lost
    BY <2>5, <2>7, <2>9
  <2> QED BY <1>1, <2>1, <2>5, <2>6, <2>10, CodeSlot
<1> QED BY <1>4, <1>5, <1>6

\* The call looks for a primary number; none it does not see comes before it.
LEMMA CheckPrimaryStep ==
    ASSUME PhonesInv, NEW r \in Slot, CheckPrimary(r)
    PROVE  PhonesInv'
<1> DEFINE o == call[r].code
           has == \E n \in Number : phones[n].primary
           d == [step |-> "verify", code |-> o, seen |-> confirms, hasPrimary |-> has]
<1>1. /\ At(r, "checkPrimary") /\ o \in DOMAIN codes /\ o \in Nat
      /\ codes \in Seq(CodeRow) /\ confirms \in Nat
      /\ call' = [call EXCEPT ![r] = d] /\ UNCHANGED <<phones, codes, confirms>>
  BY PhoneCallAt DEF CheckPrimary, PhonesInv, PhonesTypeOK
<1>2. has \in BOOLEAN
  OBVIOUS
<1>3. has => TwiceOrPrimary(phones)
  BY DEF TwiceOrPrimary
<1>4. ~has => \A n \in Number : ~phones[n].primary
  OBVIOUS
<1> HIDE DEF has
<1>5. /\ d \in PhoneCall /\ d.step = "verify" /\ d.code = o /\ d.seen = confirms
      /\ d.hasPrimary = has
  BY <1>1, <1>2 DEF PhoneCall
<1> HIDE DEF d
<1>6. CodeOf(codes, d)
  BY <1>1, <1>5 DEF CodeOf
<1>7. Looked(phones, d)
  BY <1>1, <1>3, <1>4, <1>5 DEF Looked
<1>8. \A c : ~Guesses(d, c) /\ ~Guesses(call[r], c)
  BY <1>1, <1>5 DEF Guesses, At
<1> QED BY <1>1, <1>5, <1>6, <1>7, <1>8, CodeSlot

\* The number a confirmation leaves.
LEMMA VerifiedRow ==
    ASSUME PhonesInv, NEW r \in Slot, Verify(r)
    PROVE  /\ codes[call[r].code].number \in Number
           /\ \E row \in PhoneRow :
                 /\ row.verified = TRUE /\ row.primary = ~call[r].hasPrimary
                 /\ row.at = confirms + 1 /\ row.seen = call[r].seen
                 /\ row.times = phones[codes[call[r].code].number].times + 1
                 /\ phones' = [phones EXCEPT ![codes[call[r].code].number] = row]
<1> DEFINE c == call[r]
           n == codes[c.code].number
<1>1. /\ c.code \in DOMAIN codes /\ c.hasPrimary \in BOOLEAN /\ c.seen \in Nat
      /\ codes \in Seq(CodeRow) /\ phones \in [Number -> PhoneRow] /\ confirms \in Nat
  BY PhoneCallAt DEF Verify, PhonesInv, PhonesTypeOK
<1>2. n \in Number
  <2>1. codes[c.code] \in CodeRow
    BY <1>1
  <2> QED BY <2>1 DEF CodeRow
<1> DEFINE p1 == [phones EXCEPT ![n].verified = TRUE]
           p2 == [p1 EXCEPT ![n].primary = ~c.hasPrimary]
           p3 == [p2 EXCEPT ![n].at = confirms + 1]
           p4 == [p3 EXCEPT ![n].seen = c.seen]
           p5 == [p4 EXCEPT ![n].times = phones[n].times + 1]
<1>3. phones' = p5
  <2> DEFINE q5 == [phones EXCEPT ![n].verified = TRUE, ![n].primary = ~c.hasPrimary,
                       ![n].at = confirms + 1, ![n].seen = c.seen, ![n].times = @ + 1]
  <2>1. phones' = q5
    BY Zenon DEF Verify
  <2>2. q5 = p5
    <3> DEFINE q2 == [phones EXCEPT ![n].verified = TRUE, ![n].primary = ~c.hasPrimary]
               q3 == [phones EXCEPT ![n].verified = TRUE, ![n].primary = ~c.hasPrimary,
                         ![n].at = confirms + 1]
               q4 == [phones EXCEPT ![n].verified = TRUE, ![n].primary = ~c.hasPrimary,
                         ![n].at = confirms + 1, ![n].seen = c.seen]
    <3>1. q2 = p2
      BY Zenon
    <3> HIDE DEF q2, p2
    <3>2. q3 = p3
      <4>1. q3 = [q2 EXCEPT ![n].at = confirms + 1]
        BY Zenon DEF q2
      <4> QED BY <3>1, <4>1, Zenon
    <3> HIDE DEF q3, p3
    <3>3. q4 = p4
      <4>1. q4 = [q3 EXCEPT ![n].seen = c.seen]
        BY Zenon DEF q3
      <4> QED BY <3>2, <4>1, Zenon
    <3> HIDE DEF q4, p4
    <3>4. q5 = [q4 EXCEPT ![n].times = phones[n].times + 1]
      BY Zenon DEF q4
    <3> QED BY <3>3, <3>4, Zenon
  <2> QED BY <2>1, <2>2
<1> DEFINE Sets(p) == /\ p \in [Number -> PhoneRow]
                      /\ \A m \in Number \ {n} : p[m] = phones[m]
<1>4. Sets(p1) /\ p1[n].verified = TRUE /\ p1[n].times = phones[n].times
  <2> DEFINE w == [phones[n] EXCEPT !.verified = TRUE]
  <2>1. w \in PhoneRow /\ w.verified = TRUE /\ w.times = phones[n].times
    BY <1>1, <1>2 DEF PhoneRow
  <2>2. p1 = [phones EXCEPT ![n] = w]
    OBVIOUS
  <2> HIDE DEF w, p1
  <2> QED BY <1>1, <1>2, <2>1, <2>2
<1> HIDE DEF p1
<1>5. /\ Sets(p2) /\ p2[n].verified = TRUE /\ p2[n].times = phones[n].times
      /\ p2[n].primary = ~c.hasPrimary
  <2> DEFINE w == [p1[n] EXCEPT !.primary = ~c.hasPrimary]
  <2>1. /\ w \in PhoneRow /\ w.verified = TRUE /\ w.times = phones[n].times
        /\ w.primary = ~c.hasPrimary
    BY <1>1, <1>2, <1>4 DEF PhoneRow
  <2>2. p2 = [p1 EXCEPT ![n] = w]
    OBVIOUS
  <2> HIDE DEF w, p2
  <2> QED BY <1>2, <1>4, <2>1, <2>2
<1> HIDE DEF p2
<1>6. /\ Sets(p3) /\ p3[n].verified = TRUE /\ p3[n].times = phones[n].times
      /\ p3[n].primary = ~c.hasPrimary /\ p3[n].at = confirms + 1
  <2> DEFINE w == [p2[n] EXCEPT !.at = confirms + 1]
  <2>0. p2[n] \in PhoneRow /\ confirms + 1 \in Nat
    BY <1>1, <1>2, <1>5
  <2>1. /\ w \in PhoneRow /\ w.verified = TRUE /\ w.times = phones[n].times
        /\ w.primary = ~c.hasPrimary /\ w.at = confirms + 1
    BY <1>5, <2>0 DEF PhoneRow
  <2>2. p3 = [p2 EXCEPT ![n] = w]
    OBVIOUS
  <2> HIDE DEF w, p3
  <2> QED BY <1>2, <1>5, <2>1, <2>2
<1> HIDE DEF p3
<1>7. /\ Sets(p4) /\ p4[n].verified = TRUE /\ p4[n].times = phones[n].times
      /\ p4[n].primary = ~c.hasPrimary /\ p4[n].at = confirms + 1 /\ p4[n].seen = c.seen
  <2> DEFINE w == [p3[n] EXCEPT !.seen = c.seen]
  <2>1. /\ w \in PhoneRow /\ w.verified = TRUE /\ w.times = phones[n].times
        /\ w.primary = ~c.hasPrimary /\ w.at = confirms + 1 /\ w.seen = c.seen
    BY <1>1, <1>2, <1>6 DEF PhoneRow
  <2>2. p4 = [p3 EXCEPT ![n] = w]
    OBVIOUS
  <2> HIDE DEF w, p4
  <2> QED BY <1>2, <1>6, <2>1, <2>2
<1> HIDE DEF p4
<1>8. /\ Sets(p5) /\ p5[n].verified = TRUE /\ p5[n].times = phones[n].times + 1
      /\ p5[n].primary = ~c.hasPrimary /\ p5[n].at = confirms + 1 /\ p5[n].seen = c.seen
  <2> DEFINE w == [p4[n] EXCEPT !.times = phones[n].times + 1]
  <2>0. p4[n] \in PhoneRow /\ phones[n].times + 1 \in Nat
    BY <1>1, <1>2, <1>7 DEF PhoneRow
  <2>1. w = [known |-> p4[n].known, verified |-> p4[n].verified, primary |-> p4[n].primary,
             at |-> p4[n].at, seen |-> p4[n].seen, times |-> phones[n].times + 1]
    BY <2>0 DEF PhoneRow
  <2>3. w \in PhoneRow
    BY <2>0, <2>1 DEF PhoneRow
  <2>4. /\ w.verified = p4[n].verified /\ w.primary = p4[n].primary /\ w.at = p4[n].at
        /\ w.seen = p4[n].seen /\ w.times = phones[n].times + 1
    BY <2>1
  <2>2. p5 = [p4 EXCEPT ![n] = w]
    OBVIOUS
  <2> HIDE DEF w, p5
  <2> QED BY <1>2, <1>7, <2>2, <2>3, <2>4
<1> HIDE DEF p5
<1>9. phones' = [phones EXCEPT ![n] = p5[n]]
  BY <1>1, <1>2, <1>3, <1>8
<1>10. p5[n] \in PhoneRow
  BY <1>2, <1>8
<1> QED BY <1>2, <1>8, <1>9, <1>10

\* The confirmation: its number is primary exactly if its call saw no primary one.
LEMMA VerifyStep ==
    ASSUME PhonesInv, NEW r \in Slot, Verify(r)
    PROVE  PhonesInv'
<1> DEFINE d == call[r]
           n == codes[d.code].number
           used == [codes[d.code] EXCEPT !.used = TRUE]
<1>1. /\ d.step = "verify" /\ d.code \in DOMAIN codes /\ d.hasPrimary \in BOOLEAN /\ d.seen \in Nat
      /\ codes \in Seq(CodeRow) /\ phones \in [Number -> PhoneRow] /\ confirms \in Nat
      /\ Looked(phones, d)
  BY PhoneCallAt DEF Verify, At, PhonesInv, PhonesTypeOK
<1>2. n \in Number
  BY VerifiedRow
<1>3. PICK row \in PhoneRow :
         /\ row.verified = TRUE /\ row.primary = ~d.hasPrimary /\ row.at = confirms + 1
         /\ row.seen = d.seen /\ row.times = phones[n].times + 1
         /\ phones' = [phones EXCEPT ![n] = row]
  BY VerifiedRow
<1>4. /\ confirms' = confirms + 1 /\ call' = [call EXCEPT ![r] = Free]
      /\ codes' = [codes EXCEPT ![d.code] = used]
  BY DEF Verify, Return
<1>5. codes[d.code] \in CodeRow
  BY <1>1
<1>6. /\ used \in CodeRow /\ used.guesses = codes[d.code].guesses
      /\ used.attempts = codes[d.code].attempts /\ used.lost = codes[d.code].lost
  BY <1>5 DEF CodeRow
<1> HIDE DEF used, n
<1>7. /\ codes' \in Seq(CodeRow) /\ DOMAIN codes' = DOMAIN codes
      /\ \A c \in DOMAIN codes : /\ codes'[c].guesses = codes[c].guesses
                                 /\ codes'[c].attempts = codes[c].attempts
                                 /\ codes'[c].lost = codes[c].lost
  <2>1. /\ codes' \in Seq(CodeRow) /\ DOMAIN codes' = DOMAIN codes /\ codes'[d.code] = used
        /\ \A c \in DOMAIN codes \ {d.code} : codes'[c] = codes[c]
    BY <1>1, <1>4, <1>6
  <2> QED BY <1>6, <2>1
<1>8. Calls(PhoneCall)' /\ call'[r] = Free /\ \A q \in Slot \ {r} : call'[q] = call[q]
  BY <1>4, FreeSet DEF PhonesInv
<1>9. /\ phones' \in [Number -> PhoneRow] /\ phones'[n] = row
      /\ \A m \in Number \ {n} : phones'[m] = phones[m]
  BY <1>1, <1>2, <1>3
<1>10. PhonesTypeOK'
  BY <1>1, <1>4, <1>7, <1>8, <1>9 DEF PhonesInv, PhonesTypeOK
<1>11. \A m \in Number : /\ phones[m].at \in Nat /\ phones[m].times \in Nat
                         /\ phones[m].at <= confirms
                         /\ phones[m].primary => phones[m].times > 0
  BY <1>1 DEF PhonesInv, Confirmed, PhoneRow
<1>12. \A m \in Number : Confirmed(phones, m)'
  BY <1>1, <1>3, <1>4, <1>9, <1>11 DEF Confirmed
<1>13. InOrder(phones)'
  <2> SUFFICES ASSUME NEW a \in Number, NEW b \in Number,
                      phones'[a].primary, phones'[b].primary, phones'[a].at < phones'[b].at
               PROVE  phones'[b].seen < phones'[a].at
    BY DEF InOrder
  <2>1. CASE a = n
    BY <1>1, <1>3, <1>9, <1>11, <2>1
  <2>2. CASE a # n /\ b = n
    <3>1. ~d.hasPrimary /\ phones[a].primary
      BY <1>3, <1>9, <2>2
    <3>2. d.seen < phones[a].at
      BY <1>1, <3>1 DEF Looked
    <3> QED BY <1>3, <1>9, <2>2, <3>2
  <2>3. CASE a # n /\ b # n
    BY <1>9, <2>3 DEF PhonesInv, InOrder
  <2> QED BY <2>1, <2>2, <2>3
<1>14. TwiceOrPrimary(phones')
  <2>1. CASE ~d.hasPrimary
    BY <1>2, <1>3, <1>9, <2>1 DEF TwiceOrPrimary
  <2>2. CASE d.hasPrimary
    <3>1. PICK m \in Number : phones[m].primary \/ phones[m].times > 1
      BY <1>1, <2>2 DEF Looked, TwiceOrPrimary
    <3>2. CASE m = n
      <4>1. phones'[n].times > 1
        BY <1>3, <1>9, <1>11, <3>1, <3>2
      <4> QED BY <1>2, <4>1 DEF TwiceOrPrimary
    <3>3. CASE m # n
      BY <1>9, <3>1, <3>3 DEF TwiceOrPrimary
    <3> QED BY <3>2, <3>3
  <2> QED BY <1>1, <2>1, <2>2
<1>15. \A q \in Slot : CodeOf(codes, call[q])' /\ Looked(phones, call[q])'
  <2> SUFFICES ASSUME NEW q \in Slot
               PROVE  CodeOf(codes, call[q])' /\ Looked(phones, call[q])'
    OBVIOUS
  <2>1. CASE q = r
    BY <1>8, <2>1 DEF CodeOf, Looked, Free
  <2>2. CASE q # r
    <3>1. CodeOf(codes, call[q]) /\ Looked(phones, call[q]) /\ call'[q] = call[q]
      BY <1>8, <2>2 DEF PhonesInv
    <3>2. CodeOf(codes, call[q])'
      BY <1>7, <3>1 DEF CodeOf
    <3>3. Looked(phones, call[q])'
      <4> SUFFICES ASSUME call[q].step = "verify"
                   PROVE  /\ call[q].seen <= confirms'
                          /\ call[q].hasPrimary => TwiceOrPrimary(phones')
                          /\ ~call[q].hasPrimary => \A m \in Number :
                                phones'[m].primary => call[q].seen < phones'[m].at
        BY <3>1 DEF Looked
      <4>1. /\ call[q].seen \in Nat /\ call[q].seen <= confirms
            /\ ~call[q].hasPrimary => \A m \in Number :
                  phones[m].primary => call[q].seen < phones[m].at
        BY <3>1, PhoneCallAt DEF Looked, At
      <4>2. ASSUME ~call[q].hasPrimary, NEW m \in Number, phones'[m].primary
            PROVE  call[q].seen < phones'[m].at
        <5>1. CASE m = n
          BY <1>1, <1>3, <1>9, <4>1, <5>1
        <5>2. CASE m # n
          BY <1>9, <4>1, <4>2, <5>2
        <5> QED BY <5>1, <5>2
      <4> QED BY <1>1, <1>4, <1>14, <4>1, <4>2
    <3> QED BY <3>2, <3>3
  <2> QED BY <2>1, <2>2
<1>16. \A c \in DOMAIN codes' : CodeCounted(c)'
  <2>1. \A c : Guessing(c)' = Guessing(c) /\ Uncounted(c)' = Uncounted(c)
    BY <1>1, <1>8 DEF Guessing, Uncounted, Guesses, Miscounts, Free
  <2> QED BY <1>7, <2>1 DEF PhonesInv, CodeCounted
<1> QED BY <1>8, <1>10, <1>12, <1>13, <1>14, <1>15, <1>16 DEF PhonesInv

\* A call dies; a wrong guess that was not yet counted is lost with it.
LEMMA AbortPhoneStep ==
    ASSUME PhonesInv, NEW r \in Slot, AbortPhone(r)
    PROVE  PhonesInv'
<1> PICK o : o = call[r].code
  OBVIOUS
<1>1. /\ call' = [call EXCEPT ![r] = Free] /\ UNCHANGED <<phones, confirms>>
      /\ codes \in Seq(CodeRow) /\ CodeOf(codes, Free) /\ Looked(phones, Free)
      /\ \A c : ~Guesses(Free, c) /\ ~Miscounts(Free, c)
  BY DEF AbortPhone, Abort, Return, PhonesInv, PhonesTypeOK, CodeOf, Looked, Free, Guesses,
         Miscounts
<1>2. CASE At(r, "countAttempt")
  <2> DEFINE row == [codes[o] EXCEPT !.lost = codes[o].lost + 1]
  <2>1. o \in DOMAIN codes /\ CodeCounted(o) /\ call[r].step = "countAttempt"
    BY <1>2, PhoneCallAt DEF PhonesInv, At
  <2>2. codes[o] \in CodeRow
    BY <1>1, <2>1
  <2>3. codes' = [codes EXCEPT ![o] = row]
    BY <1>2 DEF AbortPhone
  <2>4. /\ row \in CodeRow /\ row.guesses = codes[o].guesses
        /\ row.attempts = codes[o].attempts /\ row.lost = codes[o].lost + 1
    BY <2>2 DEF CodeRow
  <2> HIDE DEF row
  <2>5. /\ codes' \in Seq(CodeRow) /\ DOMAIN codes' = DOMAIN codes /\ codes'[o] = row
        /\ \A c \in DOMAIN codes \ {o} : codes'[c] = codes[c]
    BY <1>1, <2>1, <2>3, <2>4
  <2>6. /\ \A c : Guesses(call[r], c) => c = o
        /\ Guesses(call[r], o) /\ Miscounts(call[r], o)
    BY <2>1 DEF Guesses, Miscounts
  <2>7. /\ Cardinality(Guessing(o)) = Cardinality(Guessing(o))' + 1
        /\ Cardinality(Uncounted(o)) = Cardinality(Uncounted(o))' + 1
        /\ Cardinality(Guessing(o))' \in Nat /\ Cardinality(Uncounted(o))' \in Nat
    BY <1>1, <2>6, CountsMove
  <2>8. /\ codes[o].guesses \in Nat /\ codes[o].attempts \in Nat /\ codes[o].lost \in Nat
        /\ Overlap \in Nat /\ MaxAttempts \in Nat
    BY <2>2, GuessNumbers, PhonesAssumption DEF CodeRow
  <2>9. CodeCounted(o)'
    <3>1. codes'[o].guesses = codes'[o].attempts + codes'[o].lost
              + Cardinality(Uncounted(o))'
      <4>1. codes[o].guesses = codes[o].attempts + codes[o].lost + Cardinality(Uncounted(o))
        BY <2>1 DEF CodeCounted
      <4>2. /\ codes'[o].guesses = row.guesses /\ codes'[o].attempts = row.attempts
            /\ codes'[o].lost = row.lost
        BY <2>5
      <4>3. Cardinality(Uncounted(o)) \in Nat /\ Cardinality(Uncounted(o))' \in Nat
        BY <2>7, GuessNumbers
      <4> QED BY <2>4, <2>7, <2>8, <4>1, <4>2, <4>3
    <3>2. codes'[o].attempts + Cardinality(Guessing(o))' <= MaxAttempts + Overlap
      BY <2>1, <2>4, <2>5, <2>7, <2>8 DEF CodeCounted
    <3> QED BY <3>1, <3>2 DEF CodeCounted
  <2>10. \A c \in DOMAIN codes :
             IF Guesses(Free, c) \/ Guesses(call[r], c) THEN CodeCounted(c)'
             ELSE /\ codes'[c].guesses = codes[c].guesses
                  /\ codes'[c].attempts = codes[c].attempts
                  /\ codes'[c].lost = codes[c].lost
    BY <1>1, <2>5, <2>6, <2>9
  <2> QED BY <1>1, <2>5, <2>10, CodeSlot
<1>3. CASE ~At(r, "countAttempt")
  <2>1. codes' = codes
    BY <1>3 DEF AbortPhone
  <2>2. ASSUME NEW c \in DOMAIN codes, Guesses(call[r], c) PROVE CodeCounted(c)'
    <3>1. /\ CodeCounted(c) /\ ~Miscounts(call[r], c) /\ codes[c] \in CodeRow
      BY <1>1, <1>3 DEF PhonesInv, Miscounts, At
    <3>2. /\ Cardinality(Guessing(c)) = Cardinality(Guessing(c))' + 1
          /\ Cardinality(Uncounted(c))' = Cardinality(Uncounted(c))
          /\ Cardinality(Guessing(c))' \in Nat
      BY <1>1, <2>2, <3>1, CountsMove
    <3>3. codes[c].attempts \in Nat /\ Overlap \in Nat /\ MaxAttempts \in Nat
      BY <3>1, GuessNumbers, PhonesAssumption DEF CodeRow
    <3> QED BY <2>1, <3>1, <3>2, <3>3 DEF CodeCounted
  <2> QED BY <1>1, <2>1, <2>2, CodeSlot
<1> QED BY <1>2, <1>3

\* Every step keeps the invariant.
LEMMA PhonesStep == PhonesInv /\ [PhonesNext]_phoneVars => PhonesInv'
<1> SUFFICES ASSUME PhonesInv, [PhonesNext]_phoneVars PROVE PhonesInv'
  OBVIOUS
<1>1. CASE UNCHANGED <<phones, confirms, call>> /\ codes' \in Seq(CodeRow)
           /\ DOMAIN codes' = DOMAIN codes
           /\ \A c \in DOMAIN codes : /\ codes'[c].guesses = codes[c].guesses
                                      /\ codes'[c].attempts = codes[c].attempts
                                      /\ codes'[c].lost = codes[c].lost
  <2>1. PhonesTypeOK' /\ Calls(PhoneCall)'
    BY <1>1 DEF PhonesInv, PhonesTypeOK, Calls
  <2>2. \A c : Guessing(c)' = Guessing(c) /\ Uncounted(c)' = Uncounted(c)
    BY <1>1 DEF Guessing, Uncounted
  <2>3. \A c \in DOMAIN codes' : CodeCounted(c)'
    BY <1>1, <2>2 DEF PhonesInv, CodeCounted
  <2>4. \A r \in Slot : CodeOf(codes, call[r])' /\ Looked(phones, call[r])'
    <3> SUFFICES ASSUME NEW r \in Slot
                 PROVE  CodeOf(codes, call[r])' /\ Looked(phones, call[r])'
      OBVIOUS
    <3>1. CodeOf(codes, call[r]) /\ Looked(phones, call[r])
      BY DEF PhonesInv
    <3>2. CodeOf(codes, call[r])'
      BY <1>1, <3>1 DEF CodeOf
    <3>3. Looked(phones, call[r])'
      BY <1>1, <3>1 DEF Looked, TwiceOrPrimary
    <3> QED BY <3>2, <3>3
  <2>5. /\ (\A n \in Number : Confirmed(phones, n))' /\ InOrder(phones)'
        /\ ((\E n \in Number : phones[n].verified) => TwiceOrPrimary(phones))'
    BY <1>1 DEF PhonesInv, Confirmed, InOrder, TwiceOrPrimary
  <2> QED BY <2>1, <2>3, <2>4, <2>5 DEF PhonesInv
<1>2. ASSUME NEW c \in DOMAIN codes, CodeExpires(c) PROVE PhonesInv'
  <2> DEFINE row == [codes[c] EXCEPT !.expired = TRUE]
  <2>1. /\ codes' = [codes EXCEPT ![c] = row] /\ UNCHANGED <<phones, confirms, call>>
        /\ codes \in Seq(CodeRow) /\ codes[c] \in CodeRow
    BY <1>2 DEF CodeExpires, PhonesInv, PhonesTypeOK
  <2>2. /\ row \in CodeRow /\ row.guesses = codes[c].guesses
        /\ row.attempts = codes[c].attempts /\ row.lost = codes[c].lost
    BY <2>1 DEF CodeRow
  <2> HIDE DEF row
  <2>3. /\ codes' \in Seq(CodeRow) /\ DOMAIN codes' = DOMAIN codes /\ codes'[c] = row
        /\ \A e \in DOMAIN codes \ {c} : codes'[e] = codes[e]
    BY <2>1, <2>2
  <2> QED BY <1>1, <2>1, <2>2, <2>3
<1>3. CASE UNCHANGED phoneVars
  <2>1. UNCHANGED <<phones, confirms, call, codes>> /\ codes \in Seq(CodeRow)
    BY <1>3 DEF phoneVars, PhonesInv, PhonesTypeOK
  <2> QED BY <1>1, <2>1
<1> QED BY <1>2, <1>3, SendStep, CreateCodeStep, BeginGuessStep, GuessStep, CheckPrimaryStep,
           VerifyStep, AbortPhoneStep DEF PhonesNext

\* Every wrong code is counted once, except by a call that died before it could, and
\* overlapping guesses overrun the limit by no more than the other calls there are.
THEOREM GuessesCorrect == PhonesSpec => []EveryGuessCounts
<1> QED BY PhonesFrom, PhonesInitInv, PhonesStep, PTL DEF PhonesSpec

\* Two numbers are primary only if their confirmations overlapped, and a user with
\* a verified number has a primary one unless some number was confirmed twice.
THEOREM PrimaryCorrect == PhonesSpec => []PrimaryNumber
<1> QED BY PhonesFrom, PhonesInitInv, PhonesStep, PTL DEF PhonesSpec

-----------------------------------------------------------------------------
(* The services side by side *)

\* The service that runs keeps its own invariant.
RunningInv ==
    /\ service = "conversations" => ThreadsInv /\ PoolInv
    /\ service = "showings" => ShowingsInv
    /\ service = "vouchers" => VoucherInv
    /\ service = "papers" => PapersInv
    /\ service = "limiter" => LimiterInv
    /\ service = "phones" => PhonesInv
    /\ service = "upgrades" => UpgradesInv
    /\ service = "users" => AdminInv

\* A service that does not run keeps the tables it started with.
Untouched ==
    /\ service # "conversations" => threads = <<>>
    /\ service # "showings" => talk = "NEW_INQUIRY" /\ showings = <<>> /\ invited = {}
    /\ service # "vouchers" => access = "none" /\ handed = {}
    /\ service # "papers" => papers = <<>>
    /\ service # "limiter" => windows = [k \in LimitKey |-> Fresh]
    /\ service # "phones" =>
          /\ codes = <<>>
          /\ \A n \in Number : ~phones[n].verified /\ ~phones[n].primary
    /\ service # "upgrades" => \A p \in Product : upgrades[p].tier = Unpaid
    /\ service # "users" => suspensions = {}

WorkflowsInv == service \in Service /\ RunningInv /\ Untouched

\* Whichever service is to run, it starts in order.
LEMMA WorkflowsInitInv == Init => WorkflowsInv
<1> SUFFICES ASSUME Init PROVE WorkflowsInv
  OBVIOUS
<1>1. RunningInv
  BY InitThreads, InitPool, ShowingsInitInv, VoucherInitInv, PapersInitInv, LimiterInitInv,
     PhonesInitInv, UpgradesInitInv, AdminInitInv
  DEF Init, RunningInv
<1>2. Untouched
  BY DEF Init, Untouched, ThreadsInit, ShowingsInit, VoucherInit, PapersInit, LimiterInit,
         PhonesInit, UpgradesInit, AdminInit
<1> QED BY <1>1, <1>2 DEF WorkflowsInv, Init

\* Every step of the running service keeps its invariant.
LEMMA RunningStep == RunningInv /\ [Next]_vars => RunningInv'
<1> SUFFICES ASSUME RunningInv, [Next]_vars PROVE RunningInv'
  OBVIOUS
<1>1. CASE Only("conversations") /\ ThreadsNext
  BY <1>1, ThreadsPoolStep DEF Only, RunningInv
<1>2. CASE Only("showings") /\ ShowingsNext
  BY <1>2, ShowingsStep DEF Only, RunningInv
<1>3. CASE Only("vouchers") /\ VoucherNext
  BY <1>3, VoucherStep DEF Only, RunningInv
<1>4. CASE Only("papers") /\ PapersNext
  BY <1>4, PapersStep DEF Only, RunningInv
<1>5. CASE Only("limiter") /\ LimiterNext
  BY <1>5, LimiterStep DEF Only, RunningInv
<1>6. CASE Only("phones") /\ PhonesNext
  BY <1>6, PhonesStep DEF Only, RunningInv
<1>7. CASE Only("upgrades") /\ UpgradesNext
  BY <1>7, UpgradesStep DEF Only, RunningInv
<1>8. CASE Only("users") /\ AdminNext
  BY <1>8, AdminStep DEF Only, RunningInv
<1>9. CASE UNCHANGED vars
  <2>1. /\ UNCHANGED service /\ UNCHANGED threadVars /\ UNCHANGED showingVars
        /\ UNCHANGED voucherVars /\ UNCHANGED paperVars /\ UNCHANGED limiterVars
        /\ UNCHANGED phoneVars /\ UNCHANGED upgradeVars /\ UNCHANGED adminVars
    BY <1>9
    DEF vars, threadVars, showingVars, voucherVars, paperVars, limiterVars, phoneVars,
        upgradeVars, adminVars
  <2> QED BY <2>1, ThreadsPoolStep, ShowingsStep, VoucherStep, PapersStep, LimiterStep,
             PhonesStep, UpgradesStep, AdminStep
          DEF RunningInv
<1> QED BY <1>1, <1>2, <1>3, <1>4, <1>5, <1>6, <1>7, <1>8, <1>9 DEF Next

\* And leaves the tables of the others alone.
LEMMA WorkflowsStep == WorkflowsInv /\ [Next]_vars => WorkflowsInv'
<1> SUFFICES ASSUME WorkflowsInv, [Next]_vars PROVE WorkflowsInv'
  OBVIOUS
<1>1. service' \in Service /\ Untouched'
  BY DEF WorkflowsInv, Untouched, Next, Only, vars
<1>2. RunningInv'
  BY RunningStep DEF WorkflowsInv
<1> QED BY <1>1, <1>2 DEF WorkflowsInv

\* Whichever service runs, its tables and calls always have their shape.
THEOREM TablesTypeCorrect == Spec => []TablesTypeOK
<1>1. WorkflowsInv => TablesTypeOK
  BY PapersFrom, LimiterFrom
  DEF WorkflowsInv, RunningInv, TablesTypeOK, ThreadsInv, ThreadsTyped, ShowingsInv,
      VoucherInv, PhonesInv, UpgradesInv, AdminInv
<1> QED BY <1>1, WorkflowsInitInv, WorkflowsStep, PTL DEF Spec

\* What the eight services promise, each of its own tables.
Promises ==
    /\ DuplicateNeedsOverlap /\ OverrunNeedsOverlap /\ OneTimeSelected /\ DownloadsGranted
    /\ AnsweredMeansSent /\ WindowsLimitAndEnd /\ EveryGuessCounts /\ PrimaryNumber
    /\ TierPaidFor /\ ModeratorsSpareStaff

\* Tables nobody has used break no promise.
LEMMA UntouchedPromises ==
    ASSUME Untouched
    PROVE  /\ service # "conversations" => DuplicateNeedsOverlap /\ OverrunNeedsOverlap
           /\ service # "showings" => OneTimeSelected
           /\ service # "papers" => AnsweredMeansSent
           /\ service # "limiter" => WindowsLimitAndEnd
           /\ service # "phones" => EveryGuessCounts /\ PrimaryNumber
           /\ service # "upgrades" => TierPaidFor
           /\ service # "users" => ModeratorsSpareStaff
<1>1. ASSUME threads = <<>> PROVE DuplicateNeedsOverlap /\ OverrunNeedsOverlap
  <2>1. \A n : Assigned(n) = 0
    BY <1>1, FS_EmptySet DEF Assigned
  <2>2. Overlap \in Nat
    BY ApiCallsAssumption, FS_CardinalityType, FS_EmptySet DEF Overlap
  <2> QED BY <1>1, <2>1, <2>2, ConversationsAssumption
          DEF DuplicateNeedsOverlap, OverrunNeedsOverlap, ConversationsAssumption
<1>2. service # "showings" => OneTimeSelected
  BY DEF Untouched, OneTimeSelected
<1>3. service # "papers" => AnsweredMeansSent
  BY DEF Untouched, AnsweredMeansSent
<1>4. service # "limiter" => WindowsLimitAndEnd
  BY LimiterAssumption DEF Untouched, WindowsLimitAndEnd, Fresh, LimiterAssumption
<1>5. service # "phones" => EveryGuessCounts
  BY DEF Untouched, EveryGuessCounts
<1>6. service # "phones" => PrimaryNumber
  BY DEF Untouched, PrimaryNumber
<1>7. service # "upgrades" => TierPaidFor
  BY DEF Untouched, TierPaidFor
<1>8. service # "users" => ModeratorsSpareStaff
  BY DEF Untouched, ModeratorsSpareStaff
<1> QED BY <1>1, <1>2, <1>3, <1>4, <1>5, <1>6, <1>7, <1>8 DEF Untouched

\* Only a voucher call hands a document out.
LEMMA Handing ==
    ASSUME WorkflowsInv, NEW r \in Slot, At(r, "handOut") PROVE service = "vouchers"
<1>0. RunningInv /\ call[r].step = "handOut"
  BY DEF WorkflowsInv, At
<1>1. CASE service = "conversations"
  BY <1>0, <1>1 DEF RunningInv, ThreadsInv, ThreadsTyped, ThreadsTypeOK, StartCall, Free
<1>2. CASE service = "showings"
  BY <1>0, <1>2 DEF RunningInv, ShowingsInv, Calls, ShowingCall, Free
<1>3. CASE service = "papers"
  BY <1>0, <1>3 DEF RunningInv, PapersInv, Calls, PaperCall, Free
<1>4. CASE service = "limiter"
  BY <1>0, <1>4 DEF RunningInv, LimiterInv, Calls, LimiterCall, Free
<1>5. CASE service = "phones"
  BY <1>0, <1>5 DEF RunningInv, PhonesInv, Calls, PhoneCall, Free
<1>6. CASE service = "upgrades"
  BY <1>0, <1>6 DEF RunningInv, UpgradesInv, Calls, UpgradeCall, Free
<1>7. CASE service = "users"
  BY <1>0, <1>7 DEF RunningInv, AdminInv, Calls, AdminCall, Free
<1> QED BY <1>1, <1>2, <1>3, <1>4, <1>5, <1>6, <1>7 DEF WorkflowsInv, Service

\* Every promise holds, whichever service runs: of the one that does by its own
\* invariant, of the others because nothing happened to them.
THEOREM PromisesCorrect == Spec => []Promises
<1>1. WorkflowsInv => Promises
  <2> SUFFICES ASSUME WorkflowsInv PROVE Promises
    OBVIOUS
  <2>1. RunningInv /\ Untouched
    BY DEF WorkflowsInv
  <2>2. DuplicateNeedsOverlap /\ OverrunNeedsOverlap
    BY <2>1, UntouchedPromises, PoolOverrun DEF RunningInv, ThreadsInv
  <2>3. OneTimeSelected
    BY <2>1, UntouchedPromises, PickedEach DEF RunningInv
  <2>4. DownloadsGranted
    <3>1. CASE service = "vouchers"
      BY <2>1, <3>1 DEF RunningInv, VoucherInv
    <3>2. CASE service # "vouchers"
      BY <2>1, <3>2, Handing DEF Untouched, DownloadsGranted
    <3> QED BY <3>1, <3>2
  <2>5. AnsweredMeansSent
    BY <2>1, UntouchedPromises, PapersFrom DEF RunningInv
  <2>6. WindowsLimitAndEnd
    BY <2>1, UntouchedPromises, LimiterFrom DEF RunningInv
  <2>7. EveryGuessCounts /\ PrimaryNumber
    BY <2>1, UntouchedPromises, PhonesFrom DEF RunningInv
  <2>8. TierPaidFor
    BY <2>1, UntouchedPromises DEF RunningInv, UpgradesInv
  <2>9. ModeratorsSpareStaff
    BY <2>1, UntouchedPromises DEF RunningInv, AdminInv
  <2> QED BY <2>2, <2>3, <2>4, <2>5, <2>6, <2>7, <2>8, <2>9 DEF Promises
<1> QED BY <1>1, WorkflowsInitInv, WorkflowsStep, PTL DEF Spec

=============================================================================
