-------------------------------- MODULE UserAdmin --------------------------------
(***************************************************************************)
(* UsersService: changing roles, suspending and restoring accounts, and    *)
(* delegating that to moderators.  The acting user is read from the        *)
(* database once, when the request is authenticated (JwtStrategy); the     *)
(* target is read, if at all, before the update.  Roles that are not staff *)
(* are one, MEMBER.                                                        *)
(***************************************************************************)
EXTENDS ApiCalls

CONSTANTS Account,
          Root,      \* the accounts that start as super administrators
          MaxChanges \* bound: role changes

VARIABLE accounts \* User rows: role, isActive, canSuspendUsers

VARIABLE suspensions \* history: the staff accounts suspended or restored by moderators

adminVars == <<accounts, suspensions, call>>

Role == {"MEMBER", "STAFF_MODERATOR", "ADMINISTRATOR", "SUPER_ADMINISTRATOR"}
StaffRole == Role \ {"MEMBER"}
AdminRole == {"ADMINISTRATOR", "SUPER_ADMINISTRATOR"}
\* changes is history: how often the role was written.
AccountRow == [role : Role, active : BOOLEAN, canSuspend : BOOLEAN, changes : Nat]
AdminCall == [step : {"setRole"}, target : Account, role : Role]
             \cup [step : {"setPermission"}, target : Account, enabled : BOOLEAN]
             \cup [step : {"readTarget"}, target : Account, active : BOOLEAN]
             \cup [step : {"setActive"}, target : Account, active : BOOLEAN,
                   by : Role, seen : Nat]

ASSUME AdminAssumption == Root \subseteq Account /\ MaxChanges \in Nat

AdminInit ==
    /\ accounts = [a \in Account |-> [role |-> IF a \in Root THEN "SUPER_ADMINISTRATOR"
                                               ELSE "MEMBER",
                                      active |-> TRUE, canSuspend |-> FALSE, changes |-> 0]]
    /\ suspensions = {}
    /\ call = NoCalls

\* The roles the controller lets in; a suspended account is not authenticated.
Acts(a, roles) == accounts[a].active /\ accounts[a].role \in roles

\* Only the role granted is looked at, not the one it replaces.
BeginChangeRole(r, a, t, role) ==
    /\ Acts(a, AdminRole)
    /\ role \in AdminRole => accounts[a].role = "SUPER_ADMINISTRATOR"
    /\ Begin(r, [step |-> "setRole", target |-> t, role |-> role])
    /\ UNCHANGED <<accounts, suspensions>>

\* canSuspendUsers survives the change.
SetRole(r) ==
    LET t == call[r].target IN
    /\ At(r, "setRole") /\ accounts[t].changes < MaxChanges
    /\ accounts' = [accounts EXCEPT ![t].role = call[r].role, ![t].changes = @ + 1]
    /\ Return(r)
    /\ UNCHANGED suspensions

BeginSetPermission(r, a, t, enabled) ==
    /\ Acts(a, AdminRole)
    /\ accounts[t].role = "STAFF_MODERATOR"
    /\ Begin(r, [step |-> "setPermission", target |-> t, enabled |-> enabled])
    /\ UNCHANGED <<accounts, suspensions>>

SetPermission(r) ==
    /\ At(r, "setPermission")
    /\ accounts' = [accounts EXCEPT ![call[r].target].canSuspend = call[r].enabled]
    /\ Return(r)
    /\ UNCHANGED suspensions

\* An administrator's call goes straight to the update, a moderator's needs the
\* permission and reads the target first.
BeginSetActive(r, a, t, active) ==
    /\ Acts(a, StaffRole)
    /\ accounts[a].role = "STAFF_MODERATOR" => accounts[a].canSuspend
    /\ Begin(r, IF accounts[a].role = "STAFF_MODERATOR"
                THEN [step |-> "readTarget", target |-> t, active |-> active]
                ELSE [step |-> "setActive", target |-> t, active |-> active,
                      by |-> accounts[a].role, seen |-> 0])
    /\ UNCHANGED <<accounts, suspensions>>

\* Mutant: moderators are protected from moderators, administrators are not.
ReadTargetModerators(r) ==
    LET c == call[r] IN
    /\ At(r, "readTarget")
    /\ IF accounts[c.target].role = "STAFF_MODERATOR" THEN Return(r)
       ELSE call' = [call EXCEPT ![r] = [step |-> "setActive", target |-> c.target,
                        active |-> c.active, by |-> "STAFF_MODERATOR",
                        seen |-> accounts[c.target].changes]]
    /\ UNCHANGED <<accounts, suspensions>>

ReadTarget(r) ==
    LET c == call[r] IN
    /\ At(r, "readTarget")
    /\ IF accounts[c.target].role \in StaffRole THEN Return(r)
       ELSE call' = [call EXCEPT ![r] = [step |-> "setActive", target |-> c.target,
                        active |-> c.active, by |-> "STAFF_MODERATOR",
                        seen |-> accounts[c.target].changes]]
    /\ UNCHANGED <<accounts, suspensions>>

SetActiveFlag(r) ==
    LET c == call[r]
        row == accounts[c.target]
    IN
    /\ At(r, "setActive")
    /\ accounts' = [accounts EXCEPT ![c.target].active = c.active]
    /\ suspensions' = IF c.by = "STAFF_MODERATOR" /\ row.role \in StaffRole
                      THEN suspensions \cup {[promoted |-> row.changes > c.seen]}
                      ELSE suspensions
    /\ Return(r)

AbortAdmin(r) == Abort(r) /\ UNCHANGED <<accounts, suspensions>>

AdminNext ==
    \E r \in Slot :
        \/ \E a, t \in Account :
              \/ \E role \in Role : BeginChangeRole(r, a, t, role)
              \/ \E b \in BOOLEAN : BeginSetPermission(r, a, t, b) \/ BeginSetActive(r, a, t, b)
        \/ SetRole(r) \/ SetPermission(r) \/ ReadTarget(r) \/ SetActiveFlag(r) \/ AbortAdmin(r)

AdminSpec == AdminInit /\ [][AdminNext]_adminVars

-----------------------------------------------------------------------------
(* Properties *)

\* Rows and calls have their shape.
AdminTypeOK ==
    /\ accounts \in [Account -> AccountRow]
    /\ \A r \in Slot : call[r] \in {Free} \cup AdminCall

\* UsersService.setActive: "a moderator can never suspend/restore another
\* moderator or an admin".  One is hit only by becoming staff in the middle of the
\* call, however permissions and roles change around it.
ModeratorsSpareStaff == \A s \in suspensions : s.promoted

=============================================================================
