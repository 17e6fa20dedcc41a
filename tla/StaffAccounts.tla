--------------------------- MODULE StaffAccounts ---------------------------
(***************************************************************************)
(* Where staff accounts come from: created and edited by admins and        *)
(* regional admins (createOfficer, updateOfficerProfile and the bulk move  *)
(* of modules/admin/admin.service.ts), or mirrored from the ERP when its   *)
(* people sign in (staffWebLogin of modules/auth/auth.service.ts).         *)
(*                                                                         *)
(* Left out: names, passwords and the welcome e-mail, whose failure is     *)
(* swallowed; deactivation, which is in Sessions and OfficerAssignment.    *)
(***************************************************************************)
EXTENDS Scopes, Naturals, FiniteSets

CONSTANTS
  Roles,              \* StaffRole
  ManagedRoles,       \* MANAGED_STAFF_ROLES
  FieldRoles,         \* REGIONAL_ADMIN_MANAGED_ROLES
  Emails,
  LowerCase,          \* each e-mail in lower case
  Phones,
  MaxStaff

ASSUME StaffAssumption ==
  /\ FieldRoles \subseteq ManagedRoles /\ ManagedRoles \subseteq Roles
  /\ "ADMIN" \in ManagedRoles \ FieldRoles
  /\ LowerCase \in [Emails -> Emails]
  /\ \A e \in Emails : LowerCase[LowerCase[e]] = LowerCase[e]
  /\ None \notin Emails \cup Phones /\ MaxStaff \in Nat /\ "erp" \notin Regions

VARIABLE staffRows    \* the Staff rows; unused ids are None

staffVars == <<calls, staffRows>>

StaffId == 1..MaxStaff

(* by is the scope of the admin who created the row, or "erp"; mirrored      *)
(* says whether the ERP ever wrote it.                                       *)
StaffRow == [role : Roles, region : CallerScope, email : Emails, phone : Phones,
             by : CallerScope \cup {"erp"}, mirrored : BOOLEAN]

ASSUME StaffRowAssumption == None \notin StaffRow

Profile == [phone : Phones, region : CallerScope]
FromErp == [role : Roles, region : CallerScope, email : Emails, phone : Phones]

StaffCall ==
  {Idle}
  \cup [route : {"account"}, step : {"create"}, row : StaffRow]
  \cup [route : {"profile"}, step : {"update"}, id : StaffId, saw : Profile, data : Profile]
  \cup [route : {"weblogin"}, step : {"erp"}, local : StaffId \cup {None}]
  \cup [route : {"weblogin"}, step : {"email", "create"}, erp : FromErp]
  \cup [route : {"weblogin"}, step : {"sync", "retry"}, erp : FromErp, id : StaffId]

StaffTypes ==
  /\ calls \in [Calls -> StaffCall]
  /\ staffRows \in [StaffId -> StaffRow \cup {None}]

StaffInit ==
  /\ calls = [c \in Calls |-> Idle]
  /\ staffRows = [i \in StaffId |-> None]

Existing == {i \in StaffId : staffRows[i] # None}
NewStaff == Cardinality(Existing) + 1

(* The unique constraints on email and phone.                                *)
Collides(i, email, phone) ==
  \E j \in Existing \ {i} : staffRows[j].email = email \/ staffRows[j].phone = phone

InsertStaff(c, row, next) ==
  IF Collides(NewStaff, row.email, row.phone)
  THEN Ends(c) /\ UNCHANGED staffRows
  ELSE NewStaff \in StaffId /\ staffRows' = [staffRows EXCEPT ![NewStaff] = row] /\ Moves(c, next)

-----------------------------------------------------------------------------
RegionalAdminMayManage(scope, role, region) ==
  scope # None => role \in FieldRoles /\ InScope(scope, region)

(* createOfficer: an admin has no region and everybody else one, which for a *)
(* regional admin's request is their own; then the check that nobody has     *)
(* this e-mail, in any case, or phone, which is only advice.                 *)
createOfficer(c, role, region, email, phone, scope) ==
  LET given == IF scope # None THEN scope ELSE region IN
  /\ role \in ManagedRoles /\ email = LowerCase[email]
  /\ RegionalAdminMayManage(scope, role, given)
  /\ role = "ADMIN" <=> region = None
  /\ ~\E i \in Existing : LowerCase[staffRows[i].email] = email \/ staffRows[i].phone = phone
  /\ Starts(c, [route |-> "account", step |-> "create",
                row |-> [role |-> role, region |-> IF role = "ADMIN" /\ scope = None THEN None ELSE given,
                         email |-> email, phone |-> phone, by |-> scope, mirrored |-> FALSE]])
  /\ UNCHANGED staffRows

CreateInsert(c) ==
  /\ At(c, "account", "create")
  /\ InsertStaff(c, calls[c].row, Idle)

(* updateOfficerProfile: what differs from the row that was read is written, *)
(* after the new password has been hashed.  Moving an officer in bulk is one *)
(* such call after another.                                                  *)
updateOfficerProfile(c, i, phone, region, scope) ==
  LET row == staffRows[i] IN
  /\ i \in Existing
  /\ RegionalAdminMayManage(scope, row.role, row.region)
  /\ scope # None => region = None
  /\ row.role \in ManagedRoles /\ (row.role = "ADMIN" => region = None)
  /\ Starts(c, [route |-> "profile", step |-> "update", id |-> i,
                saw |-> [phone |-> row.phone, region |-> row.region],
                data |-> [phone |-> phone, region |-> IF region = None THEN row.region ELSE region]])
  /\ UNCHANGED staffRows

ProfileUpdate(c) ==
  LET i == calls[c].id  saw == calls[c].saw  data == calls[c].data
      phone  == IF data.phone = saw.phone THEN staffRows[i].phone ELSE data.phone
      region == IF data.region = saw.region THEN staffRows[i].region ELSE data.region
  IN
  /\ At(c, "profile", "update")
  /\ staffRows' = IF Collides(i, staffRows[i].email, phone) THEN staffRows
                  ELSE [staffRows EXCEPT ![i].phone = phone, ![i].region = region]
  /\ Ends(c)

-----------------------------------------------------------------------------
(* staffWebLogin.  The user name or e-mail that was typed finds an account   *)
(* of ours or none; one that we manage is checked here and now.              *)
WebLogin(c, local) ==
  /\ local # None => local \in Existing /\ staffRows[local].role \notin ManagedRoles
  /\ Starts(c, [route |-> "weblogin", step |-> "erp", local |-> local])
  /\ UNCHANGED staffRows

(* External: the ERP vouches for the credentials and says who they are.  It  *)
(* may not hand out a role that is managed here.                             *)
ErpVouches(c, role, code, email, phone) ==
  LET local == calls[c].local
      erp == [role |-> role, region |-> tryRegionFromBpClusterCode(code),
              email |-> email, phone |-> phone]
  IN
  /\ At(c, "weblogin", "erp")
  /\ Moves(c, IF role \in ManagedRoles THEN Idle
              ELSE IF local # None THEN [route |-> "weblogin", step |-> "sync", erp |-> erp, id |-> local]
              ELSE [route |-> "weblogin", step |-> "email", erp |-> erp])
  /\ UNCHANGED staffRows

(* Mutant: the account the ERP's e-mail leads to is taken as it is.          *)
WhoeverItIs(role) == TRUE
MayBeMirrored(role) == role \notin ManagedRoles

(* The row with exactly the e-mail the ERP reports.                          *)
LoginByEmail(c) ==
  LET erp == calls[c].erp
      found == {i \in Existing : staffRows[i].email = erp.email}
  IN
  /\ At(c, "weblogin", "email")
  /\ IF found = {} THEN Steps(c, "create")
     ELSE \E i \in found :
            Moves(c, IF MayBeMirrored(staffRows[i].role)
                     THEN [route |-> "weblogin", step |-> "sync", erp |-> erp, id |-> i] ELSE Idle)
  /\ UNCHANGED staffRows

LoginInsert(c) ==
  LET erp == calls[c].erp IN
  /\ At(c, "weblogin", "create")
  /\ InsertStaff(c, [role |-> erp.role, region |-> erp.region, email |-> erp.email,
                     phone |-> erp.phone, by |-> "erp", mirrored |-> TRUE],
                 [route |-> "weblogin", step |-> "sync", erp |-> erp, id |-> NewStaff])

Mirrored(i, erp, email, phone) ==
  [staffRows EXCEPT ![i].role = erp.role, ![i].region = erp.region, ![i].email = email,
                    ![i].phone = phone, ![i].mirrored = TRUE]

(* syncStaffFromErp: an identity somebody else has is left out, one write    *)
(* later.                                                                    *)
LoginSync(c) ==
  LET erp == calls[c].erp  i == calls[c].id IN
  /\ At(c, "weblogin", "sync")
  /\ IF Collides(i, erp.email, erp.phone) THEN Steps(c, "retry") /\ UNCHANGED staffRows
     ELSE staffRows' = Mirrored(i, erp, erp.email, erp.phone) /\ Ends(c)

LoginRetry(c) ==
  LET i == calls[c].id IN
  /\ At(c, "weblogin", "retry")
  /\ staffRows' = Mirrored(i, calls[c].erp, staffRows[i].email, staffRows[i].phone)
  /\ Ends(c)

StaffDies(c) == ~IsIdle(c) /\ Ends(c) /\ UNCHANGED staffRows

StaffNext ==
  \E c \in Calls :
    \/ \E region \in CallerScope, phone \in Phones, scope \in CallerScope :
         \/ \E role \in Roles, email \in Emails : createOfficer(c, role, region, email, phone, scope)
         \/ \E i \in StaffId : updateOfficerProfile(c, i, phone, region, scope)
    \/ CreateInsert(c) \/ ProfileUpdate(c)
    \/ \E local \in StaffId \cup {None} : WebLogin(c, local)
    \/ \E role \in Roles, code \in DOMAIN RegionByCode \cup {None}, email \in Emails, phone \in Phones :
         ErpVouches(c, role, code, email, phone)
    \/ LoginByEmail(c) \/ LoginInsert(c) \/ LoginSync(c) \/ LoginRetry(c) \/ StaffDies(c)

StaffSpec == StaffInit /\ [][StaffNext]_staffVars

-----------------------------------------------------------------------------
(* An account of a managed role was created by an admin and never written by *)
(* the ERP, however its sign-ins, e-mails and edits interleave; it has a     *)
(* region exactly if it is not an admin's; and a regional admin created none *)
(* but field staff (RU-2).                                                   *)
ManagedAccountsAreOurs ==
  \A i \in Existing :
    LET row == staffRows[i] IN
    /\ row.role \in ManagedRoles <=> ~row.mirrored
    /\ row.role \in ManagedRoles => (row.role = "ADMIN" <=> row.region = None)
    /\ row.by \in Regions => row.role \in FieldRoles
=============================================================================
