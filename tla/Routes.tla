-------------------------------- MODULE Routes --------------------------------
(***************************************************************************)
(* Who is let in where: the routes the controllers declare, the guard that *)
(* authenticates a request (modules/auth/jwt.strategy.ts), the one that    *)
(* asks for a role (common/guards/roles.guard.ts), and the region a        *)
(* request is then held to (common/region/regional-scope.ts and the        *)
(* controllers).  What a handler does once it is let in is modelled by its *)
(* component.                                                              *)
(*                                                                         *)
(* A route is the handler's name, the roles that may call it and its       *)
(* reach:                                                                  *)
(*   own        the caller's rows, conversations and requests;             *)
(*   portfolio  the distributors an officer looks after, all for an admin; *)
(*   region     the caller's region for a regional admin, refused without  *)
(*              one, the region asked for or all of them for an admin;     *)
(*   pinned     as that, but a regional admin who asks for one is refused; *)
(*   named      as that, but an admin has to name the region;              *)
(*   unnamed    as that, where the request cannot name it;                 *)
(*   listed     the picker of officers: see Reached;                       *)
(*   all        not held to a region.                                      *)
(* Left out: the payloads, their validation and the documentation of the   *)
(* routes, expiry and signatures of the tokens, the order of the routes.   *)
(***************************************************************************)
EXTENDS Scopes, FiniteSets

CONSTANTS
  StaffMembers,
  Distributors,
  StaffRolesSeen      \* the roles the staff may have

VARIABLES
  principals,   \* the Staff and Customer rows: [role, region, active]
  claims        \* the role a held access token states, None without a token

routeVars == <<calls, principals, claims>>

ROLES == {"CUSTOMER", "OFFICER", "LOADING_OFFICER", "WAREHOUSE_OFFICER", "REGIONAL_ADMIN", "ADMIN"}
STAFF == ROLES \ {"CUSTOMER"}

ASSUME RouteAssumption == StaffRolesSeen \subseteq STAFF /\ StaffMembers \cap Distributors = {}

Serves(roles, reach, handlers) == {[does |-> h, roles |-> roles, reach |-> reach] : h \in handlers}

-----------------------------------------------------------------------------
(* GET, POST, PATCH and DELETE under /admin.  A handler's roles replace its  *)
(* controller's.                                                             *)
AdminCustomerLists ==
  Serves({"ADMIN"}, "all", {"getDashboard"})
    \cup Serves({"ADMIN", "REGIONAL_ADMIN"}, "pinned", {"getAllCustomers"})
AdminCustomerReads ==
  Serves({"ADMIN"}, "all", {"exportCustomers", "getErpSyncStatus", "listUnmappedErpCustomers"})
    \cup Serves({"ADMIN", "REGIONAL_ADMIN"}, "region", {"getCustomerDetail"})
AdminCustomerWrites ==
  Serves({"ADMIN", "REGIONAL_ADMIN"}, "region", {"bulkReassignCustomers"})
    \cup Serves({"ADMIN"}, "all", {"reassignOfficer", "createTestCustomer"})
AdminOfficerList == Serves({"ADMIN", "REGIONAL_ADMIN", "OFFICER"}, "listed", {"getOfficers"})
AdminOfficerCreates ==
  Serves({"ADMIN", "REGIONAL_ADMIN"}, "region", {"createOfficer", "getOfficer"})
    \cup Serves({"ADMIN"}, "all", {"bulkOfficerRegion"})
AdminOfficerEdits ==
  Serves({"ADMIN", "REGIONAL_ADMIN"}, "region", {"updateOfficerStatus"})
    \cup Serves({"ADMIN"}, "all", {"reassignAllCustomers"})
AdminFlyers ==
  Serves({"ADMIN", "REGIONAL_ADMIN"}, "all",
         {"listFlyers", "createFlyer", "reorderFlyers", "updateFlyer", "deleteFlyer"})
    \cup Serves({"ADMIN"}, "all", {"deactivateOfficer"})

(* /admin/audit and /admin/broadcasts.                                       *)
AuditReads == Serves({"ADMIN", "REGIONAL_ADMIN"}, "region", {"searchChats", "exportChats"})
AuditTickets == Serves({"ADMIN", "REGIONAL_ADMIN"}, "region", {"searchTickets", "exportTickets"})
Broadcasts ==
  Serves({"ADMIN", "REGIONAL_ADMIN"}, "named", {"sendRegional"})
    \cup Serves({"ADMIN", "REGIONAL_ADMIN"}, "region", {"sendIndividual", "history"})
    \cup Serves({"ADMIN"}, "all", {"broadcastDetail"})

(* /auth and /contact are open; what the ERP calls asks for its key.         *)
SignIns ==
  Serves({}, "own", {"requestOtp", "verifyOtp", "customerLogin", "staffLogin", "staffWebLogin"})
SignOuts ==
  Serves({}, "own", {"requestStaffPasswordReset", "refresh", "logout", "verifyStaffPasswordResetOtp",
                     "resetStaffPasswordWithToken", "confirmStaffPasswordReset"})
ContactForm == Serves({}, "own", {"submitContact"})
ErpWebhooks == Serves({"ERP"}, "all", {"syncBalance", "syncStock", "syncPurchase", "syncPayment"})
ErpPasses ==
  Serves({"ERP"}, "all", {"syncCustomers", "syncOrderStatus", "syncAccountBalance", "syncDefaultOfficer"})
ErpProducts == Serves({"CUSTOMER", "ADMIN", "REGIONAL_ADMIN", "OFFICER"}, "all", {"listForCustomer"})

(* /customers/me and /customers/me/waybills.                                 *)
CustomerErp == Serves({"CUSTOMER"}, "own", {"getStatement", "getOfficerChats", "getErpWaybills", "getErpWaybillDetail"})
CustomerProfile ==
  Serves({"CUSTOMER"}, "own", {"getHome", "getStockBalance", "getProfile", "updateCustomerPhoto", "changeCustomerPassword"})
CustomerMoney ==
  Serves({"CUSTOMER"}, "own", {"getPurchases", "getPurchaseDetail", "getPayments", "getAccount"})
CustomerStatements ==
  Serves({"CUSTOMER"}, "own", {"getAccountStatement", "getStockStatement", "getInvoiceDetail"})
CustomerRecords ==
  Serves({"CUSTOMER"}, "own", {"getErpRefunds", "getErpRefund", "getErpCollections", "getErpCollection",
                               "getErpReceivables", "getErpReceivable"})
CustomerLoads == Serves({"CUSTOMER"}, "own", {"listLoads", "acceptTerms", "submitLoad", "updateLoad", "loadDetail"})

(* /chat and /tickets; the thread of a customer is the team's, an admin's    *)
(* and their region's.                                                       *)
ChatOwn == Serves({"CUSTOMER"}, "own", {"getMyThread", "sendFromCustomer", "markRead"})
ChatThread ==
  Serves({"OFFICER", "ADMIN", "REGIONAL_ADMIN"}, "region", {"markStaffRead"})
    \cup Serves({"CUSTOMER", "OFFICER", "ADMIN", "REGIONAL_ADMIN"}, "region", {"getMessages", "sendMessage"})
ChatAudit == Serves({"ADMIN", "REGIONAL_ADMIN"}, "region", {"auditCustomerChats"})
TicketLists ==
  Serves({"CUSTOMER"}, "own", {"createTicket", "getCustomerTickets"}) \cup Serves({"OFFICER"}, "portfolio", {"getOfficerTickets"})
TicketThread ==
  Serves({"CUSTOMER", "OFFICER", "ADMIN", "REGIONAL_ADMIN"}, "region", {"getTicket", "replyToTicket"})
    \cup Serves({"OFFICER", "ADMIN", "REGIONAL_ADMIN"}, "region", {"updateTicketStatus"})

(* /officers.                                                                *)
OfficerLists == Serves({"OFFICER", "ADMIN"}, "portfolio", {"getOfficerDashboard", "getCustomers"})
OfficerTabs ==
  Serves({"OFFICER", "ADMIN"}, "portfolio",
         {"getOfficerCustomerDetail", "getCustomerOverview", "getCustomerOrders", "getCustomerInvoices"})
OfficerDocuments ==
  Serves({"OFFICER", "ADMIN"}, "portfolio",
         {"getCustomerInvoiceDetail", "getCustomerStock", "getCustomerWaybills", "getCustomerWaybillDetail"})
OfficerWork == Serves({"OFFICER", "ADMIN"}, "portfolio", {"getChats", "getStock"})
OfficerLoads ==
  Serves({"OFFICER", "ADMIN"}, "portfolio", {"listLoadingRequests", "assignLoadingRequest", "cancelLoadingRequest"})

(* /regional and /loading.                                                   *)
RegionalReads ==
  Serves({"REGIONAL_ADMIN", "ADMIN"}, "named", {"getRegionalCustomers", "getRegionalDashboard", "listRequests"})
RegionalLoads ==
  Serves({"REGIONAL_ADMIN", "ADMIN"}, "unnamed", {"assignRequest", "cancelRequest"})
    \cup Serves({"LOADING_OFFICER", "WAREHOUSE_OFFICER", "ADMIN"}, "own", {"getLegacyQueue", "updateLegacyStatus"})
LoadingQueue ==
  Serves({"LOADING_OFFICER", "WAREHOUSE_OFFICER"}, "own", {"getMyQueue", "getQueueItem", "updateLoadingStatus"})
LoadingRecords == Serves({"LOADING_OFFICER", "WAREHOUSE_OFFICER"}, "own", {"updateDescription", "recordWaybill"})

(* What anyone signed in may call.                                           *)
Bell == Serves(ROLES, "own", {"listNotifications", "readAll", "readOne"})
Devices == Serves(ROLES, "own", {"registerDevice"})
PushTokens == Serves(ROLES, "own", {"registerPushToken", "unregisterPushToken"})
Stream == Serves(ROLES, "own", {"stream"})
Uploads == Serves(ROLES, "all", {"upload"})
OwnAccount == Serves(ROLES, "own", {"getMe", "updateMyPhoto", "changeMyPassword"})

Table ==
  UNION {AdminCustomerLists, AdminCustomerReads, AdminCustomerWrites, AdminOfficerList, AdminOfficerCreates,
         AdminOfficerEdits, AdminFlyers, AuditReads, AuditTickets, Broadcasts, SignIns, SignOuts, ContactForm,
         ErpWebhooks, ErpPasses, ErpProducts, CustomerErp, CustomerProfile, CustomerMoney, CustomerStatements,
         CustomerRecords, CustomerLoads, ChatOwn, ChatThread, ChatAudit, TicketLists, TicketThread, OfficerLists,
         OfficerTabs, OfficerDocuments, OfficerWork, OfficerLoads, RegionalReads, RegionalLoads, LoadingQueue,
         LoadingRecords, Bell, Devices, PushTokens, Stream, Uploads, OwnAccount}

(* Routes that are told apart by who may call them and what they reach.      *)
RouteKinds == {[roles |-> r.roles, reach |-> r.reach] : r \in Table}

-----------------------------------------------------------------------------
(* Mutant: the role is taken from the token.                                 *)
FromTheToken(u) ==
  IF claims[u] # None /\ principals[u].active
  THEN [id |-> u, role |-> claims[u], region |-> principals[u].region] ELSE None

(* What a request is served as: the row, as it is now; None for a token      *)
(* whose row is deactivated or on hold.                                      *)
validate(u) ==
  IF claims[u] # None /\ principals[u].active
  THEN [id |-> u, role |-> principals[u].role, region |-> principals[u].region] ELSE None

(* RolesGuard.  A route without roles has no guard, and the ERP's have one   *)
(* that compares a key.                                                      *)
canActivate(kind, user) == user.role \in kind.roles

(* requireOwnRegion, customerListRegion, scopeToViewer, scopeOf,             *)
(* resolveRegion and getOfficers: the regions a request reaches, none where  *)
(* it is refused.  An admin asks for one region or for all.                  *)
OwnRegion(user) == IF user.region = None THEN {} ELSE {user.region}
Reached(user, kind, asked) ==
  CASE kind.reach = "region" ->
         IF user.role = "REGIONAL_ADMIN" THEN OwnRegion(user) ELSE IF asked = None THEN Regions ELSE {asked}
    [] kind.reach = "pinned" ->
         IF user.role # "REGIONAL_ADMIN" THEN IF asked = None THEN Regions ELSE {asked}
         ELSE IF asked = None THEN OwnRegion(user) ELSE {}
    [] kind.reach = "named" ->
         IF user.role = "ADMIN" THEN {asked} \ {None}
         ELSE IF asked \in {None, user.region} THEN OwnRegion(user) ELSE {}
    [] kind.reach = "unnamed" -> IF user.role = "ADMIN" THEN {} ELSE OwnRegion(user)
    [] kind.reach = "listed" ->
         LET region == IF user.role = "ADMIN" THEN asked ELSE user.region
         IN IF region = None THEN Regions ELSE {region}
    [] OTHER -> Regions

(* A request is authenticated and answered in two steps: the row may change  *)
(* in between.                                                               *)
Request(c) ==
  \E kind \in RouteKinds, asked \in Regions \cup {None} :
    /\ \E user \in {validate(u) : u \in DOMAIN claims} :
         /\ user # None /\ canActivate(kind, user)
         /\ Starts(c, [route |-> "request", step |-> "handler", kind |-> kind, asked |-> asked, user |-> user])
    /\ UNCHANGED <<principals, claims>>
RequestWithoutToken(c) ==
  /\ \E kind \in RouteKinds :
       /\ kind.roles \in {{}, {"ERP"}}
       /\ Starts(c, [route |-> "request", step |-> "handler", kind |-> kind, asked |-> None, user |-> None])
  /\ UNCHANGED <<principals, claims>>
Answer(c) == At(c, "request", "handler") /\ Ends(c) /\ UNCHANGED <<principals, claims>>

(* generateToken: the claims of a token are those of the row it is made for. *)
IssueToken(u) ==
  /\ principals[u].active /\ claims' = [claims EXCEPT ![u] = principals[u].role]
  /\ UNCHANGED <<calls, principals>>

(* External to this module: StaffAccounts and OfficerAssignment change roles *)
(* and regions, and deactivate; the ERP puts a distributor on hold.          *)
PrincipalChanges ==
  /\ \E u \in StaffMembers, r \in StaffRolesSeen, g \in Regions \cup {None}, a \in BOOLEAN :
       principals' = [principals EXCEPT ![u] = [role |-> r, region |-> g, active |-> a]]
  /\ UNCHANGED <<calls, claims>>
OnHold ==
  /\ \E u \in Distributors : principals' = [principals EXCEPT ![u].active = ~@]
  /\ UNCHANGED <<calls, claims>>

RouteInit ==
  /\ calls = [c \in Calls |-> Idle]
  /\ principals = [u \in StaffMembers \cup Distributors |->
       [role |-> IF u \in Distributors THEN "CUSTOMER" ELSE "ADMIN", region |-> None, active |-> TRUE]]
  /\ claims = [u \in StaffMembers \cup Distributors |-> None]

RouteNext ==
  \/ \E c \in Calls : Request(c) \/ RequestWithoutToken(c) \/ Answer(c)
  \/ \E u \in DOMAIN claims : IssueToken(u)
  \/ PrincipalChanges \/ OnHold

RouteSpec == RouteInit /\ [][RouteNext]_routeVars

-----------------------------------------------------------------------------
RouteTypes ==
  /\ principals \in [StaffMembers \cup Distributors -> [role : ROLES, region : CallerScope, active : BOOLEAN]]
  /\ claims \in [StaffMembers \cup Distributors -> ROLES \cup {None}]
  /\ \A c \in Calls : calls[c] # Idle => calls[c].kind \in RouteKinds /\ calls[c].asked \in CallerScope

(* US-15.5, RA-03: a request is served as the row of its caller stands when  *)
(* it comes in, whatever it was when the token was made.  Nothing is served  *)
(* to who is deactivated or on hold, a role that was taken away opens        *)
(* nothing, and a regional admin reaches the region of their row: no other,  *)
(* and none at all if it has none, but for the picker.                       *)
HeldToTheRow ==
  [][\A c \in Calls :
       calls[c] = Idle /\ calls'[c].route = "request" /\ calls'[c].user # None =>
         LET call == calls'[c]  row == principals[call.user.id]
             reached == Reached(call.user, call.kind, call.asked)
         IN /\ row.active /\ row.role \in call.kind.roles
            /\ row.role = "REGIONAL_ADMIN" /\ call.kind.reach \in {"region", "pinned", "named", "unnamed"} =>
                 reached \subseteq {row.region}
            /\ row.role # "ADMIN" /\ row.region # None /\ call.kind.reach = "listed" =>
                 reached = {row.region}]_routeVars
=============================================================================
