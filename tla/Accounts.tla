------------------------------ MODULE Accounts ------------------------------
(***************************************************************************)
(* The screens on which staff see the distributors they look after: the    *)
(* officers' (modules/officer/officer.service.ts), the admins'             *)
(* (modules/admin/admin.service.ts), the regional admins'                  *)
(* (modules/regional/regional.service.ts) and the audit's (modules/audit/  *)
(* audit.service.ts), and those on which a distributor sees them           *)
(* (modules/customer/customer.service.ts).  They change nothing; each      *)
(* gathers its figures by queries of its own.                              *)
(*                                                                         *)
(* Left out: search terms, sort columns but the recency of conversations,  *)
(* pages (Directory has those), names, phones and photographs.             *)
(***************************************************************************)
EXTENDS Stock

CONSTANTS
  AccountOfficers,
  AccountStates       \* what the portal may hold of an account

VARIABLES
  accounts,     \* each account: see AccountType
  creditFeed,   \* whether the ERP's credit feed answers
  working       \* the officers that are active

accountVars == <<calls, stock, stockFeed, accounts, creditFeed, working>>

(* credits: the ERP's credit records of the code; base is CREDIT_AMT less    *)
(* CREDIT_PAY, grant CREDIT_AMT1, inForce whether today is in its window,    *)
(* day its EFFECTIVE_DATE, 0 where it states none.  messages and tickets are *)
(* sets of rows; a message's number is its time.                             *)
CreditRecord == [id : Nat, day : Nat, base : Int, grant : Int, inForce : BOOLEAN]
AccountType ==
  [pointer : AccountOfficers \cup {None}, joins : SUBSET AccountOfficers, region : Regions,
   stored : Int, credits : SUBSET CreditRecord,
   tickets : SUBSET [id : Nat, open : BOOLEAN],
   messages : SUBSET [at : Nat, staff : AccountOfficers, fromCustomer : BOOLEAN, read : BOOLEAN]]

ASSUME AccountAssumption ==
  /\ IsFiniteSet(Regions) /\ None \notin AccountOfficers
  /\ AccountStates \subseteq AccountType
  /\ \A a \in AccountStates :
       /\ IsFiniteSet(a.tickets) /\ IsFiniteSet(a.messages) /\ IsFiniteSet(a.credits)
       /\ \A t, u \in a.tickets : t.id = u.id => t = u
       /\ \A c, d \in a.credits : c.id = d.id => c = d

AccountTypes ==
  /\ calls = [c \in Calls |-> Idle]
  /\ stock \in [Accts -> StockStates] /\ stockFeed \in {"absent", "fails", "answers"}
  /\ accounts \in [Accts -> AccountStates] /\ \A k \in Accts : accounts[k] \in AccountType
  /\ creditFeed \in BOOLEAN /\ working \subseteq AccountOfficers

AccountInit ==
  /\ calls = [c \in Calls |-> Idle]
  /\ StockInit
  /\ accounts \in [Accts -> AccountStates]
  /\ creditFeed \in BOOLEAN /\ working = AccountOfficers

-----------------------------------------------------------------------------
(* What the screens are made of.                                             *)

(* ORDER BY EFFECTIVE_DATE DESC NULLS LAST, id DESC.                         *)
Later(c, d) == c.day > d.day \/ (c.day = d.day /\ c.id > d.id)

(* ERP_ACCOUNT_BALANCE_FOR_CUSTOMER_SQL: the records of one code, the first  *)
(* of them, and the grants that are in force.                                *)
Newest(k) == {c \in accounts[k].credits : \A d \in accounts[k].credits : ~Later(d, c)}
Granted(k) == SumFunction([c \in {d \in accounts[k].credits : d.inForce} |-> c.grant])
getRunningBalance(k) ==
  IF ~creditFeed \/ Newest(k) = {} THEN None
  ELSE (CHOOSE c \in Newest(k) : TRUE).base + Granted(k)

(* The distributor's own screens ask for one customer.                       *)
resolveBalance(k) == Or(getRunningBalance(k), accounts[k].stored)

(* ERP_ACCOUNT_BALANCES_FOR_CUSTOMERS_SQL: the records of all the codes in   *)
(* one query, DISTINCT ON the code, the grants joined on by code.            *)
CreditsOf(ks) == UNION {{[of |-> k, row |-> c] : c \in accounts[k].credits} : k \in ks}
Governing(ks) ==
  {r \in CreditsOf(ks) : \A s \in CreditsOf(ks) : s.of = r.of => ~Later(s.row, r.row)}

(* Mutant: grants that have expired go on counting.                          *)
SupplementaryEver(ks, k) ==
  SumFunction([r \in {s \in CreditsOf(ks) : s.of = k} |-> r.row.grant])
Supplementary(ks, k) ==
  SumFunction([r \in {s \in CreditsOf(ks) : s.of = k /\ s.row.inForce} |-> r.row.grant])

getRunningBalances(ks) ==
  [k \in IF creditFeed THEN {r.of : r \in Governing(ks)} ELSE {} |->
     (CHOOSE r \in Governing(ks) : r.of = k).row.base + Supplementary(ks, k)]

(* The staff's screens ask for all the customers they show.                  *)
balanceByErpId(ks) ==
  LET derived == getRunningBalances(ks)
  IN [k \in ks |-> IF k \in DOMAIN derived THEN derived[k] ELSE accounts[k].stored]
balanceForCustomer(k) == balanceByErpId({k})[k]

UNREAD_FROM_CUSTOMER(k) == {m \in accounts[k].messages : m.fromCustomer /\ ~m.read}
OpenTickets(k) == {t \in accounts[k].tickets : t.open}

TotalOpen(ks) == SumFunction([k \in ks |-> Cardinality(OpenTickets(k))])
TotalUnread(ks) == SumFunction([k \in ks |-> Cardinality(UNREAD_FROM_CUSTOMER(k))])

portfolioOf(o) == {k \in Accts : accounts[k].pointer = o \/ o \in accounts[k].joins}

(* A viewer is an officer, or None for an admin, who sees everything.        *)
RoleScope(viewer) == IF viewer = None THEN Accts ELSE portfolioOf(viewer)

(* ensureAssignedCustomer, the gate of the tabs, asks for the two itself.    *)
ensureAssignedCustomer(viewer, k) ==
  viewer = None \/ accounts[k].pointer = viewer \/ viewer \in accounts[k].joins

lastMessage(ms) == IF ms = {} THEN None ELSE Max({m.at : m \in ms})

-----------------------------------------------------------------------------
(* GET /officers/dashboard.                                                  *)
DashboardSummary(o) ==
  LET ks == portfolioOf(o)  balances == balanceByErpId(ks) IN
  [totalDistributors |-> Cardinality(ks), overdueBalances |-> {k \in ks : balances[k] < 0},
   openTickets |-> TotalOpen(ks), unreadMessages |-> TotalUnread(ks)]

(* GET /officers/customers: the filters, and withDerivedColumns.  Overdue    *)
(* asks the stored column, as does the order of the rows by balance.         *)
Matches(k, filter) ==
  CASE filter = "overdue"        -> accounts[k].stored < 0
    [] filter = "activeTickets"  -> OpenTickets(k) # {}
    [] filter = "unreadMessages" -> UNREAD_FROM_CUSTOMER(k) # {}
    [] OTHER                     -> TRUE

AssignedCustomers(viewer, filter) == {k \in RoleScope(viewer) : Matches(k, filter)}

(* The row of a customer on a page; its stock is one of those given.         *)
AssignedRow(page, k) ==
  [walletBalance |-> balanceByErpId(page)[k], stock |-> stockByCustomer(k),
   openTickets |-> Cardinality(OpenTickets(k)),
   unreadMessages |-> Cardinality(UNREAD_FROM_CUSTOMER(k)),
   lastMessageAt |-> lastMessage(accounts[k].messages)]

(* GET /officers/chats: the accounts with a message, the latest first.       *)
Chats(viewer) ==
  LET last(k) == lastMessage(accounts[k].messages) IN
  CHOOSE s \in SetToSeqs({k \in RoleScope(viewer) : accounts[k].messages # {}}) :
    \A i, j \in DOMAIN s : i < j => last(s[i]) >= last(s[j])

ChatRow(k) == [lastMessageAt |-> lastMessage(accounts[k].messages),
               unreadMessages |-> Cardinality(UNREAD_FROM_CUSTOMER(k))]

(* The tabs of an account: overview, invoices, stock and the older detail.   *)
Overview(k) == [walletBalance |-> balanceForCustomer(k), assignedOfficers |-> accounts[k].joins]
InvoicesTab(k) == [walletBalance |-> balanceForCustomer(k)]
StockTab(k, w) == getStockBalanceBreakdown(k, w)
LegacyDetail(k) == [outstandingBalance |-> balanceForCustomer(k), supportTickets |-> accounts[k].tickets]

-----------------------------------------------------------------------------
(* The admins'.                                                              *)

DashboardStats ==
  LET of(r) == {k \in Accts : accounts[k].region = r}
      balances == balanceByErpId(Accts) IN
  [customers |-> Cardinality(Accts), unReadMessage |-> TotalUnread(Accts),
   openTickets |-> TotalOpen(Accts), totalOutstandingBalance |-> SumFunction(balances),
   customersWithoutOfficer |-> {k \in Accts : accounts[k].pointer = None},
   activeOfficers |-> Cardinality(working),
   byRegion |-> [r \in Regions |->
     [distributors |-> Cardinality(of(r)), walletBalance |-> SumFunction([k \in of(r) |-> balances[k]]),
      openTickets |-> TotalOpen(of(r))]]]

(* withErpColumns, getCustomerDetail and a line of exportCustomersCsv.       *)
AdminRow(page, k) ==
  [outstandingBalance |-> balanceByErpId(page)[k], hasOfficer |-> accounts[k].pointer # None,
   stock |-> stockByCustomer(k), openTickets |-> Cardinality(OpenTickets(k))]
AdminDetail(k, scope) ==
  IF InScope(scope, accounts[k].region) THEN AdminRow({k}, k) @@ [officerAssignments |-> accounts[k].joins] ELSE None
CsvLine(rows, k) ==
  [outstandingBalance |-> balanceByErpId(rows)[k], openTickets |-> Cardinality(OpenTickets(k)),
   assignedOfficers |-> accounts[k].joins]

(* getOfficers with openTicketsByOfficer, and getOfficerDetail: by pointer,  *)
(* not by portfolio.                                                         *)
OfficerRow(o) ==
  LET ks == {k \in Accts : accounts[k].pointer = o}
  IN [customers |-> Cardinality(ks), supportTickets |-> TotalOpen(ks)]
OfficerDetail(o) ==
  LET ks == {k \in Accts : accounts[k].pointer = o}
  IN [customers |-> ks, distributors |-> Cardinality(ks), openTickets |-> TotalOpen(ks),
      chatThreads |-> Cardinality({k \in ks : accounts[k].messages # {}})]

(* getRegionalDashboard.                                                     *)
RegionalDashboard(r) ==
  LET ks == {k \in Accts : accounts[k].region = r}
  IN [totalDistributors |-> Cardinality(ks), openTickets |-> TotalOpen(ks)]

(* searchChats and exportChatsCsv: a thread for each pair, newest first;     *)
(* searchTickets.  The region of a regional admin overrides the filter.      *)
ChatThreads(region) ==
  LET pairs == {p \in Accts \X AccountOfficers :
                  InScope(region, accounts[p[1]].region) /\ \E m \in accounts[p[1]].messages : m.staff = p[2]}
      of(p) == {m \in accounts[p[1]].messages : m.staff = p[2]}
  IN {[customer |-> p[1], officer |-> p[2], messageCount |-> Cardinality(of(p)),
       lastMessageAt |-> lastMessage(of(p))] : p \in pairs}
AuditedTickets(region) ==
  UNION {{<<k, t.id>> : t \in OpenTickets(k)} : k \in {j \in Accts : InScope(region, accounts[j].region)}}

-----------------------------------------------------------------------------
(* The distributor's.                                                        *)

(* getHome, getProfile and the Account tab of getInvoices.                   *)
HomeBalance(k) == [amount |-> resolveBalance(k), isLow |-> resolveBalance(k) < 0]
ProfileBalance(k) == resolveBalance(k)
AccountTab(k) == [amount |-> resolveBalance(k), isOverdue |-> resolveBalance(k) < 0]

(* getOfficerChats: the rows' officers and the pointer's, who are active.    *)
OfficerChats(k) ==
  LET officers == accounts[k].joins \cup ({accounts[k].pointer} \ {None})
      of(o) == {m \in accounts[k].messages : m.staff = o}
  IN {[officer |-> o, isPrimary |-> o = accounts[k].pointer, lastMessageAt |-> lastMessage(of(o)),
       unreadMessages |-> Cardinality({m \in of(o) : ~m.fromCustomer /\ ~m.read})]
        : o \in officers \cap working}

-----------------------------------------------------------------------------
(* External to the screens: what other handlers and the ERP write.           *)
AccountChanges ==
  /\ \/ /\ \E k \in Accts, a \in AccountStates : a # accounts[k] /\ accounts' = [accounts EXCEPT ![k] = a]
        /\ UNCHANGED <<creditFeed, working>>
     \/ /\ creditFeed' = ~creditFeed
        /\ UNCHANGED <<accounts, working>>
     \/ /\ \E o \in AccountOfficers :
             working' = IF o \in working THEN working \ {o} ELSE working \cup {o}
        /\ UNCHANGED <<accounts, creditFeed>>
  /\ UNCHANGED <<calls, stock, stockFeed>>

AccountNext ==
  \/ AccountChanges
  \/ StockChanges /\ UNCHANGED <<calls, accounts, creditFeed, working>>

AccountSpec == AccountInit /\ [][AccountNext]_accountVars

-----------------------------------------------------------------------------
(* AO-C1: the tiles are the sums of the list they lead to, the list is what  *)
(* opens, and conversations are the accounts of it with something unread and *)
(* others.                                                                   *)
TilesAreTheList ==
  \A o \in AccountOfficers :
    LET tiles == DashboardSummary(o)  list == AssignedCustomers(o, "all")
        active == AssignedCustomers(o, "activeTickets")
        unread == AssignedCustomers(o, "unreadMessages") IN
    /\ list = {k \in Accts : ensureAssignedCustomer(o, k)}
    /\ tiles.totalDistributors = Cardinality(list)
    /\ tiles.openTickets = SumFunction([k \in active |-> AssignedRow(active, k).openTickets])
    /\ tiles.unreadMessages = SumFunction([k \in unread |-> AssignedRow(unread, k).unreadMessages])
    /\ tiles.unreadMessages = SumFunction([i \in DOMAIN Chats(o) |-> ChatRow(Chats(o)[i]).unreadMessages])
    /\ tiles.overdueBalances = {k \in list : HomeBalance(k).isLow}
    /\ OfficerRow(o).supportTickets = OfficerDetail(o).openTickets
    /\ OfficerDetail(o).customers \subseteq list /\ PortfolioAgrees(list)

(* The balance a distributor is shown, derived by a query for them alone, is *)
(* the one staff are shown, derived for everybody on the page, whichever     *)
(* page they are on; the dashboard's totals add up the distributors' own.    *)
BalancesAgree ==
  /\ \A k \in Accts :
       {Overview(k).walletBalance, InvoicesTab(k).walletBalance, LegacyDetail(k).outstandingBalance,
        ProfileBalance(k), AccountTab(k).amount} = {HomeBalance(k).amount}
  /\ \A page \in SUBSET Accts : \A k \in page :
       {AssignedRow(page, k).walletBalance, AdminRow(page, k).outstandingBalance,
        CsvLine(page, k).outstandingBalance} = {HomeBalance(k).amount}
  /\ DashboardStats.totalOutstandingBalance = SumFunction([k \in Accts |-> HomeBalance(k).amount])
  /\ DashboardStats.totalOutstandingBalance =
       SumFunction([r \in Regions |-> DashboardStats.byRegion[r].walletBalance])

(* The regions make up the whole: for the admins' dashboard and the audit.   *)
RegionsAgree ==
  /\ \A r \in Regions :
       /\ RegionalDashboard(r).openTickets = DashboardStats.byRegion[r].openTickets
       /\ Cardinality(AuditedTickets(r)) = RegionalDashboard(r).openTickets
  /\ UNION {ChatThreads(r) : r \in Regions} = ChatThreads(None)
  /\ Cardinality(AuditedTickets(None)) = DashboardStats.openTickets

(* A distributor is offered the officers who can open their thread, if they  *)
(* are active, and no others.                                                *)
OfficersAgree ==
  \A k \in Accts :
    {r.officer : r \in OfficerChats(k)} = {o \in working : ensureAssignedCustomer(o, k)}

(* Screens of the same account agree, whoever looks and whichever queries    *)
(* gathered the figures (AO-C1, AO-P2, US-10.7): while nothing is written.   *)
ScreensAgree ==
  TilesAreTheList /\ BalancesAgree /\ RegionsAgree /\ OfficersAgree /\ StockAgrees /\ OrderAddsUp

(* officer.service.ts: "every tile counts over the officer's whole           *)
(* portfolio, so clicking one and landing on GET /officers/customers shows   *)
(* exactly the customers the tile counted", and of the filter, "Overdue =    *)
(* negative balance (matches the dashboard's overdue definition)".           *)
OverdueTileIsTheList ==
  \A o \in AccountOfficers : DashboardSummary(o).overdueBalances = AssignedCustomers(o, "overdue")
=============================================================================
