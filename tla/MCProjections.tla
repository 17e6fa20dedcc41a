---------------------------- MODULE MCProjections ----------------------------
(***************************************************************************)
(* Instances for TLC of the components that carry the ERP's rows into the  *)
(* portal's and show them, of the guards in front of every screen, and of  *)
(* the notices of a load, which fairness is assumed for as it is for the   *)
(* reconcilers.  They are checked side by side, as in MCServices.          *)
(***************************************************************************)
EXTENDS OrderStatus, Reconcilers, Ledger, Directory, Accounts, Routes, TLC

VARIABLES
  live,       \* the component that is at work
  loads, loadCalls, loadTold, loadLost   \* those of LoadingLifecycle

MCRegionByCode == 1 :> "lagos"

(* Lines of an order: open and shipped in full; half of one shipped; closed; *)
(* and not yet approved.                                                     *)
Line(id, approved, closed, ordered, delivered) ==
  [id |-> id, approved |-> approved, closed |-> closed, ordered |-> ordered, delivered |-> delivered]
MCFeeds ==
  {{Line(1, TRUE, FALSE, 2, 0)}, {Line(1, TRUE, FALSE, 1, 1), Line(2, TRUE, FALSE, 1, 1)},
   {Line(1, TRUE, TRUE, 1, 1)}, {Line(1, FALSE, FALSE, 1, 0), Line(2, TRUE, TRUE, 1, 1)}}

MCLockKey == [j \in Jobs |-> IF j = "order-status" THEN 5530001 ELSE 5530002]
MCTimed == {<<"p1", "order-status">>, <<"p2", "order-status">>, <<"p1", "default-officer">>}
MCSlots == MCTimed \cup {<<"p2", "customer-projection">>}

(* What the ERP holds for an account: nothing; lines of which some are       *)
(* overdelivered, closed or not approved, or filed under another id of the   *)
(* code; orders that only the portal has, one without items of its own.      *)
StockLine(id, customer, p, open, approved, ordered, delivered, day) ==
  [id |-> id, customer |-> customer, product |-> p, open |-> open, approved |-> approved, ordered |-> ordered,
   delivered |-> delivered, day |-> day]
Item(p, code, quantity, price, total) ==
  [product |-> p, code |-> code, quantity |-> quantity, price |-> price, total |-> total]
Order(id, day, items, listed, loaded, value) ==
  [id |-> id, day |-> day, items |-> items, listed |-> listed, loaded |-> loaded, value |-> value]
Empty == [lines |-> {}, latest |-> 1, orders |-> {}, unlinked |-> 0]
MCStockStates ==
  {Empty,
   [lines |-> {}, latest |-> 1,
    orders |-> {Order(1, 1, <<Item("a", "A", 2, 1, 2), Item("b", None, 1, 3, 3), Item("a", None, 1, 0, 0)>>, <<>>, 5, 5)},
    unlinked |-> 1],
   [lines |-> {StockLine(1, 1, "a", TRUE, TRUE, 1, 2, 1), StockLine(2, 1, "b", TRUE, TRUE, 3, 1, 2),
               StockLine(3, 1, "b", FALSE, TRUE, 2, 2, 2)}, latest |-> 1,
    orders |-> {Order(1, 2, <<>>, <<Item("b", "B", 3, None, None), Item("b", "B", 1, None, 2)>>, 1, 7)},
    unlinked |-> 0],
   [lines |-> {StockLine(4, 1, "a", TRUE, FALSE, 2, 0, 1), StockLine(5, 2, "b", TRUE, TRUE, 4, 1, 2)}, latest |-> 1,
    orders |-> {Order(2, 1, <<Item("a", "A", 3, 2, 6)>>, <<>>, 1, 6),
                Order(3, 2, <<Item("b", "B", 1, 1, 1)>>, <<>>, 0, 1)},
    unlinked |-> 0],
   [lines |-> {StockLine(6, 1, "a", TRUE, TRUE, 2, 0, 1), StockLine(7, 2, "a", TRUE, TRUE, 1, 1, 1)}, latest |-> 2,
    orders |-> {}, unlinked |-> 0]}
MCDayWindows == {[from |-> 1, to |-> 1], [from |-> 2, to |-> None]}

(* Accounts without an officer, with a primary one, with two, and one whose  *)
(* pointer its rows do not know; without credit records, with one, and with  *)
(* two of different days or of one.                                          *)
Ticket(id, open) == [id |-> id, open |-> open]
Said(at, staff, fromCustomer, read) ==
  [at |-> at, staff |-> staff, fromCustomer |-> fromCustomer, read |-> read]
Credit(id, day, base, grant, inForce) ==
  [id |-> id, day |-> day, base |-> base, grant |-> grant, inForce |-> inForce]
Account(pointer, joins, region, stored, credits, tickets, messages) ==
  [pointer |-> pointer, joins |-> joins, region |-> region, stored |-> stored, credits |-> credits,
   tickets |-> tickets, messages |-> messages]
MCAccountStates ==
  {Account(None, {}, "lagos", 0, {}, {}, {}),
   Account("o1", {}, "lagos", -1, {Credit(1, 0, 1, 4, FALSE)}, {Ticket(1, TRUE)},
           {Said(1, "o1", TRUE, FALSE), Said(2, "o1", FALSE, FALSE)}),
   Account("o1", {"o1", "o2"}, "west", 2, {Credit(1, 2, -3, 1, TRUE), Credit(2, 1, 5, 1, TRUE)}, {Ticket(1, TRUE), Ticket(2, FALSE)},
           {Said(1, "o2", TRUE, FALSE), Said(3, "o1", TRUE, TRUE)}),
   Account("o2", {"o1"}, "west", -1, {Credit(1, 1, 0, 2, TRUE), Credit(2, 1, -1, 3, FALSE)}, {}, {Said(2, "o1", TRUE, FALSE)})}

-----------------------------------------------------------------------------
OrderRows      == <<orders, feed, now, unstamped>>
ReconcilerRows == <<passes, available, running, present, due, ingests, faults>>
LedgerRows     == <<purchases, receipts, statements>>
DirectoryRows  == <<masters, customers>>
AccountRows    == <<stock, stockFeed, accounts, creditFeed, working>>
RouteRows      == <<principals, claims>>
LoadingRows    == <<loads, loadCalls, loadTold, loadLost>>

Components == {"orders", "reconcilers", "ledger", "directory", "accounts", "routes", "loading"}

First == CHOOSE c \in Calls : TRUE

(* One load and one handler, which may die at each of its statements.        *)
Loading == INSTANCE LoadingLifecycle
  WITH rows <- loads, calls <- loadCalls, told <- loadTold, lost <- loadLost,
       Requests <- {"load"}, Officers <- AccountOfficers, Desk <- {"desk"}, Calls <- {First},
       Cartons <- {1}, Notes <- {"late"}, LegacyTargets <- {"LOADING_IN_PROGRESS", "COMPLETED"},
       Distributor <- "distributor", RegionalAdmins <- "admins"

(* What is not at work has one state, and two handlers overlap only where    *)
(* orders are synced: elsewhere the handlers read.                           *)
ProjectionInit ==
  /\ live \in Components
  /\ OrderInit /\ ReconcilerInit /\ LedgerInit /\ DirectoryInit /\ AccountInit /\ RouteInit
  /\ Loading!Init
  /\ live # "accounts" =>
       /\ stock = [k \in Accts |-> Empty]
       /\ stockFeed = "absent" /\ creditFeed = FALSE
       /\ accounts = [k \in Accts |-> Account(None, {}, "lagos", 0, {}, {}, {})]

Others(component) ==
  /\ live = component /\ live' = live
  /\ component # "orders" => UNCHANGED OrderRows
  /\ component # "reconcilers" => UNCHANGED ReconcilerRows
  /\ component # "ledger" => UNCHANGED LedgerRows
  /\ component # "directory" => UNCHANGED DirectoryRows
  /\ component # "accounts" => UNCHANGED AccountRows
  /\ component # "routes" => UNCHANGED RouteRows
  /\ component # "loading" => UNCHANGED LoadingRows

OneAtATime == \A c \in Calls \ {First} : calls'[c] = Idle

ProjectionNext ==
  \/ Others("orders") /\ OrderNext
  \/ Others("reconcilers") /\ ReconcilerNext
  \/ Others("ledger") /\ LedgerNext /\ OneAtATime
  \/ Others("directory") /\ DirectoryNext /\ OneAtATime
  \/ Others("accounts") /\ AccountNext
  \/ Others("routes") /\ RouteNext /\ OneAtATime
  \/ Others("loading") /\ Loading!Next /\ UNCHANGED calls

projectionVars == <<calls, live, OrderRows, ReconcilerRows, LedgerRows, DirectoryRows,
                    AccountRows, RouteRows, LoadingRows>>

(* ReconcilerFairness and the fairness of the loading routes, for the one of *)
(* them that is at work.                                                     *)
ProjectionFairness ==
  /\ \A s \in Slots :
       /\ WF_projectionVars(Others("reconcilers") /\ PassStep(s))
       /\ s \in Timed => WF_projectionVars(Others("reconcilers") /\ Wake(s))
  /\ WF_projectionVars(Others("loading") /\ Loading!Write(First) /\ UNCHANGED calls)
  /\ WF_projectionVars(Others("loading") /\ Loading!Notify(First) /\ UNCHANGED calls)

ProjectionSpec == ProjectionInit /\ [][ProjectionNext]_projectionVars /\ ProjectionFairness

(* Every row and every handler of the component at work has its type; loads  *)
(* have theirs in LoadingLifecycle.                                          *)
ProjectionTypes ==
  CASE live = "orders"      -> OrderTypes
    [] live = "reconcilers" -> ReconcilerTypes
    [] live = "ledger"      -> LedgerTypes
    [] live = "directory"   -> DirectoryTypes
    [] live = "accounts"    -> AccountTypes
    [] live = "routes"      -> RouteTypes
    [] OTHER                -> TRUE

(* ScreensAgree, where the accounts are at work: elsewhere they are empty.   *)
AccountScreensAgree == live = "accounts" => ScreensAgree

(* Every status a load reaches is in time announced to the distributor,      *)
(* unless a handler died after its write.                                    *)
StatusReachesDistributor == Loading!StatusReachesDistributor
=============================================================================
