---------------------------- MODULE OrderStatus ----------------------------
(***************************************************************************)
(* The status of a distributor's orders.  The ERP's webhook (syncPurchase  *)
(* in modules/erp/erp.service.ts) writes the state it is told, translated  *)
(* by a published table; the reconciler (modules/erp/order-status.ts)      *)
(* derives it again from the order's lines in the ERP feed.  Both stamp    *)
(* the moment the order last changed state.                                *)
(*                                                                         *)
(* Left out: the totals of an order, and payments and stock levels, which  *)
(* their webhooks write as they arrive.                                    *)
(***************************************************************************)
EXTENDS Handlers, Integers, FiniteSetsExt

CONSTANTS
  Orders,
  States,             \* what the ERP sends as an order's state
  Feeds,              \* the lines the feed may hold for an order
  MaxChanges          \* bound on the clock

ASSUME OrderAssumption ==
  /\ MaxChanges \in Nat /\ None \notin Feeds
  /\ \A f \in Feeds : f # {} /\ IsFiniteSet(f) /\ \A l \in f :
       /\ DOMAIN l = {"id", "approved", "closed", "ordered", "delivered"}
       /\ {l.approved, l.closed} \subseteq BOOLEAN /\ {l.ordered, l.delivered} \subseteq Nat

VARIABLES
  orders,       \* the Purchase rows, by their erpId
  feed,         \* erp_raw.raw_sales_order by DOC_NO, with its changed_at
  now,          \* moves with every write
  unstamped     \* history: orders written by a webhook that had read another status

orderVars == <<calls, orders, feed, now, unstamped>>

OrderStatus == {"PENDING", "PROCESSING", "LOADED", "DISPATCHED", "DELIVERED", "CLOSED", "CANCELLED"}

Purchase == [status : OrderStatus, statusUpdatedAt : 0..MaxChanges, items : 0..MaxChanges]

OrderCall == {Idle} \cup [route : {"purchase"}, step : {"upsert"}, order : Orders,
                          status : OrderStatus, existing : OrderStatus \cup {None}]

OrderTypes ==
  /\ calls \in [Calls -> OrderCall]
  /\ orders \in [Orders -> Purchase \cup {None}]
  /\ feed \in [Orders -> [lines : Feeds, changed_at : 0..MaxChanges] \cup {None}]
  /\ now \in 0..MaxChanges /\ unstamped \subseteq Orders

OrderInit ==
  /\ calls = [c \in Calls |-> Idle]
  /\ orders = [o \in Orders |-> None] /\ feed = [o \in Orders |-> None]
  /\ now = 0 /\ unstamped = {}

TimePasses == now < MaxChanges /\ now' = now + 1

-----------------------------------------------------------------------------
(* ORDER_STATUS_BY_ERP_STATE, by what it maps to.                            *)
StatesOf(status) ==
  CASE status = "PENDING"    -> {"PENDING", "NEW", "OPEN", "UNAPPROVED", "AWAITING_APPROVAL"}
    [] status = "PROCESSING" -> {"PROCESSING", "APPROVED", "IN_PROGRESS", "PARTIALLY_DELIVERED"}
    [] status = "LOADED"     -> {"LOADED", "LOADING_COMPLETED"}
    [] status = "DISPATCHED" -> {"DISPATCHED", "SHIPPED", "IN_TRANSIT"}
    [] status = "DELIVERED"  -> {"DELIVERED", "RECEIVED"}
    [] status = "CLOSED"     -> {"CLOSED", "COMPLETED", "SETTLED", "FINISHED"}
    [] status = "CANCELLED"  -> {"CANCELLED", "CANCELED", "VOID", "REJECTED"}

isKnownErpOrderState(state) == \E s \in OrderStatus : state \in StatesOf(s)

(* A state the table does not have is read as PENDING.                       *)
orderStatusFromErp(state) ==
  IF isKnownErpOrderState(state) THEN CHOOSE s \in OrderStatus : state \in StatesOf(s)
  ELSE "PENDING"

(* ERP_ORDER_ROLLUP_SQL and ERP_ORDER_STATUS_RULES_SQL.                      *)
derivedStatus(lines) ==
  LET ordered   == MapThenSumSet(LAMBDA l : l.ordered, lines)
      delivered == MapThenSumSet(LAMBDA l : l.delivered, lines)
  IN IF \E l \in lines : ~l.approved THEN "PENDING"
     ELSE IF \A l \in lines : l.closed THEN "CLOSED"
     ELSE IF ordered > 0 /\ delivered >= ordered THEN "DELIVERED"
     ELSE "PROCESSING"

-----------------------------------------------------------------------------
(* POST /erp/sync/purchase: one transaction, which reads the status and then *)
(* writes the order and its items.                                           *)
PurchaseRead(c, o, state) ==
  /\ Starts(c, [route |-> "purchase", step |-> "upsert", order |-> o,
                status |-> orderStatusFromErp(state),
                existing |-> IF orders[o] = None THEN None ELSE orders[o].status])
  /\ UNCHANGED <<orders, feed, now, unstamped>>

(* Mutant: the stamp of every sync.                                          *)
StampEverySync(call) == TRUE
MovesStamp(call) == call.existing # call.status

PurchaseUpsert(c) ==
  LET o == calls[c].order  row == orders[o] IN
  /\ At(c, "purchase", "upsert") /\ TimePasses
  /\ orders' = [orders EXCEPT ![o] =
       [status |-> calls[c].status, items |-> now',
        statusUpdatedAt |-> IF row = None \/ MovesStamp(calls[c]) THEN now' ELSE row.statusUpdatedAt]]
  /\ unstamped' = IF row # None /\ row.status # calls[c].existing
                  THEN unstamped \cup {o} ELSE unstamped
  /\ Ends(c)
  /\ UNCHANGED feed

(* The customer is unknown, or a statement fails: the transaction is undone. *)
PurchaseThrows(c) == ~IsIdle(c) /\ Ends(c) /\ UNCHANGED <<orders, feed, now, unstamped>>

(* ERP_ORDER_STATUS_RECONCILE_SQL, over the orders both sides have.          *)
Differs(o) == orders[o] # None /\ feed[o] # None /\ orders[o].status # derivedStatus(feed[o].lines)

ReconcileOrders ==
  /\ \E o \in Orders : Differs(o)
  /\ orders' = [o \in Orders |-> IF Differs(o)
       THEN [orders[o] EXCEPT !.status = derivedStatus(feed[o].lines),
                              !.statusUpdatedAt = feed[o].changed_at]
       ELSE orders[o]]
  /\ UNCHANGED <<calls, feed, now, unstamped>>

(* External: the ingest of an order's lines.                                 *)
IngestOrder(o, lines) ==
  /\ TimePasses
  /\ feed' = [feed EXCEPT ![o] = [lines |-> lines, changed_at |-> now']]
  /\ UNCHANGED <<calls, orders, unstamped>>

OrderNext ==
  \/ \E c \in Calls :
       \/ \E o \in Orders, s \in States : PurchaseRead(c, o, s)
       \/ PurchaseUpsert(c) \/ PurchaseThrows(c)
  \/ ReconcileOrders
  \/ \E o \in Orders, f \in Feeds : IngestOrder(o, f)

OrderSpec == OrderInit /\ [][OrderNext]_orderVars

-----------------------------------------------------------------------------
(* statusUpdatedAt is when the order last changed state and not when it was  *)
(* last synced: in every step of the webhook and of the reconciler the stamp *)
(* moves exactly when the status does - except in an order a webhook wrote   *)
(* after another writer had changed what it read.                            *)
StampMovesWithStatus ==
  [][\A o \in Orders :
       orders[o] # None /\ orders'[o] # None /\ o \notin unstamped' =>
         ((orders'[o].status = orders[o].status)
            <=> (orders'[o].statusUpdatedAt = orders[o].statusUpdatedAt))]_orderVars
=============================================================================
