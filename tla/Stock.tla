-------------------------------- MODULE Stock --------------------------------
(***************************************************************************)
(* What distributors have paid for and not collected.  Four screens show   *)
(* it: the card and the breakdown of modules/customer/customer.service.ts, *)
(* the column of the staff's lists (common/customers/stock-balance.ts) and *)
(* the whole portfolio's (modules/officer/officer.service.ts).  All prefer *)
(* the ERP's open orders (modules/erp/stock-balance.ts); each falls back   *)
(* on the portal's own orders and loads in its own way.                    *)
(*                                                                         *)
(* The ERP files orders under ids of its own, and one customer code may    *)
(* have several.  The card and the breakdown follow the id seen last       *)
(* (stock-balance.ts:141-146), the portfolio adds up all of them, and the  *)
(* column shows whichever the database returns last (erp-stock-balance.    *)
(* service.ts:295-308), although it "cannot show a different number"       *)
(* (erp-stock-balance.service.ts:256-259, stock-balance.ts:180-181).       *)
(*                                                                         *)
(* Left out: specifications, the dates a product was last ordered on, the  *)
(* order of the rows, codes looked up in another table, and an id filed    *)
(* under two codes.                                                        *)
(***************************************************************************)
EXTENDS Scopes, Integers, FiniteSets, FiniteSetsExt, SequencesExt

CONSTANTS
  Accts,
  StockStates,        \* what the ERP and the portal may hold for an account
  DayWindows          \* [from, to], either of them None

VARIABLES
  stock,        \* what is held of each account: see StockType
  stockFeed     \* "absent", "fails" (the query throws) or "answers"

stockVars == <<calls, stock, stockFeed>>

(* lines: the ERP's order lines under any CUSTOMER_ID of the code; latest:   *)
(* the CUSTOMER_ID that was seen last.  orders: the Purchase rows, their     *)
(* PurchaseItems, what the ERP lists for them, and the cartons of their      *)
(* completed loads.  unlinked: cartons of completed loads of no order.       *)
OpenLine ==
  [id : Nat, customer : Nat, product : STRING, open : BOOLEAN, approved : BOOLEAN,
   ordered : Nat, delivered : Nat, day : Nat]
ItemOf(money) ==
  [product : STRING, code : STRING \cup {None}, quantity : Nat, price : money, total : money]
StockType ==
  [lines : SUBSET OpenLine, latest : Nat, unlinked : Nat,
   orders : SUBSET [id : Nat, day : Nat, items : Seq(ItemOf(Int)), listed : Seq(ItemOf(Int \cup {None})),
                    loaded : Nat, value : Nat]]

StockBalance ==
  [totalPurchased : Int, totalLoaded : Int, totalRemaining : Int,
   products : SUBSET [productName : STRING, quantityPaid : Int, quantityLoaded : Int, quantityRemaining : Int]]

ASSUME StockAssumption ==
  /\ IsFiniteSet(Accts) /\ None \notin Int \cup StockBalance
  /\ StockStates \subseteq StockType
  /\ \A s \in StockStates : IsFiniteSet(s.lines) /\ IsFiniteSet(s.orders)
  /\ DayWindows \subseteq [from : Nat \cup {None}, to : Nat \cup {None}]

StockInit ==
  /\ stock \in [Accts -> StockStates]
  /\ stockFeed \in {"absent", "fails", "answers"}

Floor(n) == Max({0, n})
Always == [from |-> None, to |-> None]
Within(day, w) == (w.from = None \/ w.from <= day) /\ (w.to = None \/ day <= w.to)

-----------------------------------------------------------------------------
(* Open and approved orders of the window, under every id of the codes       *)
(* (ERP_CUSTOMER_IDS_FOR_CODES_SQL, ERP_STOCK_BALANCE_FOR_CUSTOMERS_SQL).    *)
StockLines(ks, w) ==
  UNION {{[of |-> k, line |-> l] : l \in {m \in stock[k].lines :
            m.open /\ m.approved /\ Within(m.day, w)}} : k \in ks}

(* ERP_STOCK_BALANCE_FOR_CUSTOMER_SQL: those under the id that was seen last.*)
OwnLines(k, w) == {r \in StockLines({k}, w) : r.line.customer = stock[k].latest}

Ordered1(rows) == SumFunction([r \in rows |-> r.line.ordered])
Delivered(rows) == SumFunction([r \in rows |-> r.line.delivered])

(* shape: one row per product, floored each; the totals are floored as one.  *)
shape(rows) ==
  LET of(p) == {r \in rows : r.line.product = p}
      paid == Ordered1(rows)  loaded == Delivered(rows)
  IN [totalPurchased |-> paid, totalLoaded |-> loaded, totalRemaining |-> Floor(paid - loaded),
      products |-> {[productName |-> p, quantityPaid |-> Ordered1(of(p)),
                     quantityLoaded |-> Delivered(of(p)),
                     quantityRemaining |-> Floor(Ordered1(of(p)) - Delivered(of(p)))]
                      : p \in {r.line.product : r \in rows}}]

Nothing == [totalPurchased |-> 0, totalLoaded |-> 0, totalRemaining |-> 0, products |-> {}]

(* None where the feed is absent, fails, or has no such orders.              *)
Derived(rows) == IF stockFeed # "answers" \/ rows = {} THEN None ELSE shape(rows)

getStockBalance(k, w) == Derived(OwnLines(k, w))
getStockBalanceForCustomers(ks, w) == Derived(StockLines(ks, w))

Uncollected(balance) == [balance EXCEPT !.products = {p \in @ : p.quantityRemaining > 0}]

-----------------------------------------------------------------------------
(* The portal's own figures.                                                 *)

Quantity(order, p) ==
  SumFunction([i \in DOMAIN order.items |->
                 IF order.items[i].product = p THEN order.items[i].quantity ELSE 0])
Paid(order) == SumFunction([i \in DOMAIN order.items |-> order.items[i].quantity])

(* Math.round of a share.                                                    *)
Rounded(a, b) == (2 * a + b) \div (2 * b)
Share(order, i) == IF Paid(order) > 0 THEN Rounded(order.items[i].quantity * order.loaded, Paid(order)) ELSE 0

(* The breakdown apportions the loads of an order over its products.         *)
projectedBreakdown(k, w) ==
  LET orders_ == {o \in stock[k].orders : Within(o.day, w)}
      names == UNION {{o.items[i].product : i \in DOMAIN o.items} : o \in orders_}
      paid(p) == SumFunction([o \in orders_ |-> Quantity(o, p)])
      loaded(p) == SumFunction([o \in orders_ |-> SumFunction([i \in DOMAIN o.items |->
                     IF o.items[i].product = p THEN Share(o, i) ELSE 0])])
      rows == {[productName |-> p, quantityPaid |-> paid(p), quantityLoaded |-> loaded(p),
                quantityRemaining |-> Floor(paid(p) - loaded(p))] : p \in names}
  IN [totalPurchased |-> SumFunction([r \in rows |-> r.quantityPaid]),
      totalLoaded |-> SumFunction([r \in rows |-> r.quantityLoaded]),
      totalRemaining |-> SumFunction([r \in rows |-> r.quantityRemaining]), products |-> rows]

(* The card caps the loads of an order at what was paid for it.              *)
projectedCard(k) ==
  LET paid == SumFunction([o \in stock[k].orders |-> Paid(o)])
      loaded == SumFunction([o \in stock[k].orders |-> Min({o.loaded, Paid(o)})])
  IN [totalPurchased |-> paid, totalLoaded |-> loaded, totalRemaining |-> Floor(paid - loaded), products |-> {}]

(* The column takes every completed load of the customer, of an order or not.*)
projectedColumn(k) ==
  LET paid == SumFunction([o \in stock[k].orders |-> Paid(o)])
      loaded == SumFunction([o \in stock[k].orders |-> o.loaded]) + stock[k].unlinked
  IN [totalPurchased |-> paid, totalLoaded |-> loaded, totalRemaining |-> Floor(paid - loaded), products |-> {}]

-----------------------------------------------------------------------------
(* The screens.                                                              *)

Or(balance, otherwise) == IF balance = None THEN otherwise ELSE balance

HomeCard(k) == Or(getStockBalance(k, Always), projectedCard(k))

(* getStockBalanceBreakdown: a window without orders is answered with zeros  *)
(* as long as there is a feed, whether or not it has just failed.            *)
getStockBalanceBreakdown(k, w) ==
  Uncollected(Or(getStockBalance(k, w),
                 IF w # Always /\ stockFeed # "absent" THEN Nothing ELSE projectedBreakdown(k, w)))

(* stockByErpId: a sum for each id, without regard to products.  Those of    *)
(* one code overwrite one another, so the column shows any one of them.      *)
stockByErpId(k) ==
  {LET rows == {r \in StockLines({k}, Always) : r.line.customer = id}
   IN [totalPurchased |-> Ordered1(rows), totalLoaded |-> Delivered(rows),
       totalRemaining |-> Floor(Ordered1(rows) - Delivered(rows)), products |-> {}]
     : id \in {r.line.customer : r \in StockLines({k}, Always)}}

(* What the column may show.                                                 *)
stockByCustomer(k) ==
  IF stockFeed # "answers" \/ stockByErpId(k) = {} THEN {projectedColumn(k)} ELSE stockByErpId(k)

(* GET /officers/stock has no figures of the portal's own.                   *)
PortfolioStock(ks, w) == Uncollected(Or(getStockBalanceForCustomers(ks, w), Nothing))

(* GET /erp/products: what the picker of a load offers.                      *)
listForCustomer(k) ==
  LET balance == getStockBalance(k, Always)
  IN IF balance = None THEN {} ELSE Uncollected(balance).products

-----------------------------------------------------------------------------
(* The lines of one order on its own screens (getPurchaseDetail and          *)
(* getInvoiceDetail): the portal's items, or what the ERP lists, which       *)
(* states no money for some.                                                 *)

LinesOf(order) ==
  IF order.items # <<>> THEN order.items
  ELSE IF stockFeed = "answers" THEN order.listed ELSE <<>>

LineKey(line) == IF line.code = None THEN <<"name", line.product>> ELSE <<"code", line.code>>

(* mergeLinesByProduct: money is None only where no line states any, and the *)
(* price survives where every line agrees on it.                             *)
mergeLinesByProduct(ls) ==
  {LET same  == {i \in DOMAIN ls : LineKey(ls[i]) = key}
       money == {i \in same : ls[i].total # None}
   IN [key |-> key,
       quantity |-> SumFunction([i \in same |-> ls[i].quantity]),
       amount |-> IF money = {} THEN None ELSE SumFunction([i \in money |-> ls[i].total]),
       prices |-> {ls[i].price : i \in same}]
     : key \in {LineKey(ls[i]) : i \in DOMAIN ls}}

subtotal(order) ==
  IF order.items = <<>> THEN order.value
  ELSE SumFunction([i \in DOMAIN order.items |-> order.items[i].total])

-----------------------------------------------------------------------------
(* External: the ERP's rows, the projector's, and loads that are completed.  *)
StockChanges ==
  \/ /\ \E k \in Accts, s \in StockStates : s # stock[k] /\ stock' = [stock EXCEPT ![k] = s]
     /\ UNCHANGED stockFeed
  \/ /\ \E f \in {"absent", "fails", "answers"} : f # stockFeed /\ stockFeed' = f
     /\ UNCHANGED stock

-----------------------------------------------------------------------------
Figures(b) == <<b.totalPurchased, b.totalLoaded, b.totalRemaining>>

(* All that is open for the customer is filed under the id seen last.        *)
OneErpId(k) == StockLines({k}, Always) = OwnLines(k, Always)

(* The card and the breakdown show the same figures where the feed has       *)
(* orders for the customer, figures the column may show as well, and agree   *)
(* on what was paid for where it has none.  The column shows no other        *)
(* figures if the customer has one id.  The picker offers what the breakdown *)
(* shows; a window shows no more than its own orders.                        *)
StockAgrees ==
  \A k \in Accts :
    LET card == HomeCard(k)  whole == getStockBalanceBreakdown(k, Always)
        columns == stockByCustomer(k) IN
    /\ card.totalPurchased = whole.totalPurchased
    /\ getStockBalance(k, Always) # None =>
         Figures(card) = Figures(whole) /\ \E c \in columns : Figures(c) = Figures(card)
    /\ OneErpId(k) => \A c \in columns :
         /\ c.totalPurchased = card.totalPurchased
         /\ getStockBalance(k, Always) # None => Figures(c) = Figures(card)
    /\ stockFeed = "answers" => listForCustomer(k) = {} \/ listForCustomer(k) = whole.products
    /\ stockFeed = "answers" => \A w \in DayWindows :
         getStockBalanceBreakdown(k, w).totalPurchased <= whole.totalPurchased

(* The portfolio's screen adds up what the ERP has for its distributors'     *)
(* cards, and what is filed under the ids the cards pass over.               *)
PassedOver(k) == Ordered1(StockLines({k}, Always) \ OwnLines(k, Always))
PortfolioAgrees(ks) ==
  stockFeed = "answers" =>
    PortfolioStock(ks, Always).totalPurchased
      = SumFunction([k \in ks |-> Or(getStockBalance(k, Always), Nothing).totalPurchased + PassedOver(k)])

(* Merging the lines of an order loses neither cartons nor money.            *)
OrderAddsUp ==
  \A k \in Accts : \A o \in stock[k].orders :
    LET ls == LinesOf(o)  rows == mergeLinesByProduct(ls)
        priced == {r \in rows : r.amount # None}
    IN /\ SumFunction([r \in rows |-> r.quantity]) = SumFunction([i \in DOMAIN ls |-> ls[i].quantity])
       /\ o.items # <<>> => SumFunction([r \in priced |-> r.amount]) = subtotal(o)
=============================================================================
