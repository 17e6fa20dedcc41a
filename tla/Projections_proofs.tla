------------------------- MODULE Projections_proofs -------------------------
(***************************************************************************)
(* What is made of the ERP's rows, and who is let near it: the statuses of *)
(* OrderStatus, the statements of Ledger, the pages of Directory, the      *)
(* guards of Routes, the jobs of Reconcilers and the screens of Stock and  *)
(* Accounts, a part each, and the six of them side by side.                *)
(***************************************************************************)
EXTENDS MCProjections, Counting

-----------------------------------------------------------------------------
(* What holds of the status of orders and of its stamp for every set of    *)
(* orders, states and feeds, and any number of webhooks in flight.         *)

(* Nothing is stamped ahead of the clock; and an order that carries the      *)
(* stamp of its feed carries the status of its feed, which is why the        *)
(* reconciler never corrects a status without moving the stamp.              *)
StampInv ==
  \A o \in Orders :
    /\ orders[o] # None => orders[o].statusUpdatedAt <= now
    /\ feed[o] # None => feed[o].changed_at <= now
    /\ orders[o] # None /\ feed[o] # None /\ o \notin unstamped =>
         (orders[o].statusUpdatedAt = feed[o].changed_at
            => orders[o].status = derivedStatus(feed[o].lines))

OrderInv == OrderTypes /\ StampInv

(* What StampMovesWithStatus says of one order.                              *)
StampMoves(o) ==
  orders[o] # None /\ orders'[o] # None /\ o \notin unstamped' =>
    ((orders'[o].status = orders[o].status)
       <=> (orders'[o].statusUpdatedAt = orders[o].statusUpdatedAt))

FeedRow == [lines : Feeds, changed_at : 0..MaxChanges]

-----------------------------------------------------------------------------
(* The translation table and the rules of the roll-up answer statuses.       *)

LEMMA StatusFromErp == ASSUME NEW state  PROVE orderStatusFromErp(state) \in OrderStatus
  <1>1. CASE isKnownErpOrderState(state)
    BY <1>1 DEF isKnownErpOrderState, orderStatusFromErp
  <1>2. CASE ~isKnownErpOrderState(state)
    BY <1>2 DEF orderStatusFromErp, OrderStatus
  <1>. QED  BY <1>1, <1>2

LEMMA StatusFromLines == ASSUME NEW ls  PROVE derivedStatus(ls) \in OrderStatus
  BY DEF derivedStatus, OrderStatus

LEMMA OrderIdleCall == Idle \in OrderCall /\ Idle.route # "purchase"
  BY DEF Idle, OrderCall

LEMMA PurchaseCall ==
  ASSUME NEW call \in OrderCall, call.route = "purchase"
  PROVE  call.order \in Orders /\ call.status \in OrderStatus
  BY OrderIdleCall DEF OrderCall

-----------------------------------------------------------------------------
LEMMA OrderInitially == OrderInit => OrderInv
  <1>. SUFFICES ASSUME OrderInit  PROVE OrderInv
    OBVIOUS
  <1>1. OrderTypes
    BY OrderIdleCall, OrderAssumption DEF OrderInit, OrderTypes
  <1>. QED  BY <1>1 DEF OrderInv, StampInv, OrderInit

LEMMA UpsertStep ==
  ASSUME OrderInv, NEW c \in Calls, PurchaseUpsert(c)
  PROVE  OrderInv' /\ \A o \in Orders : StampMoves(o)
  <1>. DEFINE call == calls[c]
              p == call.order
              row == [status |-> call.status, items |-> now',
                      statusUpdatedAt |-> IF orders[p] = None \/ MovesStamp(call)
                                          THEN now' ELSE orders[p].statusUpdatedAt]
  <1>1. /\ call \in OrderCall /\ call.route = "purchase"
        /\ now \in 0..MaxChanges /\ now' = now + 1 /\ now' \in 0..MaxChanges
        /\ orders \in [Orders -> Purchase \cup {None}]
    BY OrderAssumption DEF PurchaseUpsert, At, TimePasses, OrderInv, OrderTypes
  <1>2. p \in Orders /\ call.status \in OrderStatus
    BY <1>1, PurchaseCall
  <1>3. orders' = [orders EXCEPT ![p] = row] /\ feed' = feed
    BY DEF PurchaseUpsert
  <1>4. /\ unstamped \subseteq unstamped' /\ unstamped' \subseteq Orders
        /\ p \notin unstamped' /\ orders[p] # None => orders[p].status = call.existing
    BY <1>2 DEF PurchaseUpsert, OrderInv, OrderTypes
  <1>5. row \in Purchase /\ (orders[p] # None => orders[p] \in Purchase)
    BY <1>1, <1>2 DEF Purchase
  <1>6. /\ row.status = call.status
        /\ row.statusUpdatedAt = IF orders[p] = None \/ MovesStamp(call)
                                 THEN now' ELSE orders[p].statusUpdatedAt
    OBVIOUS
  <1>. HIDE DEF row
  <1>7. \A o \in Orders : orders'[o] = IF o = p THEN row ELSE orders[o]
    BY <1>1, <1>2, <1>3
  <1>8. OrderTypes'
    <2>1. calls' \in [Calls -> OrderCall]
      BY OrderIdleCall DEF PurchaseUpsert, Ends, Moves, OrderInv, OrderTypes
    <2>2. orders' \in [Orders -> Purchase \cup {None}]
      BY <1>1, <1>2, <1>3, <1>5
    <2>. QED  BY <1>1, <1>3, <1>4, <2>1, <2>2 DEF OrderInv, OrderTypes
  <1>9. ASSUME NEW o \in Orders, feed[o] # None
        PROVE  feed[o] \in FeedRow /\ feed[o].changed_at <= now
    BY <1>9 DEF OrderInv, OrderTypes, StampInv, FeedRow
  <1>10. ASSUME NEW o \in Orders
         PROVE  /\ StampMoves(o)
                /\ orders'[o] # None => orders'[o].statusUpdatedAt <= now'
                /\ feed'[o] # None => feed'[o].changed_at <= now'
                /\ orders'[o] # None /\ feed'[o] # None /\ o \notin unstamped' =>
                     (orders'[o].statusUpdatedAt = feed'[o].changed_at
                        => orders'[o].status = derivedStatus(feed'[o].lines))
    <2>1. feed'[o] # None => feed'[o].changed_at \in Nat /\ feed'[o].changed_at <= now
      BY <1>3, <1>9 DEF FeedRow
    <2>2. orders[o] # None =>
            orders[o].statusUpdatedAt \in Nat /\ orders[o].statusUpdatedAt <= now
      BY DEF OrderInv, OrderTypes, StampInv, Purchase
    <2>3. CASE o # p
      <3>1. orders'[o] = orders[o]
        BY <1>7, <2>3
      <3>. QED  BY <1>1, <1>3, <1>4, <2>1, <2>2, <3>1 DEF OrderInv, StampInv, StampMoves
    <2>4. CASE o = p /\ (orders[p] = None \/ MovesStamp(call))
      <3>1. orders'[o] = row /\ row.statusUpdatedAt = now'
        BY <1>6, <1>7, <2>4
      <3>2. StampMoves(o)
        <4>. SUFFICES ASSUME orders[o] # None, o \notin unstamped'
                      PROVE  /\ row.status # orders[o].status
                             /\ row.statusUpdatedAt # orders[o].statusUpdatedAt
          BY <3>1 DEF StampMoves
        <4>1. row.status # orders[o].status
          BY <1>4, <1>6, <2>4 DEF MovesStamp
        <4>. QED  BY <1>1, <2>2, <3>1, <4>1
      <3>. QED  BY <1>1, <2>1, <3>1, <3>2
    <2>5. CASE o = p /\ orders[p] # None /\ ~MovesStamp(call)
      <3>1. orders'[o] = row /\ row.statusUpdatedAt = orders[o].statusUpdatedAt
        BY <1>6, <1>7, <2>5
      <3>2. o \notin unstamped' => row.status = orders[o].status
        BY <1>4, <1>6, <2>5 DEF MovesStamp
      <3>. QED  BY <1>1, <1>3, <1>4, <2>1, <2>2, <2>5, <3>1, <3>2 DEF OrderInv, StampInv, StampMoves
    <2>. QED  BY <2>3, <2>4, <2>5
  <1>. QED  BY <1>8, <1>10 DEF OrderInv, StampInv

LEMMA ReconcileStep ==
  ASSUME OrderInv, ReconcileOrders
  PROVE  OrderInv' /\ \A o \in Orders : StampMoves(o)
  <1>. DEFINE status(o) == derivedStatus(feed[o].lines)
  <1>1. /\ UNCHANGED <<calls, feed, now, unstamped>>
        /\ \A o \in Orders : orders'[o] =
             IF Differs(o) THEN [orders[o] EXCEPT !.status = status(o),
                                                  !.statusUpdatedAt = feed[o].changed_at]
             ELSE orders[o]
        /\ orders' = [o \in Orders |-> orders'[o]]
    BY DEF ReconcileOrders
  <1>. HIDE DEF status
  <1>2. ASSUME NEW o \in Orders, Differs(o)
        PROVE  /\ orders[o] # None /\ feed[o] # None /\ orders[o] \in Purchase
               /\ status(o) \in OrderStatus /\ status(o) # orders[o].status
               /\ feed[o].changed_at \in 0..MaxChanges
               /\ status(o) = derivedStatus(feed[o].lines)
    BY <1>2, StatusFromLines DEF Differs, OrderInv, OrderTypes, status
  <1>3. ASSUME NEW o \in Orders, Differs(o)
        PROVE  /\ orders'[o] \in Purchase /\ orders'[o].status = status(o)
               /\ orders'[o].statusUpdatedAt = feed[o].changed_at
    BY <1>1, <1>2, <1>3 DEF Purchase
  <1>4. OrderTypes'
    <2>1. \A o \in Orders : orders'[o] \in Purchase \cup {None}
      BY <1>1, <1>3 DEF OrderInv, OrderTypes
    <2>. QED  BY <1>1, <2>1 DEF OrderInv, OrderTypes
  <1>5. ASSUME NEW o \in Orders
        PROVE  /\ StampMoves(o)
               /\ orders'[o] # None => orders'[o].statusUpdatedAt <= now'
               /\ feed'[o] # None => feed'[o].changed_at <= now'
               /\ orders'[o] # None /\ feed'[o] # None /\ o \notin unstamped' =>
                    (orders'[o].statusUpdatedAt = feed'[o].changed_at
                       => orders'[o].status = derivedStatus(feed'[o].lines))
    <2>1. CASE Differs(o)
      BY <1>1, <1>2, <1>3, <2>1 DEF OrderInv, StampInv, StampMoves
    <2>2. CASE ~Differs(o)
      BY <1>1, <2>2 DEF OrderInv, StampInv, StampMoves
    <2>. QED  BY <2>1, <2>2
  <1>. QED  BY <1>4, <1>5 DEF OrderInv, StampInv

LEMMA IngestStep ==
  ASSUME OrderInv, NEW p \in Orders, NEW f \in Feeds, IngestOrder(p, f)
  PROVE  OrderInv' /\ \A o \in Orders : StampMoves(o)
  <1>1. /\ UNCHANGED <<calls, orders, unstamped>>
        /\ now \in 0..MaxChanges /\ now' = now + 1 /\ now' \in 0..MaxChanges
        /\ feed' = [feed EXCEPT ![p] = [lines |-> f, changed_at |-> now']]
        /\ feed \in [Orders -> FeedRow \cup {None}]
    BY OrderAssumption DEF IngestOrder, TimePasses, OrderInv, OrderTypes, FeedRow
  <1>2. [lines |-> f, changed_at |-> now'] \in FeedRow
    BY <1>1 DEF FeedRow
  <1>3. OrderTypes'
    <2>1. feed' \in [Orders -> FeedRow \cup {None}]
      BY <1>1, <1>2
    <2>. QED  BY <1>1, <2>1 DEF OrderInv, OrderTypes, FeedRow
  <1>4. ASSUME NEW o \in Orders
        PROVE  /\ orders'[o] # None => orders'[o].statusUpdatedAt <= now'
               /\ feed'[o] # None => feed'[o].changed_at <= now'
               /\ orders'[o] # None /\ feed'[o] # None /\ o \notin unstamped' =>
                    (orders'[o].statusUpdatedAt = feed'[o].changed_at
                       => orders'[o].status = derivedStatus(feed'[o].lines))
    <2>1. orders[o] # None =>
            orders[o].statusUpdatedAt \in Nat /\ orders[o].statusUpdatedAt <= now
      BY DEF OrderInv, OrderTypes, StampInv, Purchase
    <2>2. CASE o = p
      <3>1. feed'[o].changed_at = now'
        BY <1>1, <2>2
      <3>. QED  BY <1>1, <2>1, <3>1
    <2>3. CASE o # p
      <3>1. feed'[o] = feed[o] /\ (feed[o] # None => feed[o].changed_at \in Nat)
        BY <1>1, <2>3 DEF FeedRow
      <3>. QED  BY <1>1, <2>1, <3>1 DEF OrderInv, StampInv
    <2>. QED  BY <2>2, <2>3
  <1>5. \A o \in Orders : StampMoves(o)
    BY <1>1 DEF StampMoves
  <1>. QED  BY <1>3, <1>4, <1>5 DEF OrderInv, StampInv

(* A webhook that reads, or whose transaction is undone.                     *)
LEMMA QuietStep ==
  ASSUME OrderInv, UNCHANGED <<orders, feed, now, unstamped>>, calls' \in [Calls -> OrderCall]
  PROVE  OrderInv' /\ \A o \in Orders : StampMoves(o)
  BY DEF OrderInv, OrderTypes, StampInv, StampMoves

LEMMA OrderStep == OrderInv /\ [OrderNext]_orderVars => OrderInv' /\ \A o \in Orders : StampMoves(o)
  <1>. SUFFICES ASSUME OrderInv, [OrderNext]_orderVars
                PROVE  OrderInv' /\ \A o \in Orders : StampMoves(o)
    OBVIOUS
  <1>1. ASSUME NEW c \in Calls, NEW o \in Orders, NEW s \in States, PurchaseRead(c, o, s)
        PROVE  OrderInv' /\ \A p \in Orders : StampMoves(p)
    <2>. DEFINE call == [route |-> "purchase", step |-> "upsert", order |-> o,
                         status |-> orderStatusFromErp(s),
                         existing |-> IF orders[o] = None THEN None ELSE orders[o].status]
    <2>1. call \in OrderCall
      <3>1. (IF orders[o] = None THEN None ELSE orders[o].status) \in OrderStatus \cup {None}
        BY DEF OrderInv, OrderTypes, Purchase
      <3>. QED  BY <3>1, StatusFromErp DEF OrderCall
    <2>. QED  BY <1>1, <2>1, QuietStep DEF PurchaseRead, Starts, Moves, OrderInv, OrderTypes
  <1>2. ASSUME NEW c \in Calls, PurchaseThrows(c)
        PROVE  OrderInv' /\ \A o \in Orders : StampMoves(o)
    BY <1>2, QuietStep, OrderIdleCall DEF PurchaseThrows, Ends, Moves, OrderInv, OrderTypes
  <1>3. CASE UNCHANGED orderVars
    BY <1>3, QuietStep DEF orderVars, OrderInv, OrderTypes
  <1>. QED  BY <1>1, <1>2, <1>3, UpsertStep, ReconcileStep, IngestStep DEF OrderNext

-----------------------------------------------------------------------------
(* Types and stamps, of every behaviour of the webhooks, the reconciler and  *)
(* the ingest.                                                               *)
THEOREM OrderInvariance == OrderSpec => []OrderInv
  <1>1. OrderInv /\ [OrderNext]_orderVars => OrderInv'
    BY OrderStep
  <1>. QED  BY <1>1, OrderInitially, PTL DEF OrderSpec

(* statusUpdatedAt is when the order last changed state, whoever changed it: *)
(* the webhook (syncPurchase) and the reconciler (order-status.ts) move it   *)
(* exactly when they change the status, for any number of orders and of      *)
(* webhooks in flight and whatever the feed may hold - except in an order a  *)
(* webhook wrote after another writer had changed what it read.              *)
THEOREM StampsFollowStatus == OrderSpec => StampMovesWithStatus
  <1>1. ASSUME OrderInv, [OrderNext]_orderVars  PROVE \A o \in Orders : StampMoves(o)
    BY <1>1, OrderStep
  <1>2. OrderInv /\ [OrderNext]_orderVars =>
          [\A o \in Orders :
             orders[o] # None /\ orders'[o] # None /\ o \notin unstamped' =>
               ((orders'[o].status = orders[o].status)
                  <=> (orders'[o].statusUpdatedAt = orders[o].statusUpdatedAt))]_orderVars
    BY <1>1 DEF StampMoves
  <1>. QED  BY <1>2, OrderInvariance, PTL DEF OrderSpec, StampMovesWithStatus

-----------------------------------------------------------------------------


(* What one statement read: finitely many movements, one of each row.        *)
OneEach(ms) == \A m, n \in ms : m.id = n.id => m = n
Readable(ms) == ms \in SUBSET Movement /\ IsFiniteSet(ms) /\ OneEach(ms)

Without(ms, ids) == \A m \in ms : m.id \notin ids

Reading(call) ==
  call.route = "statement" =>
    /\ call.window \in Window /\ Readable(call.read)
    /\ "purchases" \in call.left => Without(call.read, Invoices)
    /\ "payments" \in call.left => Without(call.read, Receipts)

LedgerInv ==
  /\ LedgerTypes
  /\ \A c \in Calls : Reading(calls[c])
  /\ \A k \in 1..Len(statements) : Readable(statements[k].read) /\ statements[k].window \in Window

-----------------------------------------------------------------------------
(* The order of the movements, as a set of pairs.                            *)
Sooner(ms) == {p \in ms \X ms : Precedes(p[1], p[2])}
Upto(ms, m) == {x \in ms : x = m \/ Precedes(x, m)}

LEMMA MovementFields ==
  ASSUME NEW m \in Movement
  PROVE  /\ m.id \in Nat /\ m.date \in Nat /\ m.type \in MovementType /\ m.change \in Int
         /\ TYPE_ORDER[m.type] \in Nat
  <1>1. m.id \in Nat /\ m.date \in Nat /\ m.type \in MovementType /\ m.change \in Int
    BY LedgerAssumption DEF Movement
  <1>2. \A t \in MovementType : TYPE_ORDER[t] \in Nat
    BY DEF MovementType, TYPE_ORDER
  <1>. QED  BY <1>1, <1>2

LEMMA TypeOrders ==
  ASSUME NEW s \in MovementType, NEW t \in MovementType, TYPE_ORDER[s] = TYPE_ORDER[t]
  PROVE  s = t
  BY DEF MovementType, TYPE_ORDER

LEMMA PrecedesOrNot ==
  ASSUME NEW m \in Movement, NEW n \in Movement, m.id # n.id
  PROVE  Precedes(m, n) \/ Precedes(n, m)
  BY MovementFields, TypeOrders DEF Precedes

LEMMA PrecedesOnward ==
  ASSUME NEW l \in Movement, NEW m \in Movement, NEW n \in Movement, Precedes(l, m), Precedes(m, n)
  PROVE  Precedes(l, n)
  <1>. USE MovementFields
  <1>1. CASE l.date < m.date \/ m.date < n.date
    BY <1>1 DEF Precedes
  <1>2. CASE ~(l.date < m.date \/ m.date < n.date)
    <2>1. l.date = m.date /\ m.date = n.date
      BY <1>2 DEF Precedes
    <2>2. /\ TYPE_ORDER[l.type] < TYPE_ORDER[m.type] \/ (l.type = m.type /\ l.id < m.id)
          /\ TYPE_ORDER[m.type] < TYPE_ORDER[n.type] \/ (m.type = n.type /\ m.id < n.id)
      BY <1>2 DEF Precedes
    <2>3. TYPE_ORDER[l.type] < TYPE_ORDER[n.type] \/ (l.type = n.type /\ l.id < n.id)
      BY <2>2
    <2>. QED  BY <2>1, <2>3 DEF Precedes
  <1>. QED  BY <1>1, <1>2

LEMMA PrecedesNotItself ==
  ASSUME NEW m \in Movement
  PROVE  ~Precedes(m, m)
  BY MovementFields DEF Precedes

LEMMA ChronologicalOrder ==
  ASSUME NEW ms, Readable(ms)
  PROVE  TotalOrder(Sooner(ms), ms)
  <1>1. \A x, y \in ms : <<x, y>> \in Sooner(ms) <=> Precedes(x, y)
    BY DEF Sooner
  <1>2. \A x, y \in ms : x # y => Precedes(x, y) \/ Precedes(y, x)
    BY PrecedesOrNot DEF Readable, OneEach
  <1>3. \A x \in ms : ~Precedes(x, x)
    BY PrecedesNotItself DEF Readable
  <1>4. \A x, y, z \in ms : Precedes(x, y) /\ Precedes(y, z) => Precedes(x, z)
    BY PrecedesOnward DEF Readable
  <1>. QED  BY <1>1, <1>2, <1>3, <1>4 DEF TotalOrder

LEMMA SomeRead ==
  ASSUME NEW ms, Readable(ms), NEW ls \in SUBSET ms
  PROVE  Readable(ls)
  BY FS_Subset DEF Readable, OneEach

(* The movements of a statement have one chronological order.                *)
LEMMA ChronologicalIs ==
  ASSUME NEW ms, Readable(ms)
  PROVE  Chronological(ms) \in SetToSeqs(ms) /\ Rising(Chronological(ms), Sooner(ms))
  <1>1. IsFiniteSet(ms) /\ TotalOrder(Sooner(ms), ms)
    BY ChronologicalOrder DEF Readable
  <1>2. PICK e \in SetToSeqs(ms) : Rising(e, Sooner(ms))
    BY <1>1, SortedExists
  <1>3. \A i, j \in DOMAIN e : i < j => Precedes(e[i], e[j])
    BY <1>2 DEF Rising, Sooner
  <1>. DEFINE s == Chronological(ms)
  <1>4. s \in SetToSeqs(ms) /\ \A i, j \in DOMAIN s : i < j => Precedes(s[i], s[j])
    BY <1>2, <1>3 DEF Chronological
  <1>. HIDE DEF s
  <1>5. s \in [1..Cardinality(ms) -> ms] /\ DOMAIN s = 1..Cardinality(ms)
    BY <1>1, <1>4, EachOnce
  <1>6. \A i \in DOMAIN s : s[i] \in ms
    BY <1>5
  <1>7. Rising(s, Sooner(ms))
    BY <1>4, <1>6 DEF Rising, Sooner
  <1>. QED  BY <1>4, <1>7 DEF s

LEMMA ChronologicalFacts ==
  ASSUME NEW ms, Readable(ms)
  PROVE  LET s == Chronological(ms)  n == Cardinality(ms) IN
         /\ n \in Nat /\ s \in [1..n -> ms] /\ Len(s) = n
         /\ \A i, j \in 1..n : s[i] = s[j] => i = j
         /\ \A m \in ms : \E i \in 1..n : s[i] = m
         /\ \A i \in 1..n : {s[j] : j \in 1..i} = Upto(ms, s[i])
  <1>. DEFINE s == Chronological(ms)
              n == Cardinality(ms)
  <1>1. IsFiniteSet(ms) /\ s \in SetToSeqs(ms) /\ Rising(s, Sooner(ms)) /\ TotalOrder(Sooner(ms), ms)
    BY ChronologicalIs, ChronologicalOrder DEF Readable
  <1>. HIDE DEF s
  <1>2. /\ n \in Nat /\ s \in [1..n -> ms] /\ Len(s) = n
        /\ \A i, j \in 1..n : s[i] = s[j] => i = j
        /\ \A m \in ms : \E i \in 1..n : s[i] = m
    BY <1>1, EachOnce
  <1>3. ASSUME NEW i \in 1..n  PROVE {s[j] : j \in 1..i} = Upto(ms, s[i])
    <2>1. {s[j] : j \in 1..i} = {x \in ms : x = s[i] \/ <<x, s[i]>> \in Sooner(ms)}
      BY <1>1, UpToOne
    <2>2. s[i] \in ms
      BY <1>2
    <2>3. \A x \in ms : <<x, s[i]>> \in Sooner(ms) <=> Precedes(x, s[i])
      BY <2>2 DEF Sooner
    <2>. QED  BY <2>1, <2>3 DEF Upto
  <1>. QED  BY <1>2, <1>3 DEF s

-----------------------------------------------------------------------------
(* Totals.                                                                   *)

LEMMA TotalIsASum ==
  ASSUME NEW ms
  PROVE  Total(ms) = SumFunctionOnSet([m \in ms |-> m.change], ms)
  <1>. DEFINE v == [m \in ms |-> m.change]
              B(g) == [s \in SUBSET ms |-> IF s = {} THEN 0 ELSE Pick(s).change + g[s \ {Pick(s)}]]
              V(g) == [s \in SUBSET ms |-> IF s = {} THEN 0 ELSE v[Pick(s)] + g[s \ {Pick(s)}]]
  <1>1. Total(ms) = (CHOOSE g : g = B(g))[ms]
    BY Zenon DEF Total, MapThenSumSet, MapThenFoldSet, Pick
  <1>2. SumFunctionOnSet(v, ms) = (CHOOSE g : g = V(g))[ms]
    BY Zenon, SumByDefinition DEF Adds
  <1>3. ASSUME NEW g  PROVE B(g) = V(g)
    <2>1. ASSUME NEW s \in SUBSET ms, s # {}  PROVE v[Pick(s)] = Pick(s).change
      <3>1. Pick(s) \in ms
        BY <2>1, PickIsIn
      <3>. QED  BY <3>1
    <2>. QED  BY <2>1
  <1>. HIDE DEF B, V
  <1>4. \A g : (g = B(g)) <=> (g = V(g))
    BY <1>3
  <1>5. (CHOOSE g : g = B(g)) = (CHOOSE g : g = V(g))
    BY <1>4
  <1>. QED  BY <1>1, <1>2, <1>5

(* What is in one of two parts adds up to both together.                     *)
LEMMA TotalOfParts ==
  ASSUME NEW ms, ms \in SUBSET Movement, IsFiniteSet(ms), NEW ls \in SUBSET ms
  PROVE  Total(ms) = Total(ls) + Total(ms \ ls) /\ Total(ms) \in Int
  <1>. DEFINE v == [m \in ms |-> m.change]
              ns == ms \ ls
              vl == [m \in ls |-> m.change]
              vn == [m \in ns |-> m.change]
  <1>1. IsFiniteSet(ls) /\ IsFiniteSet(ns) /\ ls \cap ns = {} /\ ls \cup ns = ms
    BY FS_Subset
  <1>2. \A m \in ms : v[m] \in Int
    BY MovementFields
  <1>3. /\ \A m \in ls : v[m] = vl[m] /\ v[m] \in Int
        /\ \A m \in ns : v[m] = vn[m] /\ v[m] \in Int
    BY <1>2
  <1>4. /\ Total(ms) = SumFunctionOnSet(v, ms) /\ Total(ls) = SumFunctionOnSet(vl, ls)
        /\ Total(ns) = SumFunctionOnSet(vn, ns)
    BY TotalIsASum
  <1>. HIDE DEF v, vl, vn, ns
  <1>5. SumFunctionOnSet(v, ls) = SumFunctionOnSet(vl, ls) /\ SumFunctionOnSet(v, ns) = SumFunctionOnSet(vn, ns)
    BY <1>1, <1>3, SumsAgree
  <1>6. SumFunctionOnSet(v, ls \cup ns) = SumFunctionOnSet(v, ls) + SumFunctionOnSet(v, ns)
    BY <1>1, <1>2, SumOfUnion
  <1>7. SumFunctionOnSet(v, ms) \in Int
    BY <1>2, SumIsInt
  <1>. QED  BY <1>1, <1>4, <1>5, <1>6, <1>7 DEF ns

LEMMA TotalOfNone == Total({}) = 0
  BY TotalIsASum, SumOfNone

-----------------------------------------------------------------------------
(* The lines of a statement.                                                 *)

LEMMA WindowFields ==
  ASSUME NEW w \in Window
  PROVE  w.from \in Nat /\ w.to \in Nat /\ w.from <= w.to
  BY LedgerAssumption DEF Window

LEMMA InWindowRead ==
  ASSUME NEW ms, Readable(ms), NEW w
  PROVE  Readable(InWindow(ms, w)) /\ InWindow(ms, w) \in SUBSET ms
  <1>1. InWindow(ms, w) \in SUBSET ms
    BY DEF InWindow
  <1>. QED  BY <1>1, SomeRead

LEMMA LinesAre ==
  ASSUME NEW ms, Readable(ms), NEW w
  PROVE  LET s == Chronological(InWindow(ms, w))  n == Cardinality(InWindow(ms, w)) IN
         /\ n \in Nat /\ Len(s) = n /\ Len(lines(ms, w)) = n
         /\ \A i \in 1..n :
              /\ s[i] \in InWindow(ms, w) /\ lines(ms, w)[i].id = s[i].id
              /\ lines(ms, w)[i].runningBalance = openingBalance(ms, w) + Total(Upto(InWindow(ms, w), s[i]))
  <1>. DEFINE s == Chronological(InWindow(ms, w))
              n == Cardinality(InWindow(ms, w))
  <1>1. /\ n \in Nat /\ s \in [1..n -> InWindow(ms, w)] /\ Len(s) = n
        /\ \A i \in 1..n : {s[j] : j \in 1..i} = Upto(InWindow(ms, w), s[i])
    BY InWindowRead, ChronologicalFacts
  <1>2. lines(ms, w) = [i \in 1..Len(s) |->
          [id |-> s[i].id, runningBalance |-> openingBalance(ms, w) + Total({s[j] : j \in 1..i})]]
    BY DEF lines
  <1>. HIDE DEF s, n
  <1>3. DOMAIN lines(ms, w) = 1..n
    BY <1>1, <1>2
  <1>4. Len(lines(ms, w)) = n
    BY <1>1, <1>2
  <1>5. ASSUME NEW i \in 1..n
        PROVE  /\ s[i] \in InWindow(ms, w) /\ lines(ms, w)[i].id = s[i].id
               /\ lines(ms, w)[i].runningBalance = openingBalance(ms, w) + Total(Upto(InWindow(ms, w), s[i]))
    BY <1>1, <1>2
  <1>. QED  BY <1>1, <1>4, <1>5 DEF s, n

(* A statement opens with what was before the window.                        *)
Before(ms, day) == {m \in ms : m.date < day}

LEMMA BeforeAndIn ==
  ASSUME NEW ms, Readable(ms), NEW w \in Window, NEW ls \in SUBSET InWindow(ms, w)
  PROVE  Total(Before(ms, w.from) \cup ls) = openingBalance(ms, w) + Total(ls)
  <1>. DEFINE before == Before(ms, w.from)
              both == before \cup ls
  <1>1. before \in SUBSET ms /\ both \in SUBSET ms
    BY DEF Before, InWindow
  <1>2. \A m \in ms : m.date \in Nat
    BY MovementFields DEF Readable
  <1>3. \A m \in ls : m \notin before
    BY <1>1, <1>2, WindowFields DEF Before, InWindow
  <1>4. both \ before = ls /\ before \in SUBSET both
    BY <1>3
  <1>5. IsFiniteSet(both) /\ both \in SUBSET Movement
    BY <1>1, FS_Subset DEF Readable
  <1>. HIDE DEF both
  <1>6. Total(both) = Total(before) + Total(both \ before)
    BY <1>4, <1>5, TotalOfParts
  <1>. QED  BY <1>4, <1>6 DEF openingBalance, Before, both

(* It closes on everything up to the end of the window.                      *)
LEMMA ClosingIs ==
  ASSUME NEW ms, Readable(ms), NEW v \in Window
  PROVE  closingBalance(ms, v) = Total({m \in ms : m.date <= v.to})
  <1>. DEFINE in == InWindow(ms, v)
              s == Chronological(in)
              n == Cardinality(in)
  <1>1. Readable(in) /\ in \in SUBSET ms
    BY InWindowRead
  <1>2. \A m \in ms : m.date \in Nat
    BY MovementFields DEF Readable
  <1>3. Before(ms, v.from) \cup in = {m \in ms : m.date <= v.to}
    BY <1>2, WindowFields DEF Before, InWindow
  <1>4. in \in SUBSET in
    OBVIOUS
  <1>5. Total({m \in ms : m.date <= v.to}) = openingBalance(ms, v) + Total(in)
    BY <1>3, <1>4, BeforeAndIn
  <1>6. /\ n \in Nat /\ Len(s) = n /\ Len(lines(ms, v)) = n
        /\ \A i \in 1..n :
             lines(ms, v)[i].runningBalance = openingBalance(ms, v) + Total(Upto(in, s[i]))
    BY LinesAre
  <1>7. \A i \in 1..n : {s[j] : j \in 1..i} = Upto(in, s[i])
    BY <1>1, ChronologicalFacts
  <1>8. \A m \in in : \E i \in 1..n : s[i] = m
    BY <1>1, ChronologicalFacts
  <1>9. openingBalance(ms, v) \in Int
    <2>1. Before(ms, v.from) \in SUBSET Movement /\ IsFiniteSet(Before(ms, v.from))
      BY FS_Subset DEF Readable, Before
    <2>2. {} \in SUBSET Before(ms, v.from)
      OBVIOUS
    <2>3. Total(Before(ms, v.from)) \in Int
      BY <2>1, <2>2, TotalOfParts
    <2>. QED  BY <2>3 DEF openingBalance, Before
  <1>10. CASE lines(ms, v) = <<>>
    <2>1. n = 0
      BY <1>6, <1>10
    <2>2. in = {}
      BY <1>8, <2>1
    <2>3. closingBalance(ms, v) = openingBalance(ms, v)
      BY <1>10 DEF closingBalance
    <2>. QED  BY <1>5, <1>9, <2>2, <2>3, TotalOfNone
  <1>11. CASE lines(ms, v) # <<>>
    <2>1. n # 0
      <3>1. lines(ms, v) = [i \in 1..Len(s) |->
              [id |-> s[i].id, runningBalance |-> openingBalance(ms, v) + Total({s[j] : j \in 1..i})]]
        BY DEF lines
      <3>. HIDE DEF s, n
      <3>2. CASE n = 0
        <4>1. lines(ms, v) = <<>>
          BY <1>6, <3>1, <3>2
        <4>. QED  BY <1>11, <4>1
      <3>. QED  BY <3>2
    <2>. HIDE DEF s, n, in
    <2>2. n \in 1..n
      BY <1>6, <2>1
    <2>3. closingBalance(ms, v) = lines(ms, v)[n].runningBalance
      BY <1>6, <1>11 DEF closingBalance, Last
    <2>4. {s[j] : j \in 1..n} = Upto(in, s[n])
      BY <1>7, <2>2
    <2>5. Upto(in, s[n]) = in
      <3>1. Upto(in, s[n]) \subseteq in
        BY DEF Upto
      <3>. QED  BY <1>8, <2>4, <3>1
    <2>6. lines(ms, v)[n].runningBalance = openingBalance(ms, v) + Total(in)
      BY <1>6, <2>2, <2>5
    <2>. QED  BY <1>5, <2>3, <2>6 DEF in
  <1>. QED  BY <1>10, <1>11

LEMMA RunningIs ==
  ASSUME NEW ms, Readable(ms), NEW w \in Window, NEW m, m \in InWindow(ms, w)
  PROVE  openingBalance(ms, w) + Total(Upto(InWindow(ms, w), m)) = Total(Upto(ms, m))
  <1>1. \A x \in ms : x.date \in Nat
    BY MovementFields DEF Readable
  <1>2. m \in ms /\ w.from <= m.date /\ m.date <= w.to /\ w.from \in Nat /\ w.to \in Nat
    BY WindowFields DEF InWindow
  <1>3. ASSUME NEW x \in ms  PROVE x \in Upto(ms, m) <=> x \in Before(ms, w.from) \/ x \in Upto(InWindow(ms, w), m)
    <2>1. Precedes(x, m) => x.date <= m.date
      BY <1>1, <1>2 DEF Precedes
    <2>2. x.date < m.date => Precedes(x, m)
      BY DEF Precedes
    <2>3. x \in Before(ms, w.from) => Precedes(x, m)
      BY <1>1, <1>2, <2>2 DEF Before
    <2>4. Precedes(x, m) => x \in Before(ms, w.from) \/ x \in InWindow(ms, w)
      BY <1>1, <1>2, <2>1 DEF Before, InWindow
    <2>. QED  BY <1>2, <2>3, <2>4 DEF Upto, InWindow
  <1>4. Upto(ms, m) \in SUBSET ms /\ Before(ms, w.from) \in SUBSET ms /\ Upto(InWindow(ms, w), m) \in SUBSET ms
    BY DEF Upto, Before, InWindow
  <1>5. Upto(ms, m) = Before(ms, w.from) \cup Upto(InWindow(ms, w), m)
    BY <1>3, <1>4
  <1>6. Upto(InWindow(ms, w), m) \in SUBSET InWindow(ms, w)
    BY DEF Upto
  <1>. QED  BY <1>5, <1>6, BeforeAndIn

(* The balance beside an order is that up to its movement.                   *)
LEMMA BesideOrder ==
  ASSUME NEW ms, Readable(ms), NEW m \in ms
  PROVE  balanceByPurchase(ms, m.id) = Total(Upto(ms, m))
  <1>. DEFINE s == Chronological(ms)
              n == Cardinality(ms)
              at == CHOOSE k \in 1..Len(s) : s[k].id = m.id
  <1>1. /\ n \in Nat /\ s \in [1..n -> ms] /\ Len(s) = n
        /\ \A x \in ms : \E i \in 1..n : s[i] = x
        /\ \A i \in 1..n : {s[j] : j \in 1..i} = Upto(ms, s[i])
    BY ChronologicalFacts
  <1>2. balanceByPurchase(ms, m.id) = Total({s[j] : j \in 1..at})
    BY DEF balanceByPurchase
  <1>. HIDE DEF s, n
  <1>3. \E k \in 1..Len(s) : s[k].id = m.id
    BY <1>1
  <1>4. at \in 1..n /\ s[at].id = m.id
    BY <1>1, <1>3
  <1>. HIDE DEF at
  <1>5. s[at] = m
    BY <1>1, <1>4 DEF Readable, OneEach
  <1>. QED  BY <1>1, <1>2, <1>4, <1>5

LEMMA AgreesWithNext ==
  ASSUME NEW ms, Readable(ms), NEW w \in Window, NEW v \in Window, v.to + 1 = w.from
  PROVE  closingBalance(ms, v) = openingBalance(ms, w)
  <1>1. \A m \in ms : m.date \in Nat
    BY MovementFields DEF Readable
  <1>2. {m \in ms : m.date <= v.to} = {m \in ms : m.date < w.from}
    BY <1>1, WindowFields
  <1>. QED  BY <1>2, ClosingIs DEF openingBalance

LEMMA AgreesWithOrders ==
  ASSUME NEW ms, Readable(ms), NEW w \in Window, NEW i \in 1..Len(lines(ms, w))
  PROVE  lines(ms, w)[i].runningBalance = balanceByPurchase(ms, lines(ms, w)[i].id)
  <1>. DEFINE s == Chronological(InWindow(ms, w))
              n == Cardinality(InWindow(ms, w))
  <1>1. /\ n \in Nat /\ Len(lines(ms, w)) = n
        /\ \A j \in 1..n :
             /\ s[j] \in InWindow(ms, w) /\ lines(ms, w)[j].id = s[j].id
             /\ lines(ms, w)[j].runningBalance = openingBalance(ms, w) + Total(Upto(InWindow(ms, w), s[j]))
    BY LinesAre
  <1>. HIDE DEF s, n
  <1>2. /\ s[i] \in InWindow(ms, w) /\ lines(ms, w)[i].id = s[i].id
        /\ lines(ms, w)[i].runningBalance = openingBalance(ms, w) + Total(Upto(InWindow(ms, w), s[i]))
    BY <1>1
  <1>3. s[i] \in ms
    BY <1>2 DEF InWindow
  <1>4. lines(ms, w)[i].runningBalance = Total(Upto(ms, s[i]))
    BY <1>2, RunningIs
  <1>. QED  BY <1>2, <1>3, <1>4, BesideOrder

-----------------------------------------------------------------------------
(* What the tables hold can be read.                                         *)

LEMMA LedgerIdle == Idle \in LedgerCall /\ Idle.route = "none"
  BY DEF Idle, LedgerCall

LEMMA StatementCall ==
  ASSUME NEW call \in LedgerCall, call.route = "statement"
  PROVE  call \in [route : {"statement"}, step : {"read"}, window : Window,
                   left : SUBSET {"purchases", "payments"}, read : SUBSET Movement]
  BY LedgerIdle DEF LedgerCall

(* Finitely many rows make finitely many movements.                          *)
LEMMA FiniteImage ==
  ASSUME NEW S, IsFiniteSet(S), NEW f, f \in [S -> {f[x] : x \in S}]
  PROVE  IsFiniteSet({f[x] : x \in S})
  <1>1. f \in Surjection(S, {f[x] : x \in S})
    BY DEF Surjection
  <1>. QED  BY <1>1, FS_Surjection

LEMMA InvoicesRead ==
  ASSUME LedgerTypes
  PROVE  /\ Readable(invoiceMovements) /\ \A m \in invoiceMovements : m.id \in Invoices
  <1>. DEFINE S == {j \in Invoices : purchases[j] # None}
              f == [i \in S |-> [id |-> i, date |-> purchases[i].date, type |-> "INVOICE",
                                 change |-> -purchases[i].value]]
  <1>1. invoiceMovements = {f[i] : i \in S}
    BY DEF invoiceMovements
  <1>2. IsFiniteSet(S)
    BY LedgerAssumption, FS_Subset
  <1>3. ASSUME NEW i \in S  PROVE f[i] \in Movement /\ f[i].id = i
    <2>1. purchases[i] \in Invoice
      BY DEF LedgerTypes
    <2>2. purchases[i].date \in Dates /\ purchases[i].value \in Nat
      BY <2>1, LedgerAssumption DEF Invoice
    <2>3. f[i] = [id |-> i, date |-> purchases[i].date, type |-> "INVOICE", change |-> -purchases[i].value]
      OBVIOUS
    <2>4. -purchases[i].value \in Int
      BY <2>2
    <2>. HIDE DEF f
    <2>. QED  BY <2>2, <2>3, <2>4 DEF Movement, MovementType
  <1>4. f \in [S -> {f[i] : i \in S}]
    OBVIOUS
  <1>. HIDE DEF f
  <1>5. IsFiniteSet({f[i] : i \in S})
    <2>. HIDE DEF S
    <2>. QED  BY <1>2, <1>4, FiniteImage
  <1>. QED  BY <1>1, <1>3, <1>5 DEF Readable, OneEach

LEMMA PaymentsRead ==
  ASSUME LedgerTypes
  PROVE  /\ Readable(paymentMovements) /\ \A m \in paymentMovements : m.id \in Receipts
  <1>. DEFINE S == {s \in Receipts : receipts[s] # None}
              f == [r \in S |-> [id |-> r, date |-> receipts[r].date, change |-> receipts[r].value,
                                 type |-> IF receipts[r].allowance THEN "TRANSPORT_ALLOWANCE" ELSE "PAYMENT"]]
  <1>1. paymentMovements = {f[i] : i \in S}
    BY DEF paymentMovements
  <1>2. IsFiniteSet(S)
    BY LedgerAssumption, FS_Subset
  <1>3. ASSUME NEW i \in S  PROVE f[i] \in Movement /\ f[i].id = i
    <2>1. receipts[i] \in Receipt
      BY DEF LedgerTypes
    <2>2. receipts[i].date \in Dates /\ receipts[i].value \in Int
      <3>. HIDE DEF S, f
      <3>1. receipts[i].date \in Dates /\ receipts[i].value \in Worth
        BY <2>1 DEF Receipt
      <3>2. Worth \subseteq Int
        BY LedgerAssumption
      <3>. QED  BY <3>1, <3>2
    <2>3. f[i] = [id |-> i, date |-> receipts[i].date, change |-> receipts[i].value,
                  type |-> IF receipts[i].allowance THEN "TRANSPORT_ALLOWANCE" ELSE "PAYMENT"]
      OBVIOUS
    <2>. HIDE DEF f
    <2>. QED  BY <2>2, <2>3 DEF Movement, MovementType
  <1>4. f \in [S -> {f[i] : i \in S}]
    OBVIOUS
  <1>. HIDE DEF f
  <1>5. IsFiniteSet({f[i] : i \in S})
    <2>. HIDE DEF S
    <2>. QED  BY <1>2, <1>4, FiniteImage
  <1>. QED  BY <1>1, <1>3, <1>5 DEF Readable, OneEach

(* What is read in two parts, of rows of different tables, is read as one.   *)
LEMMA ReadTogether ==
  ASSUME NEW ms, Readable(ms), NEW ns, Readable(ns), \A m \in ms : \A n \in ns : m.id # n.id
  PROVE  Readable(ms \cup ns)
  <1>1. IsFiniteSet(ms \cup ns)
    BY FS_Union DEF Readable
  <1>. QED  BY <1>1 DEF Readable, OneEach

-----------------------------------------------------------------------------
LEMMA LedgerMoves ==
  ASSUME LedgerInv, NEW c \in Calls, NEW call \in LedgerCall, Moves(c, call), Reading(call),
         UNCHANGED <<purchases, receipts>>
  PROVE  /\ calls' \in [Calls -> LedgerCall] /\ (\A d \in Calls : Reading(calls[d]))'
         /\ UNCHANGED statements => LedgerInv'
  <1>1. calls' = [calls EXCEPT ![c] = call] /\ calls \in [Calls -> LedgerCall]
    BY DEF LedgerInv, LedgerTypes, Moves
  <1>2. calls' \in [Calls -> LedgerCall] /\ \A d \in Calls : calls'[d] = call \/ calls'[d] = calls[d]
    BY <1>1
  <1>3. ASSUME NEW d \in Calls  PROVE Reading(calls'[d])
    BY <1>2 DEF LedgerInv
  <1>4. (\A d \in Calls : Reading(calls[d]))'
    BY <1>3
  <1>5. ASSUME UNCHANGED statements  PROVE LedgerInv'
    BY <1>2, <1>4, <1>5 DEF LedgerInv, LedgerTypes
  <1>. QED  BY <1>2, <1>4, <1>5

LEMMA AskedKeeps ==
  ASSUME LedgerInv, NEW c \in Calls, NEW w \in Window, StatementAsked(c, w)
  PROVE  LedgerInv'
  <1>. DEFINE call == [route |-> "statement", step |-> "read", window |-> w,
                       left |-> {"purchases", "payments"}, read |-> {}]
  <1>1. Moves(c, call)
    BY DEF StatementAsked, Starts
  <1>2. call \in LedgerCall
    BY DEF LedgerCall
  <1>3. Readable({})
    BY FS_EmptySet DEF Readable, OneEach
  <1>4. Reading(call)
    BY <1>3 DEF Reading, Without
  <1>. HIDE DEF call
  <1>. QED  BY <1>1, <1>2, <1>4, LedgerMoves DEF StatementAsked

(* A call that has taken in one more table, a field at a time.              *)
LEMMA PartByPart ==
  ASSUME NEW W, NEW L, NEW R,
         NEW o \in [route : {"statement"}, step : {"read"}, window : W, left : SUBSET L, read : SUBSET R],
         NEW l, NEW r
  PROVE  [o EXCEPT !.left = l, !.read = r] = [[o EXCEPT !.left = l] EXCEPT !.read = r]
  OBVIOUS

(* The two tables are read in any order, each as it is at that moment.       *)
LEMMA StatementReadKeeps ==
  ASSUME LedgerInv, NEW c \in Calls, NEW t \in {"purchases", "payments"}, StatementReads(c, t)
  PROVE  LedgerInv'
  <1>. DEFINE old == calls[c]
              part == IF t = "purchases" THEN invoiceMovements ELSE paymentMovements
              call == [old EXCEPT !.left = @ \ {t}, !.read = @ \cup part]
  <1>1. Moves(c, call) /\ t \in old.left /\ UNCHANGED <<purchases, receipts, statements>>
    BY DEF StatementReads
  <1>2. old \in [route : {"statement"}, step : {"read"}, window : Window,
                 left : SUBSET {"purchases", "payments"}, read : SUBSET Movement]
    BY StatementCall DEF LedgerInv, LedgerTypes, StatementReads, At
  <1>3. /\ old.window \in Window /\ Readable(old.read)
        /\ "purchases" \in old.left => Without(old.read, Invoices)
        /\ "payments" \in old.left => Without(old.read, Receipts)
    BY <1>2 DEF LedgerInv, Reading
  <1>4. LedgerTypes
    BY DEF LedgerInv
  <1>5. /\ Readable(part)
        /\ t = "purchases" => \A m \in part : m.id \in Invoices
        /\ t = "payments" => \A m \in part : m.id \in Receipts
    BY <1>4, InvoicesRead, PaymentsRead
  <1>. HIDE DEF part, old
  <1>6. call = [route |-> "statement", step |-> "read", window |-> old.window,
                left |-> old.left \ {t}, read |-> old.read \cup part]
    <2>1. call = [[old EXCEPT !.left = old.left \ {t}] EXCEPT !.read = old.read \cup part]
      BY <1>2, PartByPart
    <2>2. [old EXCEPT !.left = old.left \ {t}]
            = [route |-> "statement", step |-> "read", window |-> old.window, left |-> old.left \ {t}, read |-> old.read]
      <3>. HIDE DEF call
      <3>. QED  BY <1>2
    <2>. HIDE DEF call
    <2>. QED  BY <2>1, <2>2
  <1>. HIDE DEF call
  <1>7. Readable(old.read \cup part)
    <2>1. \A m \in old.read : \A n \in part : m.id # n.id
      BY <1>1, <1>3, <1>5 DEF Without
    <2>. QED  BY <1>3, <1>5, <2>1, ReadTogether
  <1>8. call \in LedgerCall
    <2>1. call \in [route : {"statement"}, step : {"read"}, window : Window,
                    left : SUBSET {"purchases", "payments"}, read : SUBSET Movement]
      BY <1>2, <1>6, <1>7 DEF Readable
    <2>. QED  BY <2>1 DEF LedgerCall
  <1>9. Reading(call)
    <2>1. call.window = old.window /\ call.read = old.read \cup part /\ call.left = old.left \ {t}
      BY <1>6
    <2>2. "purchases" \in call.left => Without(call.read, Invoices)
      BY <1>3, <1>5, <2>1, LedgerAssumption DEF Without
    <2>3. "payments" \in call.left => Without(call.read, Receipts)
      BY <1>3, <1>5, <2>1, LedgerAssumption DEF Without
    <2>. QED  BY <1>3, <1>7, <2>1, <2>2, <2>3 DEF Reading
  <1>. QED  BY <1>1, <1>8, <1>9, LedgerMoves

LEMMA LedgerAnsweredKeeps ==
  ASSUME LedgerInv, NEW c \in Calls, StatementAnswered(c)
  PROVE  LedgerInv'
  <1>. DEFINE x == [read |-> calls[c].read, window |-> calls[c].window]
  <1>1. statements' = Append(statements, x) /\ Moves(c, Idle) /\ UNCHANGED <<purchases, receipts>>
    BY DEF StatementAnswered, Ends
  <1>2. Idle \in LedgerCall /\ Reading(Idle)
    BY LedgerIdle DEF Reading
  <1>3. calls' \in [Calls -> LedgerCall] /\ (\A d \in Calls : Reading(calls[d]))'
    BY <1>1, <1>2, LedgerMoves
  <1>4. Readable(x.read) /\ x.window \in Window
    BY DEF LedgerInv, Reading, StatementAnswered, At
  <1>5. x \in [read : SUBSET Movement, window : Window]
    BY <1>4 DEF Readable
  <1>6. statements \in Seq([read : SUBSET Movement, window : Window])
    BY DEF LedgerInv, LedgerTypes
  <1>. HIDE DEF x
  <1>7. /\ statements' \in Seq([read : SUBSET Movement, window : Window])
        /\ Len(statements') = Len(statements) + 1 /\ Len(statements) \in Nat
        /\ statements'[Len(statements) + 1] = x
        /\ \A k \in 1..Len(statements) : statements'[k] = statements[k]
    BY <1>1, <1>5, <1>6
  <1>8. ASSUME NEW k \in 1..Len(statements')
        PROVE  Readable(statements'[k].read) /\ statements'[k].window \in Window
    <2>1. k = Len(statements) + 1 \/ k \in 1..Len(statements)
      BY <1>7
    <2>. QED  BY <1>4, <1>7, <2>1 DEF LedgerInv
  <1>9. LedgerTypes'
    BY <1>1, <1>3, <1>7 DEF LedgerInv, LedgerTypes
  <1>. QED  BY <1>3, <1>8, <1>9 DEF LedgerInv

LEMMA RowsKeep ==
  ASSUME LedgerInv, UNCHANGED <<calls, statements>>,
         purchases' \in [Invoices -> Invoice \cup {None}], receipts' \in [Receipts -> Receipt \cup {None}]
  PROVE  LedgerInv'
  BY DEF LedgerInv, LedgerTypes

LEMMA LedgerInitially == LedgerInit => LedgerInv
  <1>. SUFFICES ASSUME LedgerInit  PROVE LedgerInv
    OBVIOUS
  <1>1. LedgerTypes
    BY LedgerIdle DEF LedgerInit, LedgerTypes
  <1>2. \A c \in Calls : Reading(calls[c])
    BY LedgerIdle DEF LedgerInit, Reading
  <1>3. Len(statements) = 0
    BY DEF LedgerInit
  <1>. QED  BY <1>1, <1>2, <1>3 DEF LedgerInv

LEMMA LedgerStep == LedgerInv /\ [LedgerNext]_ledgerVars => LedgerInv'
  <1>. SUFFICES ASSUME LedgerInv, [LedgerNext]_ledgerVars  PROVE LedgerInv'
    OBVIOUS
  <1>1. ASSUME NEW c \in Calls, NEW w \in Window, StatementAsked(c, w)  PROVE LedgerInv'
    BY <1>1, AskedKeeps
  <1>2. ASSUME NEW c \in Calls, NEW t \in {"purchases", "payments"}, StatementReads(c, t)  PROVE LedgerInv'
    BY <1>2, StatementReadKeeps
  <1>3. ASSUME NEW c \in Calls, StatementAnswered(c)  PROVE LedgerInv'
    BY <1>3, LedgerAnsweredKeeps
  <1>4. ASSUME NEW i \in Invoices, NEW v \in Invoice, RecordInvoice(i, v)  PROVE LedgerInv'
    <2>1. purchases' \in [Invoices -> Invoice \cup {None}] /\ receipts' \in [Receipts -> Receipt \cup {None}]
      BY <1>4 DEF LedgerInv, LedgerTypes, RecordInvoice
    <2>. QED  BY <1>4, <2>1, RowsKeep DEF RecordInvoice
  <1>5. ASSUME NEW r \in Receipts, NEW v \in Receipt, RecordReceipt(r, v)  PROVE LedgerInv'
    <2>1. purchases' \in [Invoices -> Invoice \cup {None}] /\ receipts' \in [Receipts -> Receipt \cup {None}]
      BY <1>5 DEF LedgerInv, LedgerTypes, RecordReceipt
    <2>. QED  BY <1>5, <2>1, RowsKeep DEF RecordReceipt
  <1>6. CASE UNCHANGED ledgerVars
    <2>1. purchases' \in [Invoices -> Invoice \cup {None}] /\ receipts' \in [Receipts -> Receipt \cup {None}]
      BY <1>6 DEF LedgerInv, LedgerTypes, ledgerVars
    <2>. QED  BY <1>6, <2>1, RowsKeep DEF ledgerVars
  <1>. QED  BY <1>1, <1>2, <1>3, <1>4, <1>5, <1>6 DEF LedgerNext

(* What a statement under way has read, and every statement served, is a     *)
(* history the tables could have held.                                       *)
THEOREM LedgerInvariance == LedgerSpec => []LedgerInv
  BY LedgerInitially, LedgerStep, PTL DEF LedgerSpec

(* Statements (statement-ledger.service.ts): the closing balance of a        *)
(* window is the opening balance of the next, and the balance a line shows   *)
(* is the one its invoice shows, for any rows, windows and dates.            *)
THEOREM StatementsContinue == LedgerSpec => []StatementsAgree
  <1>1. LedgerInv => StatementsAgree
    <2>. SUFFICES ASSUME LedgerInv, NEW k \in 1..Len(statements)
                  PROVE  LET ms == statements[k].read  w == statements[k].window IN
                         /\ \A v \in Window : v.to + 1 = w.from => closingBalance(ms, v) = openingBalance(ms, w)
                         /\ \A i \in 1..Len(lines(ms, w)) : lines(ms, w)[i].id \in Invoices =>
                              lines(ms, w)[i].runningBalance = balanceByPurchase(ms, lines(ms, w)[i].id)
      BY DEF StatementsAgree
    <2>. DEFINE ms == statements[k].read
                w == statements[k].window
    <2>1. Readable(ms) /\ w \in Window
      BY DEF LedgerInv
    <2>. HIDE DEF ms, w
    <2>2. \A v \in Window : v.to + 1 = w.from => closingBalance(ms, v) = openingBalance(ms, w)
      BY <2>1, AgreesWithNext
    <2>3. \A i \in 1..Len(lines(ms, w)) :
            lines(ms, w)[i].runningBalance = balanceByPurchase(ms, lines(ms, w)[i].id)
      BY <2>1, AgreesWithOrders
    <2>. QED  BY <2>2, <2>3 DEF ms, w
  <1>. QED  BY <1>1, LedgerInvariance, PTL

-----------------------------------------------------------------------------
(* A client that walks the customer list while nothing is written meets    *)
(* every distributor once: every page is the next piece of the one list    *)
(* that the two sets make up, whether it falls in the first, in the second *)
(* or across their border.                                                 *)

(* The row at a place of the list that is the one sequence and the other.    *)
RowAt(rows, missing, i) == IF i <= Len(rows) THEN rows[i] ELSE missing[i - Len(rows)]

(* got is the first o rows of it.                                            *)
Met(got, rows, missing, o) ==
  /\ got \in Seq(Codes) /\ Len(got) = o
  /\ \A i \in 1..o : got[i] = RowAt(rows, missing, i)

RowsOf(q) == Ordered(ProjectedRows(q))
MissingRows(q) == Ordered(UnprojectedRows(q))
Listed(q) == Len(RowsOf(q)) + Len(MissingRows(q))

(* The pages before this one are behind it.                                  *)
Walking(q) ==
  q # Idle =>
    /\ q.page # 0
    /\ q.whole =>
         IF q.step = "page"
         THEN offset(q) <= Listed(q) /\ Met(q.got, RowsOf(q), MissingRows(q), offset(q))
         ELSE Met(q.got, RowsOf(q), MissingRows(q), Listed(q))

DirectoryInv ==
  /\ DirectoryTypes
  /\ calls \in [Calls -> Walk \cup {Idle}]
  /\ \A c \in Calls : Walking(calls[c])

-----------------------------------------------------------------------------
(* The order of the codes is one, and a set of them has a sequence in it.    *)
LEMMA OrderedIs ==
  ASSUME NEW S \in SUBSET Codes
  PROVE  /\ Ordered(S) \in Seq(Codes) /\ Len(Ordered(S)) = Cardinality(S) /\ Cardinality(S) \in Nat
         /\ Range(Ordered(S)) = S
  <1>. DEFINE R == {p \in S \X S : p[1] < p[2]}
              s == Ordered(S)
  <1>1. IsFiniteSet(S) /\ S \in SUBSET Nat
    BY DirectoryAssumption, FS_Subset
  <1>2. \A x, y \in S : <<x, y>> \in R <=> x < y
    OBVIOUS
  <1>. HIDE DEF R
  <1>3. \A x, y, z \in S : (x # y => x < y \/ y < x) /\ ~(x < x) /\ (x < y /\ y < z => x < z)
    BY <1>1
  <1>4. TotalOrder(R, S)
    BY <1>2, <1>3 DEF TotalOrder
  <1>5. PICK e \in SetToSeqs(S) : Rising(e, R)
    BY <1>1, <1>4, SortedExists
  <1>6. e \in [1..Cardinality(S) -> S] /\ DOMAIN e = 1..Cardinality(S)
    BY <1>1, EachOnce
  <1>7. \A i, j \in DOMAIN e : i < j => e[i] < e[j]
    BY <1>2, <1>5, <1>6 DEF Rising
  <1>8. s \in SetToSeqs(S)
    BY <1>7 DEF Ordered
  <1>. HIDE DEF s
  <1>9. /\ s \in [1..Cardinality(S) -> S] /\ Cardinality(S) \in Nat /\ s \in Seq(S)
        /\ Len(s) = Cardinality(S) /\ DOMAIN s = 1..Cardinality(S)
        /\ \A x \in S : \E i \in 1..Cardinality(S) : s[i] = x
    BY <1>1, <1>8, EachOnce
  <1>10. Range(s) = S
    BY <1>9 DEF Range
  <1>11. s \in Seq(Codes)
    BY <1>9
  <1>. QED  BY <1>9, <1>10, <1>11 DEF s

LEMMA ListedSets ==
  ASSUME NEW q
  PROVE  ProjectedRows(q) \in SUBSET Codes /\ UnprojectedRows(q) \in SUBSET Codes
  BY DEF ProjectedRows, UnprojectedRows, Missing

LEMMA ListedRows ==
  ASSUME NEW q
  PROVE  /\ RowsOf(q) \in Seq(Codes) /\ MissingRows(q) \in Seq(Codes)
         /\ Len(RowsOf(q)) = Cardinality(ProjectedRows(q)) /\ Range(RowsOf(q)) = ProjectedRows(q)
         /\ Len(MissingRows(q)) = Cardinality(UnprojectedRows(q))
         /\ Range(MissingRows(q)) = UnprojectedRows(q)
         /\ Len(RowsOf(q)) \in Nat /\ Len(MissingRows(q)) \in Nat /\ Listed(q) \in Nat
  <1>1. ProjectedRows(q) \in SUBSET Codes /\ UnprojectedRows(q) \in SUBSET Codes
    BY ListedSets
  <1>2. /\ RowsOf(q) \in Seq(Codes) /\ Len(RowsOf(q)) = Cardinality(ProjectedRows(q))
        /\ Len(RowsOf(q)) \in Nat /\ Range(RowsOf(q)) = ProjectedRows(q)
    BY <1>1, OrderedIs DEF RowsOf
  <1>3. /\ MissingRows(q) \in Seq(Codes) /\ Len(MissingRows(q)) = Cardinality(UnprojectedRows(q))
        /\ Len(MissingRows(q)) \in Nat /\ Range(MissingRows(q)) = UnprojectedRows(q)
    BY <1>1, OrderedIs DEF MissingRows
  <1>. QED  BY <1>2, <1>3 DEF Listed

-----------------------------------------------------------------------------
(* A page of the list.                                                       *)

LEMMA MaxIs ==
  ASSUME NEW a \in Int, NEW b \in Int
  PROVE  Max({a, b}) = IF a <= b THEN b ELSE a
  <1>1. \E x \in {a, b} : \A y \in {a, b} : x >= y
    OBVIOUS
  <1>2. Max({a, b}) \in {a, b} /\ \A y \in {a, b} : Max({a, b}) >= y
    BY <1>1 DEF Max
  <1>. QED  BY <1>2

LEMMA MinIs ==
  ASSUME NEW a \in Int, NEW b \in Int
  PROVE  Min({a, b}) = IF a <= b THEN a ELSE b
  <1>1. \E x \in {a, b} : \A y \in {a, b} : x =< y
    OBVIOUS
  <1>2. Min({a, b}) \in {a, b} /\ \A y \in {a, b} : Min({a, b}) =< y
    BY <1>1 DEF Min
  <1>. QED  BY <1>2

(* take elements after the first skip ones, or what there is of them.        *)
TakenOf(n, skip, take) == IF n <= skip THEN 0 ELSE IF skip + take <= n THEN take ELSE n - skip

IsSlice(s, S, seq, skip, take) ==
  /\ s \in Seq(S) /\ Len(s) = TakenOf(Len(seq), skip, take)
  /\ \A i \in 1..Len(s) : s[i] = seq[skip + i]

LEMMA SliceIs ==
  ASSUME NEW S, NEW seq, seq \in Seq(S), NEW skip, skip \in Nat, NEW take, take \in Nat
  PROVE  IsSlice(Slice(seq, skip, take), S, seq, skip, take)
  <1>. DEFINE end == IF skip + take <= Len(seq) THEN skip + take ELSE Len(seq)
  <1>1. Len(seq) \in Nat /\ skip + take \in Nat
    OBVIOUS
  <1>2. Slice(seq, skip, take) = SubSeq(seq, skip + 1, end) /\ end \in Nat /\ end <= Len(seq)
    BY <1>1, MinIs DEF Slice
  <1>3. end = skip + TakenOf(Len(seq), skip, take) \/ (end <= skip /\ TakenOf(Len(seq), skip, take) = 0)
    BY <1>1 DEF TakenOf
  <1>4. TakenOf(Len(seq), skip, take) \in Nat
    BY <1>1 DEF TakenOf
  <1>. HIDE DEF end
  <1>. DEFINE s == SubSeq(seq, skip + 1, end)
  <1>5. s \in Seq(S)
    BY <1>1, <1>2
  <1>6. Len(s) = TakenOf(Len(seq), skip, take)
    BY <1>1, <1>2, <1>3, <1>4
  <1>7. ASSUME NEW i \in 1..Len(s)  PROVE s[i] = seq[skip + i]
    BY <1>1, <1>2, <1>3, <1>4, <1>6
  <1>. HIDE DEF s
  <1>8. Slice(seq, skip, take) = s
    BY <1>2 DEF s
  <1>. QED  BY <1>5, <1>6, <1>7, <1>8 DEF IsSlice

(* k is g and after it a.                                                    *)
Joined(k, S, g, a) ==
  /\ k \in Seq(S) /\ Len(k) = Len(g) + Len(a)
  /\ \A i \in 1..Len(g) : k[i] = g[i]
  /\ \A i \in 1..Len(a) : k[Len(g) + i] = a[i]

LEMMA TwoInARow ==
  ASSUME NEW S, NEW g, g \in Seq(S), NEW a, a \in Seq(S)
  PROVE  Joined(g \o a, S, g, a)
  BY DEF Joined

AllJoined(k, S, g, a, b) ==
  /\ k \in Seq(S) /\ Len(k) = Len(g) + Len(a) + Len(b)
  /\ \A i \in 1..Len(g) : k[i] = g[i]
  /\ \A i \in 1..Len(a) : k[Len(g) + i] = a[i]
  /\ \A i \in 1..Len(b) : k[Len(g) + Len(a) + i] = b[i]

LEMMA ThreeInARow ==
  ASSUME NEW S, NEW g, g \in Seq(S), NEW a, a \in Seq(S), NEW b, b \in Seq(S),
         NEW h, Joined(h, S, g, a), NEW k, Joined(k, S, h, b)
  PROVE  AllJoined(k, S, g, a, b)
  <1>1. Len(g) \in Nat /\ Len(a) \in Nat /\ Len(b) \in Nat
    OBVIOUS
  <1>2. \A i \in 1..Len(g) : i \in 1..Len(h)
    BY <1>1 DEF Joined
  <1>3. \A i \in 1..Len(a) : Len(g) + i \in 1..Len(h)
    BY <1>1 DEF Joined
  <1>. QED  BY <1>1, <1>2, <1>3 DEF Joined, AllJoined

(* How many a page takes of the first and of the second, and where.          *)
TakeOf(L, o, n) == IF L <= o THEN 0 ELSE IF n <= L - o THEN n ELSE L - o
SkipOf(L, o) == IF L <= o THEN o - L ELSE 0

LEMMA TakeIs ==
  ASSUME NEW L, L \in Nat, NEW o, o \in Nat, NEW n, n \in Nat \ {0}
  PROVE  /\ Max({0, Min({n, L - o})}) = TakeOf(L, o, n) /\ Max({0, o - L}) = SkipOf(L, o)
         /\ TakeOf(L, o, n) \in Nat /\ SkipOf(L, o) \in Nat /\ n - TakeOf(L, o, n) \in Nat
  <1>. DEFINE m == Min({n, L - o})
  <1>1. L - o \in Int /\ o - L \in Int
    OBVIOUS
  <1>2. m = IF n <= L - o THEN n ELSE L - o
    BY <1>1, MinIs
  <1>. HIDE DEF m
  <1>3. m \in Int
    BY <1>1, <1>2
  <1>4. Max({0, m}) = IF 0 <= m THEN m ELSE 0
    BY <1>3, MaxIs
  <1>5. Max({0, m}) = TakeOf(L, o, n)
    BY <1>2, <1>4 DEF TakeOf
  <1>6. Max({0, o - L}) = IF 0 <= o - L THEN o - L ELSE 0
    BY <1>1, MaxIs
  <1>7. Max({0, o - L}) = SkipOf(L, o)
    BY <1>6 DEF SkipOf
  <1>8. TakeOf(L, o, n) \in Nat /\ SkipOf(L, o) \in Nat /\ n - TakeOf(L, o, n) \in Nat
    BY DEF TakeOf, SkipOf
  <1>. QED  BY <1>5, <1>7, <1>8 DEF m

Paged(L, M, o, n, a, b) ==
  /\ o + a + b = (IF o + n <= L + M THEN o + n ELSE L + M)
  /\ a # 0 => o + a <= L
  /\ b # 0 => L <= o + a /\ SkipOf(L, o) = o + a - L

LEMMA PageLengths ==
  ASSUME NEW L, L \in Nat, NEW M, M \in Nat, NEW o, o \in Nat, NEW n, n \in Nat \ {0}, o <= L + M
  PROVE  Paged(L, M, o, n, TakenOf(L, o, TakeOf(L, o, n)), TakenOf(M, SkipOf(L, o), n - TakeOf(L, o, n)))
  <1>1. CASE L <= o
    BY <1>1 DEF Paged, TakenOf, TakeOf, SkipOf
  <1>2. CASE ~(L <= o) /\ n <= L - o
    BY <1>2 DEF Paged, TakenOf, TakeOf, SkipOf
  <1>3. CASE ~(L <= o) /\ ~(n <= L - o)
    BY <1>3 DEF Paged, TakenOf, TakeOf, SkipOf
  <1>. QED  BY <1>1, <1>2, <1>3

(* The slices of the two sequences that a page takes are the next size rows  *)
(* of the list, or what is left of it.                                       *)
LEMMA PageIsNext ==
  ASSUME NEW rows \in Seq(Codes), NEW missing \in Seq(Codes), NEW o \in Nat, NEW n \in Nat \ {0},
         NEW got, Met(got, rows, missing, o), o <= Len(rows) + Len(missing),
         NEW take, take = Max({0, Min({n, Len(rows) - o})}),
         NEW skip, skip = Max({0, o - Len(rows)}),
         NEW end, end = IF o + n <= Len(rows) + Len(missing) THEN o + n ELSE Len(rows) + Len(missing)
  PROVE  Met(got \o Slice(rows, o, take) \o Slice(missing, skip, n - take), rows, missing, end)
  <1>. DEFINE L == Len(rows)
              M == Len(missing)
              a == Slice(rows, o, take)
              b == Slice(missing, skip, n - take)
  <1>1. L \in Nat /\ M \in Nat /\ got \in Seq(Codes) /\ Len(got) = o
    BY DEF Met
  <1>2. take = TakeOf(L, o, n)
    BY <1>1, TakeIs
  <1>3. skip = SkipOf(L, o)
    BY <1>1, TakeIs
  <1>4. take \in Nat /\ skip \in Nat /\ n - take \in Nat
    BY <1>1, <1>2, <1>3, TakeIs
  <1>5. IsSlice(a, Codes, rows, o, take) /\ IsSlice(b, Codes, missing, skip, n - take)
    BY <1>4, SliceIs
  <1>. HIDE DEF a, b
  <1>6. a \in Seq(Codes) /\ b \in Seq(Codes) /\ Len(a) \in Nat /\ Len(b) \in Nat
    BY <1>5 DEF IsSlice
  <1>7. Len(a) = TakenOf(L, o, take) /\ \A i \in 1..Len(a) : a[i] = rows[o + i]
    BY <1>5 DEF IsSlice
  <1>8. Len(b) = TakenOf(M, skip, n - take) /\ \A i \in 1..Len(b) : b[i] = missing[skip + i]
    BY <1>5 DEF IsSlice
  <1>9. Paged(L, M, o, n, Len(a), Len(b))
    <2>1. L \in Nat /\ M \in Nat /\ o <= L + M
      BY <1>1
    <2>. HIDE DEF L, M
    <2>2. Paged(L, M, o, n, TakenOf(L, o, TakeOf(L, o, n)), TakenOf(M, SkipOf(L, o), n - TakeOf(L, o, n)))
      BY <2>1, PageLengths
    <2>. QED  BY <1>2, <1>3, <1>7, <1>8, <2>2
  <1>10. /\ o + Len(a) + Len(b) = end
         /\ Len(a) # 0 => o + Len(a) <= L
         /\ Len(b) # 0 => L <= o + Len(a) /\ skip = o + Len(a) - L
    BY <1>3, <1>9 DEF Paged
  <1>. DEFINE all == got \o a \o b
  <1>11. /\ all \in Seq(Codes) /\ Len(all) = end
         /\ \A i \in 1..o : all[i] = got[i]
         /\ \A i \in 1..Len(a) : all[o + i] = a[i]
         /\ \A i \in 1..Len(b) : all[o + Len(a) + i] = b[i]
    <2>1. Joined(got \o a, Codes, got, a)
      BY <1>1, <1>6, TwoInARow
    <2>2. Joined(all, Codes, got \o a, b)
      BY <1>6, <2>1, TwoInARow DEF Joined
    <2>. HIDE DEF all
    <2>3. AllJoined(all, Codes, got, a, b)
      BY <1>1, <1>6, <2>1, <2>2, ThreeInARow
    <2>. QED  BY <1>1, <1>10, <2>3 DEF AllJoined
  <1>. HIDE DEF all
  <1>12. ASSUME NEW i \in 1..end  PROVE all[i] = RowAt(rows, missing, i)
    <2>1. CASE i \in 1..o
      BY <1>11, <2>1 DEF Met
    <2>2. ASSUME NEW j \in 1..Len(a), i = o + j  PROVE all[i] = RowAt(rows, missing, i)
      <3>1. all[i] = rows[i]
        BY <1>7, <1>11, <2>2
      <3>2. i <= L
        BY <1>1, <1>6, <1>10, <2>2
      <3>. QED  BY <3>1, <3>2 DEF RowAt
    <2>3. ASSUME NEW j \in 1..Len(b), i = o + Len(a) + j  PROVE all[i] = RowAt(rows, missing, i)
      <3>1. all[i] = missing[skip + j]
        BY <1>8, <1>11, <2>3
      <3>2. L < i /\ skip + j = i - L
        <4>. HIDE DEF L
        <4>1. Len(b) # 0 /\ j \in Nat /\ 1 <= j
          BY <1>6, <2>3
        <4>2. L <= o + Len(a) /\ skip = o + Len(a) - L
          BY <1>10, <4>1
        <4>3. \A x, y, l, m \in Nat : 1 <= m /\ l <= x + y => l < x + y + m /\ (x + y - l) + m = (x + y + m) - l
          OBVIOUS
        <4>4. L < o + Len(a) + j /\ (o + Len(a) - L) + j = (o + Len(a) + j) - L
          BY <1>1, <1>6, <4>1, <4>2, <4>3
        <4>. QED  BY <2>3, <4>2, <4>4
      <3>. QED  BY <1>1, <3>1, <3>2 DEF RowAt
    <2>4. i \in 1..o \/ (\E j \in 1..Len(a) : i = o + j) \/ \E j \in 1..Len(b) : i = o + Len(a) + j
      <3>1. i \in Int /\ 1 <= i /\ i <= o + Len(a) + Len(b)
        BY <1>1, <1>6, <1>10
      <3>2. CASE i <= o
        BY <3>1, <3>2
      <3>3. CASE o < i /\ i <= o + Len(a)
        <4>1. i - o \in 1..Len(a) /\ i = o + (i - o)
          BY <1>6, <3>1, <3>3
        <4>. QED  BY <4>1
      <3>4. CASE o + Len(a) < i
        <4>1. i - (o + Len(a)) \in 1..Len(b) /\ i = o + Len(a) + (i - (o + Len(a)))
          BY <1>6, <3>1, <3>4
        <4>. QED  BY <4>1
      <3>. QED  BY <1>6, <3>1, <3>2, <3>3, <3>4
    <2>. QED  BY <2>1, <2>2, <2>3, <2>4
  <1>13. Met(all, rows, missing, end)
    BY <1>11, <1>12 DEF Met
  <1>. QED  BY <1>13 DEF all, a, b
-----------------------------------------------------------------------------
LEMMA WalkFields ==
  ASSUME NEW q \in Walk
  PROVE  /\ q.route = "walk" /\ q.step \in {"page", "done"} /\ q.size \in Nat \ {0}
         /\ q.page \in Nat /\ q.got \in Seq(Codes) /\ q.whole \in BOOLEAN
         /\ q # Idle
  <1>1. /\ q.route = "walk" /\ q.step \in {"page", "done"} /\ q.size \in PageSizes
        /\ q.page \in Nat /\ q.got \in Seq(Codes) /\ q.whole \in BOOLEAN
    BY DEF Walk
  <1>2. q # Idle
    BY <1>1 DEF Idle
  <1>. QED  BY <1>1, <1>2, DirectoryAssumption

(* There is a next page while the pages so far do not reach the end.         *)
LEMMA MorePages ==
  ASSUME NEW q, q.size \in Nat \ {0}, NEW p \in Nat \ {0}, NEW n \in Nat
  PROVE  p < totalPages(q, n) <=> p * q.size < n
  <1>. DEFINE d == q.size
  <1>1. CASE n = 0
    <2>1. totalPages(q, n) = 1 /\ ~(p < 1)
      BY <1>1 DEF totalPages
    <2>2. p * d \in Nat
      OBVIOUS
    <2>. QED  BY <1>1, <2>1, <2>2
  <1>2. CASE n # 0
    <2>1. totalPages(q, n) = (n + d - 1) \div d /\ d \in Nat \ {0}
      BY <1>2 DEF totalPages
    <2>. HIDE DEF d
    <2>2. p < (n + d - 1) \div d <=> p * d < n
      BY <2>1
    <2>. QED  BY <2>1, <2>2 DEF d
  <1>. QED  BY <1>1, <1>2

(* What a call asks for decides which rows it lists.                         *)
LEMMA DirectorySameRows ==
  ASSUME NEW q, NEW r, q.region = r.region, q.hasOfficer = r.hasOfficer
  PROVE  RowsOf(q) = RowsOf(r) /\ MissingRows(q) = MissingRows(r) /\ Listed(q) = Listed(r)
  <1>1. ProjectedRows(q) = ProjectedRows(r) /\ UnprojectedRows(q) = UnprojectedRows(r)
    BY DEF ProjectedRows, UnprojectedRows
  <1>. QED  BY <1>1 DEF RowsOf, MissingRows, Listed

LEMMA DirectoryMoves ==
  ASSUME DirectoryInv, NEW c \in Calls, NEW q, q \in Walk \cup {Idle}, Walking(q), Moves(c, q),
         UNCHANGED <<masters, customers>>
  PROVE  DirectoryInv'
  <1>1. calls' = [calls EXCEPT ![c] = q] /\ calls \in [Calls -> Walk \cup {Idle}]
    BY DEF DirectoryInv, Moves
  <1>2. calls' \in [Calls -> Walk \cup {Idle}] /\ \A d \in Calls : calls'[d] = q \/ calls'[d] = calls[d]
    BY <1>1
  <1>3. DirectoryTypes'
    <2>1. \A d \in Calls : calls'[d] = Idle \/ calls'[d] \in Walk
      BY <1>2
    <2>. QED  BY <2>1 DEF DirectoryInv, DirectoryTypes
  <1>4. \A d \in Calls : Walking(calls'[d])
    BY <1>2 DEF DirectoryInv
  <1>5. (\A d \in Calls : Walking(calls[d]))'
    BY <1>4 DEF Walking, RowsOf, MissingRows, Listed, ProjectedRows, UnprojectedRows, Missing, ErpRegion
  <1>. QED  BY <1>2, <1>3, <1>5 DEF DirectoryInv
LEMMA BeginsKeeps ==
  ASSUME DirectoryInv, NEW c \in Calls, NEW n \in PageSizes, NEW r \in CallerScope,
         NEW h \in BOOLEAN \cup {None}, WalkBegins(c, n, r, h)
  PROVE  DirectoryInv'
  <1>. DEFINE q == [route |-> "walk", step |-> "page", size |-> n, page |-> 1, got |-> <<>>,
                    region |-> r, hasOfficer |-> h, whole |-> TRUE]
  <1>1. Moves(c, q)
    BY DEF WalkBegins, Starts
  <1>2. q \in Walk
    BY DEF Walk
  <1>3. q.page = 1 /\ q.got = <<>> /\ q.step = "page" /\ q.size = n
    OBVIOUS
  <1>. HIDE DEF q
  <1>4. n \in Nat
    BY DirectoryAssumption
  <1>5. offset(q) = 0
    BY <1>3, <1>4 DEF offset
  <1>6. Met(q.got, RowsOf(q), MissingRows(q), 0)
    BY <1>3 DEF Met
  <1>7. Walking(q)
    BY <1>3, <1>5, <1>6, ListedRows DEF Walking
  <1>. QED  BY <1>1, <1>2, <1>7, DirectoryMoves DEF WalkBegins

LEMMA DirectoryAnsweredKeeps ==
  ASSUME DirectoryInv, NEW c \in Calls, NEW counts \in BOOLEAN, NEW lists \in BOOLEAN,
         PageAnswered(c, counts, lists)
  PROVE  DirectoryInv'
  <1>. DEFINE q == calls[c]
              rows == RowsOf(q)
              missing == MissingRows(q)
              o == offset(q)
              unprojected == IF counts THEN Len(missing) ELSE 0
              take == takeProjected(q, Len(rows))
              skip == skipUnprojected(q, Len(rows))
              tail == IF lists THEN Slice(missing, skip, q.size - take) ELSE <<>>
              more == q.page < totalPages(q, Len(rows) + unprojected)
              got == q.got \o Slice(rows, o, take) \o tail
              step == IF more THEN "page" ELSE "done"
              page == IF more THEN q.page + 1 ELSE q.page
              whole == q.whole /\ counts /\ lists
              new == [q EXCEPT !.got = got, !.step = step, !.page = page, !.whole = whole]
  <1>1. Moves(c, new) /\ At(c, "walk", "page") /\ UNCHANGED <<masters, customers>>
    BY DEF PageAnswered, RowsOf, MissingRows
  <1>2. q \in Walk /\ Walking(q)
    <2>1. q.route = "walk"
      BY <1>1 DEF At
    <2>. QED  BY <2>1 DEF DirectoryInv, Idle
  <1>. DEFINE n == q.size
  <1>3. /\ q.step = "page" /\ n \in Nat \ {0} /\ q.page \in Nat \ {0} /\ q.got \in Seq(Codes)
        /\ q.whole \in BOOLEAN /\ q # Idle
    BY <1>1, <1>2, WalkFields DEF At, Walking
  <1>4. /\ rows \in Seq(Codes) /\ missing \in Seq(Codes)
        /\ Len(rows) \in Nat /\ Len(missing) \in Nat /\ Listed(q) = Len(rows) + Len(missing)
    BY ListedRows DEF Listed
  <1>5. o \in Nat /\ o = (q.page - 1) * n
    BY <1>3 DEF offset
  <1>6. take = Max({0, Min({n, Len(rows) - o})}) /\ skip = Max({0, o - Len(rows)})
    BY DEF takeProjected, skipUnprojected
  <1>. HIDE DEF q, rows, missing, o, take, skip, n
  <1>7. take \in Nat /\ skip \in Nat /\ n - take \in Nat
    <2>1. take = TakeOf(Len(rows), o, n) /\ skip = SkipOf(Len(rows), o)
      BY <1>3, <1>4, <1>5, <1>6, TakeIs
    <2>. QED  BY <1>3, <1>4, <1>5, <2>1, TakeIs
  <1>8. Slice(rows, o, take) \in Seq(Codes) /\ Slice(missing, skip, n - take) \in Seq(Codes)
    BY <1>4, <1>5, <1>7, SliceIs DEF IsSlice
  <1>9. tail \in Seq(Codes)
    BY <1>8 DEF n
  <1>. HIDE DEF tail
  <1>10. got \in Seq(Codes)
    BY <1>3, <1>8, <1>9
  <1>11. step \in {"page", "done"} /\ page \in Nat \ {0} /\ whole \in BOOLEAN
    BY <1>3
  <1>12. new = [q EXCEPT !.got = got, !.step = step, !.page = page, !.whole = whole]
    OBVIOUS
  <1>. HIDE DEF got, step, page, whole, new
  <1>13. /\ new \in Walk /\ new.got = got /\ new.step = step /\ new.page = page /\ new.whole = whole
         /\ new.size = q.size /\ new.region = q.region /\ new.hasOfficer = q.hasOfficer
    <2>1. q \in Walk /\ got \in Seq(Codes) /\ step \in {"page", "done"} /\ page \in Nat /\ whole \in BOOLEAN
      BY <1>2, <1>10, <1>11
    <2>2. new \in Walk
      BY <1>12, <2>1 DEF Walk
    <2>3. new.got = got /\ new.step = step /\ new.page = page /\ new.whole = whole
      BY <1>12, <2>1 DEF Walk
    <2>4. new.size = q.size /\ new.region = q.region /\ new.hasOfficer = q.hasOfficer
      BY <1>12, <2>1 DEF Walk
    <2>. QED  BY <2>2, <2>3, <2>4
  <1>14. RowsOf(new) = rows /\ MissingRows(new) = missing /\ Listed(new) = Listed(q)
    BY <1>13, DirectorySameRows DEF rows, missing
  <1>15. Walking(new)
    <2>1. CASE ~whole
      BY <1>11, <1>13, <2>1 DEF Walking
    <2>2. CASE whole
      <3>1. q.whole /\ counts /\ lists
        BY <2>2 DEF whole
      <3>2. o <= Len(rows) + Len(missing) /\ Met(q.got, rows, missing, o)
        BY <1>2, <1>3, <1>4, <3>1 DEF Walking, rows, missing, o
      <3>. DEFINE end == IF o + n <= Len(rows) + Len(missing) THEN o + n ELSE Len(rows) + Len(missing)
      <3>3. Met(q.got \o Slice(rows, o, take) \o Slice(missing, skip, n - take), rows, missing, end)
        BY <1>3, <1>4, <1>5, <1>6, <3>2, PageIsNext
      <3>4. got = q.got \o Slice(rows, o, take) \o Slice(missing, skip, n - take)
        BY <3>1 DEF got, tail, n
      <3>5. more <=> q.page * n < Listed(q)
        <4>1. Listed(q) = Len(rows) + unprojected /\ Listed(q) \in Nat
          BY <1>4, <3>1
        <4>2. q.page < totalPages(q, Listed(q)) <=> q.page * q.size < Listed(q)
          BY <1>3, <4>1, MorePages DEF n
        <4>. HIDE DEF unprojected
        <4>. QED  BY <4>1, <4>2 DEF n
      <3>6. o + n = q.page * n /\ q.page * n \in Nat
        <4>1. \A x \in Nat \ {0} : \A y \in Nat : (x - 1) * y + y = x * y /\ x * y \in Nat
          OBVIOUS
        <4>. QED  BY <1>3, <1>5, <4>1
      <3>7. Met(got, rows, missing, end)
        BY <3>3, <3>4
      <3>8. CASE more
        <4>1. step = "page" /\ page = q.page + 1
          BY <3>8 DEF step, page
        <4>2. offset(new) = q.page * n
          <5>1. new.page = q.page + 1 /\ new.size = n
            BY <1>13, <4>1 DEF n
          <5>2. new.page - 1 = q.page
            BY <1>3, <5>1
          <5>. QED  BY <5>1, <5>2, Zenon DEF offset
        <4>3. end = q.page * n /\ q.page * n <= Listed(q)
          BY <1>4, <3>5, <3>6, <3>8
        <4>. HIDE DEF end, more
        <4>. QED  BY <1>11, <1>13, <1>14, <3>7, <4>1, <4>2, <4>3 DEF Walking
      <3>9. CASE ~more
        <4>1. step = "done"
          BY <3>9 DEF step
        <4>2. end = Listed(q)
          BY <1>4, <3>5, <3>6, <3>9
        <4>. HIDE DEF end, more
        <4>. QED  BY <1>11, <1>13, <1>14, <3>7, <4>1, <4>2 DEF Walking
      <3>. QED  BY <3>8, <3>9
    <2>. QED  BY <2>1, <2>2
  <1>. QED  BY <1>1, <1>13, <1>15, DirectoryMoves

LEMMA WalkEndsKeeps ==
  ASSUME DirectoryInv, NEW c \in Calls, WalkEnds(c)
  PROVE  DirectoryInv'
  BY DirectoryMoves DEF WalkEnds, Ends, Walking

LEMMA RewrittenKeeps ==
  ASSUME DirectoryInv, Rewritten, masters' \in [Codes -> Clusters \cup {None}],
         customers' \in [Codes -> CustomerRow \cup {None}]
  PROVE  DirectoryInv'
  <1>1. \A d \in Calls : calls'[d] = Idle
    BY DEF Rewritten
  <1>2. (\A d \in Calls : Walking(calls[d]))'
    BY <1>1 DEF Walking, Idle
  <1>. QED  BY <1>1, <1>2 DEF DirectoryInv, DirectoryTypes, Rewritten

(* A code that has a region has one of the portal's.                         *)
LEMMA RegionIs ==
  ASSUME NEW k \in Codes, ErpRegion(k) # None
  PROVE  ErpRegion(k) \in Regions
  BY ScopeAssumption DEF ErpRegion, tryRegionFromBpClusterCode

LEMMA DirectoryInitially == DirectoryInit => DirectoryInv
  BY DEF DirectoryInit, DirectoryInv, DirectoryTypes, Walking, Idle

LEMMA DirectoryStep == DirectoryInv /\ [DirectoryNext]_directoryVars => DirectoryInv'
  <1>. SUFFICES ASSUME DirectoryInv, [DirectoryNext]_directoryVars  PROVE DirectoryInv'
    OBVIOUS
  <1>1. ASSUME NEW c \in Calls, NEW n \in PageSizes, NEW r \in CallerScope,
               NEW h \in BOOLEAN \cup {None}, WalkBegins(c, n, r, h)
        PROVE  DirectoryInv'
    BY <1>1, BeginsKeeps
  <1>2. ASSUME NEW c \in Calls, NEW counts \in BOOLEAN, NEW lists \in BOOLEAN, PageAnswered(c, counts, lists)
        PROVE  DirectoryInv'
    BY <1>2, DirectoryAnsweredKeeps
  <1>3. ASSUME NEW c \in Calls, WalkEnds(c)  PROVE DirectoryInv'
    BY <1>3, WalkEndsKeeps
  <1>4. masters \in [Codes -> Clusters \cup {None}] /\ customers \in [Codes -> CustomerRow \cup {None}]
    BY DEF DirectoryInv, DirectoryTypes
  <1>5. CASE ProjectCustomers
    <2>1. \A k \in Missing : [region |-> ErpRegion(k), officer |-> FALSE] \in CustomerRow
      BY RegionIs DEF Missing, CustomerRow
    <2>2. customers' \in [Codes -> CustomerRow \cup {None}]
      BY <1>4, <1>5, <2>1 DEF ProjectCustomers
    <2>. QED  BY <1>4, <1>5, <2>2, RewrittenKeeps DEF ProjectCustomers
  <1>6. ASSUME NEW k \in Codes, NEW r \in Regions, NEW b \in BOOLEAN, createTestCustomer(k, r, b)
        PROVE  DirectoryInv'
    <2>1. customers' \in [Codes -> CustomerRow \cup {None}]
      BY <1>4, <1>6 DEF createTestCustomer, CustomerRow
    <2>. QED  BY <1>4, <1>6, <2>1, RewrittenKeeps DEF createTestCustomer
  <1>7. ASSUME NEW k \in Codes, CustomerAssigned(k)  PROVE DirectoryInv'
    <2>1. [customers[k] EXCEPT !.officer = TRUE] \in CustomerRow
      BY <1>4, <1>7 DEF CustomerAssigned, CustomerRow
    <2>2. customers' \in [Codes -> CustomerRow \cup {None}]
      BY <1>4, <1>7, <2>1 DEF CustomerAssigned
    <2>. QED  BY <1>4, <1>7, <2>2, RewrittenKeeps DEF CustomerAssigned
  <1>8. ASSUME NEW k \in Codes, NEW cluster \in Clusters, IngestMaster(k, cluster)  PROVE DirectoryInv'
    <2>1. masters' \in [Codes -> Clusters \cup {None}]
      BY <1>4, <1>8 DEF IngestMaster
    <2>. QED  BY <1>4, <1>8, <2>1, RewrittenKeeps DEF IngestMaster
  <1>9. CASE UNCHANGED directoryVars
    BY <1>9 DEF directoryVars, DirectoryInv, DirectoryTypes, Walking, RowsOf, MissingRows, Listed,
                ProjectedRows, UnprojectedRows, Missing, ErpRegion
  <1>. QED  BY <1>1, <1>2, <1>3, <1>5, <1>6, <1>7, <1>8, <1>9 DEF DirectoryNext

(* Every page of a walk continues the one list.                              *)
THEOREM DirectoryInvariance == DirectorySpec => []DirectoryInv
  BY DirectoryInitially, DirectoryStep, PTL DEF DirectorySpec

(* A sequence of the rows of the one and the other has both, and no more.    *)
LEMMA MetAllIs ==
  ASSUME NEW rows \in Seq(Codes), NEW missing \in Seq(Codes), NEW got,
         Met(got, rows, missing, Len(rows) + Len(missing))
  PROVE  Range(got) = Range(rows) \cup Range(missing)
  <1>. DEFINE L == Len(rows)
              M == Len(missing)
  <1>1. /\ L \in Nat /\ M \in Nat /\ DOMAIN rows = 1..L /\ DOMAIN missing = 1..M
        /\ DOMAIN got = 1..(L + M) /\ \A i \in 1..(L + M) : got[i] = RowAt(rows, missing, i)
    BY DEF Met
  <1>. HIDE DEF M
  <1>2. \A i \in 1..L : i \in 1..(L + M) /\ got[i] = rows[i]
    BY <1>1 DEF RowAt
  <1>3. \A i \in 1..M : L + i \in 1..(L + M) /\ got[L + i] = missing[i]
    <2>1. ASSUME NEW i \in 1..M  PROVE L + i \in 1..(L + M) /\ got[L + i] = missing[i]
      <3>. HIDE DEF L
      <3>1. L + i \in 1..(L + M) /\ ~(L + i <= L) /\ (L + i) - L = i
        BY <1>1
      <3>. QED  BY <1>1, <3>1 DEF RowAt, L
    <2>. QED  BY <2>1
  <1>4. \A i \in 1..(L + M) : i \in 1..L \/ (i - L \in 1..M /\ i = L + (i - L))
    <2>. HIDE DEF L
    <2>. QED  BY <1>1
  <1>. HIDE DEF L
  <1>5. ASSUME NEW x \in Range(got)  PROVE x \in Range(rows) \cup Range(missing)
    <2>1. PICK i \in 1..(L + M) : x = got[i]
      BY <1>1 DEF Range
    <2>2. CASE i \in 1..L
      BY <1>1, <1>2, <2>1, <2>2 DEF Range
    <2>3. CASE i - L \in 1..M /\ i = L + (i - L)
      BY <1>1, <1>3, <2>1, <2>3 DEF Range
    <2>. QED  BY <1>4, <2>2, <2>3
  <1>6. ASSUME NEW x \in Range(rows)  PROVE x \in Range(got)
    BY <1>1, <1>2 DEF Range
  <1>7. ASSUME NEW x \in Range(missing)  PROVE x \in Range(got)
    BY <1>1, <1>3 DEF Range
  <1>. QED  BY <1>5, <1>6, <1>7

LEMMA WalkOverMetAll == DirectoryInv => WalkMeetsAll
  <1>. SUFFICES ASSUME DirectoryInv, NEW c \in Calls, At(c, "walk", "done"), calls[c].whole
                PROVE  /\ Len(calls[c].got) = Cardinality(ProjectedRows(calls[c]))
                                               + Cardinality(UnprojectedRows(calls[c]))
                       /\ Range(calls[c].got) = ProjectedRows(calls[c]) \cup UnprojectedRows(calls[c])
    BY DEF WalkMeetsAll
  <1>. DEFINE q == calls[c]
  <1>1. q # Idle /\ q.step = "done" /\ Walking(q) /\ q.whole
    BY DEF DirectoryInv, At, Idle
  <1>. HIDE DEF q
  <1>2. Met(q.got, RowsOf(q), MissingRows(q), Listed(q))
    BY <1>1 DEF Walking
  <1>3. /\ RowsOf(q) \in Seq(Codes) /\ MissingRows(q) \in Seq(Codes)
        /\ Len(RowsOf(q)) = Cardinality(ProjectedRows(q)) /\ Range(RowsOf(q)) = ProjectedRows(q)
        /\ Len(MissingRows(q)) = Cardinality(UnprojectedRows(q))
        /\ Range(MissingRows(q)) = UnprojectedRows(q)
    BY ListedRows
  <1>4. Range(q.got) = Range(RowsOf(q)) \cup Range(MissingRows(q))
    BY <1>2, <1>3, MetAllIs DEF Listed
  <1>5. Len(q.got) = Len(RowsOf(q)) + Len(MissingRows(q))
    BY <1>2 DEF Met, Listed
  <1>. QED  BY <1>3, <1>4, <1>5 DEF q

(* A client that walks the pages while nothing is written meets every        *)
(* distributor that either side has, each once, whatever the page size.      *)
THEOREM WalksMeetAll == DirectorySpec => []WalkMeetsAll
  BY DirectoryInvariance, WalkOverMetAll, PTL

-----------------------------------------------------------------------------
(* What holds of the guards for every set of people, claims and routes.    *)

(* Requests in flight are kept by handler; what each is, RouteTypes says.    *)
RoutesInFlight == calls \in [Calls -> {calls[c] : c \in Calls}]

RouteInv == RoutesInFlight /\ RouteTypes

-----------------------------------------------------------------------------
(* What a request is served as is the row of its caller.                     *)
LEMMA ServedAsTheRow ==
  ASSUME NEW u, validate(u) # None
  PROVE  /\ principals[u].active
         /\ validate(u) = [id |-> u, role |-> principals[u].role, region |-> principals[u].region]
  BY DEF validate

(* A regional admin is held to the region of their row.                      *)
LEMMA ReachedInRegion ==
  ASSUME NEW user, NEW kind, NEW asked,
         user.role = "REGIONAL_ADMIN", kind.reach \in {"region", "pinned", "named", "unnamed"}
  PROVE  Reached(user, kind, asked) \subseteq {user.region}
  <1>1. OwnRegion(user) \subseteq {user.region}
    BY DEF OwnRegion
  <1>2. user.role # "ADMIN"
    OBVIOUS
  <1>3. CASE kind.reach = "region"
    BY <1>1, <1>3 DEF Reached
  <1>4. CASE kind.reach = "pinned"
    BY <1>1, <1>4 DEF Reached
  <1>5. CASE kind.reach = "named"
    BY <1>1, <1>2, <1>5 DEF Reached
  <1>6. CASE kind.reach = "unnamed"
    BY <1>1, <1>2, <1>6 DEF Reached
  <1>. QED  BY <1>3, <1>4, <1>5, <1>6

(* The picker of officers shows who is not an admin their own region.        *)
LEMMA ReachedInList ==
  ASSUME NEW user, NEW kind, NEW asked,
         user.role # "ADMIN", user.region # None, kind.reach = "listed"
  PROVE  Reached(user, kind, asked) = {user.region}
  BY DEF Reached

(* What HeldToTheRow asks of one request.                                    *)
RouteHeld(call, row) ==
  LET reached == Reached(call.user, call.kind, call.asked)
  IN /\ row.active /\ row.role \in call.kind.roles
     /\ row.role = "REGIONAL_ADMIN" /\ call.kind.reach \in {"region", "pinned", "named", "unnamed"} =>
          reached \subseteq {row.region}
     /\ row.role # "ADMIN" /\ row.region # None /\ call.kind.reach = "listed" =>
          reached = {row.region}

LEMMA RequestIsHeld ==
  ASSUME NEW u, NEW kind, NEW asked, NEW call,
         validate(u) # None, canActivate(kind, validate(u)),
         call = [route |-> "request", step |-> "handler", kind |-> kind, asked |-> asked,
                 user |-> validate(u)]
  PROVE  RouteHeld(call, principals[call.user.id])
  <1>1. call.user = validate(u) /\ call.kind = kind /\ call.asked = asked
    OBVIOUS
  <1>2. /\ call.user.id = u /\ call.user.role = principals[u].role
        /\ call.user.region = principals[u].region /\ principals[u].active
    BY <1>1, ServedAsTheRow
  <1>3. call.user.role \in kind.roles
    BY <1>1 DEF canActivate
  <1>. QED  BY <1>1, <1>2, <1>3, ReachedInRegion, ReachedInList DEF RouteHeld

-----------------------------------------------------------------------------
LEMMA RouteInitially == RouteInit => RouteInv
  <1>. SUFFICES ASSUME RouteInit  PROVE RouteInv
    OBVIOUS
  <1>1. RoutesInFlight
    BY DEF RouteInit, RoutesInFlight
  <1>2. \A c \in Calls : calls[c] = Idle
    BY DEF RouteInit
  <1>3. principals \in [StaffMembers \cup Distributors -> [role : ROLES, region : CallerScope, active : BOOLEAN]]
    BY DEF RouteInit, ROLES, CallerScope
  <1>4. claims \in [StaffMembers \cup Distributors -> ROLES \cup {None}]
    BY DEF RouteInit
  <1>. QED  BY <1>1, <1>2, <1>3, <1>4 DEF RouteInv, RouteTypes

(* A handler that moves leaves the others where they are.                    *)
LEMMA RouteMoves ==
  ASSUME RouteInv, NEW c \in Calls, NEW call, Moves(c, call)
  PROVE  /\ RoutesInFlight' /\ calls'[c] = call
         /\ \A d \in Calls \ {c} : calls'[d] = calls[d]
  BY DEF RouteInv, RoutesInFlight, Moves

LEMMA RouteTypesMove ==
  ASSUME RouteInv, NEW c \in Calls, NEW call, Moves(c, call), UNCHANGED <<principals, claims>>,
         call # Idle => call.kind \in RouteKinds /\ call.asked \in CallerScope
  PROVE  RouteInv'
  BY RouteMoves DEF RouteInv, RouteTypes

LEMMA RouteStep ==
  ASSUME RouteInv, [RouteNext]_routeVars
  PROVE  RouteInv'
  <1>1. ASSUME NEW c \in Calls, Request(c)  PROVE RouteInv'
    <2>1. PICK kind \in RouteKinds, asked \in Regions \cup {None}, u \in DOMAIN claims :
            Starts(c, [route |-> "request", step |-> "handler", kind |-> kind, asked |-> asked,
                       user |-> validate(u)])
      BY <1>1 DEF Request
    <2>. QED  BY <1>1, <2>1, RouteTypesMove DEF Request, Starts, CallerScope
  <1>2. ASSUME NEW c \in Calls, RequestWithoutToken(c)  PROVE RouteInv'
    <2>1. PICK kind \in RouteKinds :
            Starts(c, [route |-> "request", step |-> "handler", kind |-> kind, asked |-> None, user |-> None])
      BY <1>2 DEF RequestWithoutToken
    <2>. QED  BY <1>2, <2>1, RouteTypesMove DEF RequestWithoutToken, Starts, CallerScope
  <1>3. ASSUME NEW c \in Calls, Answer(c)  PROVE RouteInv'
    BY <1>3, RouteTypesMove DEF Answer, Ends
  <1>4. ASSUME NEW u \in DOMAIN claims, IssueToken(u)  PROVE RouteInv'
    <2>1. u \in StaffMembers \cup Distributors
      BY DEF RouteInv, RouteTypes
    <2>2. principals[u].role \in ROLES
      BY <2>1 DEF RouteInv, RouteTypes
    <2>. QED  BY <1>4, <2>1, <2>2 DEF IssueToken, RouteInv, RouteTypes, RoutesInFlight
  <1>5. CASE PrincipalChanges
    <2>1. PICK u \in StaffMembers, r \in StaffRolesSeen, g \in CallerScope, a \in BOOLEAN :
            principals' = [principals EXCEPT ![u] = [role |-> r, region |-> g, active |-> a]]
      BY <1>5 DEF PrincipalChanges, CallerScope
    <2>2. r \in ROLES
      BY RouteAssumption DEF STAFF
    <2>3. [role |-> r, region |-> g, active |-> a] \in [role : ROLES, region : CallerScope, active : BOOLEAN]
      BY <2>2
    <2>. QED  BY <1>5, <2>1, <2>3 DEF PrincipalChanges, RouteInv, RouteTypes, RoutesInFlight
  <1>6. CASE OnHold
    <2>1. PICK u \in Distributors : principals' = [principals EXCEPT ![u].active = ~@]
      BY <1>6 DEF OnHold
    <2>2. [principals[u] EXCEPT !.active = ~@] \in [role : ROLES, region : CallerScope, active : BOOLEAN]
      BY DEF RouteInv, RouteTypes
    <2>. QED  BY <1>6, <2>1, <2>2 DEF OnHold, RouteInv, RouteTypes, RoutesInFlight
  <1>7. CASE UNCHANGED routeVars
    BY <1>7 DEF routeVars, RouteInv, RouteTypes, RoutesInFlight
  <1>. QED  BY <1>1, <1>2, <1>3, <1>4, <1>5, <1>6, <1>7 DEF RouteNext

(* Rows, claims and the requests in flight are what the guards and handlers  *)
(* take them for.                                                            *)
THEOREM RouteInvariance == RouteSpec => []RouteInv
  BY RouteInitially, RouteStep, PTL DEF RouteSpec

(* No step lets a request in that is not held to its caller's row.           *)
LEMMA EachIsHeld ==
  ASSUME RouteInv, [RouteNext]_routeVars, NEW c \in Calls,
         calls[c] = Idle, calls'[c].route = "request", calls'[c].user # None
  PROVE  RouteHeld(calls'[c], principals[calls'[c].user.id])
  <1>1. Idle.route # "request"
    BY DEF Idle
  <1>2. calls' # calls
    BY <1>1
  <1>3. PICK d \in Calls : Request(d) \/ RequestWithoutToken(d) \/ Answer(d)
    BY <1>2 DEF RouteNext, IssueToken, PrincipalChanges, OnHold, routeVars
  <1>4. CASE Answer(d)
    BY <1>1, <1>4, RouteMoves DEF Answer, Ends
  <1>5. CASE RequestWithoutToken(d)
    <2>1. PICK kind \in RouteKinds :
            Starts(d, [route |-> "request", step |-> "handler", kind |-> kind, asked |-> None, user |-> None])
      BY <1>5 DEF RequestWithoutToken
    <2>. QED  BY <1>1, <2>1, RouteMoves DEF Starts
  <1>6. CASE Request(d)
    <2>1. PICK kind \in RouteKinds, asked \in Regions \cup {None}, u \in DOMAIN claims :
            /\ validate(u) # None /\ canActivate(kind, validate(u))
            /\ Starts(d, [route |-> "request", step |-> "handler", kind |-> kind, asked |-> asked,
                          user |-> validate(u)])
      BY <1>6 DEF Request
    <2>2. c = d
      BY <1>1, <2>1, RouteMoves DEF Starts
    <2>3. calls'[c] = [route |-> "request", step |-> "handler", kind |-> kind, asked |-> asked,
                       user |-> validate(u)]
      BY <2>1, <2>2, RouteMoves DEF Starts
    <2>. QED  BY <2>1, <2>3, RequestIsHeld
  <1>. QED  BY <1>3, <1>4, <1>5, <1>6

(* US-15.5, RA-03: who is let in is served as the row of their account says  *)
(* at that moment, whatever their token claims, and a regional admin reaches *)
(* no other region than that row's.                                          *)
THEOREM RequestsAreHeld == RouteSpec => HeldToTheRow
  <1>1. RouteInv /\ [RouteNext]_routeVars =>
          [\A c \in Calls :
             calls[c] = Idle /\ calls'[c].route = "request" /\ calls'[c].user # None =>
               LET call == calls'[c]  row == principals[call.user.id]
                   reached == Reached(call.user, call.kind, call.asked)
               IN /\ row.active /\ row.role \in call.kind.roles
                  /\ row.role = "REGIONAL_ADMIN" /\ call.kind.reach \in {"region", "pinned", "named", "unnamed"} =>
                       reached \subseteq {row.region}
                  /\ row.role # "ADMIN" /\ row.region # None /\ call.kind.reach = "listed" =>
                       reached = {row.region}]_routeVars
    BY EachIsHeld DEF RouteHeld
  <1>. QED  BY <1>1, RouteInvariance, PTL DEF RouteSpec, HeldToTheRow

-----------------------------------------------------------------------------
(* What holds of the background jobs for every set of processes, jobs and  *)
(* keys, however they fail and restart.                                    *)

(* Of the passes at work no two have the same advisory lock.                 *)
LockIsExclusive ==
  \A s, t \in Slots :
    passes[s].at = "work" /\ passes[t].at = "work" /\ LOCK_KEY[s[2]] = LOCK_KEY[t[2]] => s = t

JobInv == ReconcilerTypes /\ LockIsExclusive

(* What a pass turns into.                                                   *)
To(at, sees) == [at |-> at, sees |-> sees]

(* One pass goes from one point to another, and its flag with it.            *)
LEMMA OnePassMoves ==
  ASSUME JobInv, NEW s \in Slots, NEW at \in {"idle", "probe", "flag", "lock", "work"},
         NEW sees \in BOOLEAN, passes' = [passes EXCEPT ![s] = To(at, sees)],
         running' = IF at \in {"lock", "work"} THEN running \cup {s} ELSE running \ {s},
         at = "work" => \A t \in Slots : passes[t].at = "work" => LOCK_KEY[t[2]] # LOCK_KEY[s[2]]
  PROVE  /\ passes' \in [Slots -> Pass]
         /\ running' = {t \in Slots : passes'[t].at \in {"lock", "work"}}
         /\ LockIsExclusive'
  <1>. DEFINE pass == To(at, sees)
  <1>1. pass \in Pass /\ pass.at = at
    BY DEF To, Pass
  <1>2. passes \in [Slots -> Pass] /\ passes' = [passes EXCEPT ![s] = pass]
    BY DEF JobInv, ReconcilerTypes
  <1>. HIDE DEF pass
  <1>3. passes'[s] = pass /\ \A t \in Slots \ {s} : passes'[t] = passes[t]
    BY <1>2
  <1>4. passes' \in [Slots -> Pass]
    BY <1>1, <1>2
  <1>5. running = {t \in Slots : passes[t].at \in {"lock", "work"}}
    BY DEF JobInv, ReconcilerTypes
  <1>6. running' = {t \in Slots : passes'[t].at \in {"lock", "work"}}
    <2>1. CASE at \in {"lock", "work"}
      BY <1>1, <1>3, <1>5, <2>1
    <2>2. CASE at \notin {"lock", "work"}
      BY <1>1, <1>3, <1>5, <2>2
    <2>. QED  BY <2>1, <2>2
  <1>7. LockIsExclusive'
    BY <1>1, <1>3 DEF JobInv, LockIsExclusive
  <1>. QED  BY <1>4, <1>6, <1>7

LEMMA JobInitially == ReconcilerInit => JobInv
  BY ReconcilerAssumption DEF ReconcilerInit, JobInv, ReconcilerTypes, LockIsExclusive, Rest, Pass

LEMMA JobStep == JobInv /\ [ReconcilerNext]_reconcilerVars => JobInv'
  <1>. SUFFICES ASSUME JobInv, [ReconcilerNext]_reconcilerVars  PROVE JobInv'
    OBVIOUS
  <1>0. /\ calls \in [Calls -> {Idle}] /\ passes \in [Slots -> Pass]
        /\ available \in [Slots -> {"unknown", "yes", "no"}]
        /\ running = {s \in Slots : passes[s].at \in {"lock", "work"}}
        /\ present \subseteq Jobs /\ due \subseteq Jobs
        /\ ingests \in 0..MaxIngests /\ faults \in 0..MaxFaults
        /\ MaxIngests \in Nat /\ MaxFaults \in Nat
    BY ReconcilerAssumption DEF JobInv, ReconcilerTypes
  <1>. USE DEF Goes, Lowered
  <1>1. ASSUME NEW s \in Slots, Wake(s)  PROVE JobInv'
    <2>1. PICK at \in {"flag", "idle", "probe"} : passes' = [passes EXCEPT ![s] = To(at, FALSE)]
      BY <1>1 DEF Wake, To
    <2>2. running' = running \ {s}
      BY <1>0, <1>1 DEF Wake
    <2>3. LockIsExclusive' /\ passes' \in [Slots -> Pass]
          /\ running' = {t \in Slots : passes'[t].at \in {"lock", "work"}}
      BY <2>1, <2>2, OnePassMoves
    <2>. QED  BY <1>0, <1>1, <2>3 DEF Wake, JobInv, ReconcilerTypes
  <1>2. ASSUME NEW s \in Slots, Probe(s) \/ ProbeFails(s)  PROVE JobInv'
    <2>1. PICK at \in {"flag", "idle"} : passes' = [passes EXCEPT ![s] = To(at, FALSE)]
      BY <1>2 DEF Probe, ProbeFails, To
    <2>2. running' = running \ {s}
      BY <1>0, <1>2 DEF Probe, ProbeFails
    <2>3. LockIsExclusive' /\ passes' \in [Slots -> Pass]
          /\ running' = {t \in Slots : passes'[t].at \in {"lock", "work"}}
      BY <2>1, <2>2, OnePassMoves
    <2>4. available' \in [Slots -> {"unknown", "yes", "no"}] /\ faults' \in 0..MaxFaults
          /\ UNCHANGED <<calls, present, due, ingests>>
      BY <1>0, <1>2 DEF Probe, ProbeFails
    <2>. QED  BY <1>0, <2>3, <2>4 DEF JobInv, ReconcilerTypes
  <1>3. ASSUME NEW s \in Slots, RaiseFlag(s)  PROVE JobInv'
    <2>1. s \notin running
      BY <1>0, <1>3 DEF RaiseFlag
    <2>2. passes' = [passes EXCEPT ![s] = To("lock", FALSE)] /\ running' = running \cup {s}
      BY <1>3, <2>1 DEF RaiseFlag, To
    <2>3. LockIsExclusive' /\ passes' \in [Slots -> Pass]
          /\ running' = {t \in Slots : passes'[t].at \in {"lock", "work"}}
      BY <2>2, OnePassMoves
    <2>. QED  BY <1>0, <1>3, <2>3 DEF RaiseFlag, JobInv, ReconcilerTypes
  <1>4. ASSUME NEW s \in Slots, TryLock(s)  PROVE JobInv'
    <2>1. CASE Held(LOCK_KEY[s[2]])
      <3>1. passes' = [passes EXCEPT ![s] = To("idle", FALSE)] /\ running' = running \ {s}
        BY <1>4, <2>1 DEF TryLock, To
      <3>2. LockIsExclusive' /\ passes' \in [Slots -> Pass]
            /\ running' = {t \in Slots : passes'[t].at \in {"lock", "work"}}
        BY <3>1, OnePassMoves
      <3>. QED  BY <1>0, <1>4, <3>2 DEF TryLock, JobInv, ReconcilerTypes
    <2>2. CASE ~Held(LOCK_KEY[s[2]])
      <3>. DEFINE sees == s[2] \in due
      <3>1. passes' = [passes EXCEPT ![s] = To("work", sees)] /\ running' = running \cup {s}
        BY <1>0, <1>4, <2>2 DEF TryLock, To
      <3>2. \A t \in Slots : passes[t].at = "work" => LOCK_KEY[t[2]] # LOCK_KEY[s[2]]
        BY <2>2 DEF Held
      <3>3. sees \in BOOLEAN
        OBVIOUS
      <3>. HIDE DEF sees
      <3>4. LockIsExclusive' /\ passes' \in [Slots -> Pass]
            /\ running' = {t \in Slots : passes'[t].at \in {"lock", "work"}}
        BY <3>1, <3>2, <3>3, OnePassMoves
      <3>. QED  BY <1>0, <1>4, <3>4 DEF TryLock, JobInv, ReconcilerTypes
    <2>. QED  BY <2>1, <2>2
  <1>5. ASSUME NEW s \in Slots, Commit(s) \/ PassFails(s)  PROVE JobInv'
    <2>1. passes' = [passes EXCEPT ![s] = To("idle", FALSE)] /\ running' = running \ {s}
      BY <1>5 DEF Commit, PassFails, To
    <2>2. LockIsExclusive' /\ passes' \in [Slots -> Pass]
          /\ running' = {t \in Slots : passes'[t].at \in {"lock", "work"}}
      BY <2>1, OnePassMoves
    <2>3. due' \subseteq Jobs /\ faults' \in 0..MaxFaults /\ UNCHANGED <<calls, available, present, ingests>>
      BY <1>0, <1>5 DEF Commit, PassFails
    <2>. QED  BY <1>0, <2>2, <2>3 DEF JobInv, ReconcilerTypes
  <1>6. ASSUME NEW p \in Processes, Restart(p)  PROVE JobInv'
    <2>. DEFINE own == Slots \cap ({p} \X Jobs)
    <2>1. /\ passes' = [s \in Slots |-> IF s \in own THEN Rest ELSE passes[s]]
          /\ available' = [s \in Slots |-> IF s \in own THEN "unknown" ELSE available[s]]
          /\ running' = running \ own /\ faults' \in 0..MaxFaults
          /\ UNCHANGED <<calls, present, due, ingests>>
      BY <1>0, <1>6 DEF Restart
    <2>2. Rest \in Pass /\ Rest.at = "idle"
      BY DEF Rest, Pass
    <2>. HIDE DEF own
    <2>3. passes' \in [Slots -> Pass] /\ available' \in [Slots -> {"unknown", "yes", "no"}]
      BY <1>0, <2>1, <2>2
    <2>4. \A s \in Slots : passes'[s].at = IF s \in own THEN "idle" ELSE passes[s].at
      BY <2>1, <2>2
    <2>5. running' = {s \in Slots : passes'[s].at \in {"lock", "work"}}
      BY <1>0, <2>1, <2>4
    <2>6. LockIsExclusive'
      BY <2>4 DEF JobInv, LockIsExclusive
    <2>. QED  BY <1>0, <2>1, <2>3, <2>5, <2>6 DEF JobInv, ReconcilerTypes
  <1>7. ASSUME NEW j \in Jobs, Arrive(j)  PROVE JobInv'
    <2>1. passes' = [s \in Slots |-> IF s[2] = j THEN [passes[s] EXCEPT !.sees = FALSE] ELSE passes[s]]
      BY <1>7 DEF Arrive
    <2>2. ASSUME NEW s \in Slots
          PROVE  passes'[s] \in Pass /\ passes'[s].at = passes[s].at
      <3>1. passes[s] \in Pass
        BY <1>0
      <3>2. [passes[s] EXCEPT !.sees = FALSE] \in Pass /\ [passes[s] EXCEPT !.sees = FALSE].at = passes[s].at
        BY <3>1 DEF Pass
      <3>. QED  BY <2>1, <3>1, <3>2
    <2>3. passes' \in [Slots -> Pass]
      BY <2>1, <2>2
    <2>4. running' = {s \in Slots : passes'[s].at \in {"lock", "work"}}
      BY <1>0, <1>7, <2>2 DEF Arrive
    <2>5. LockIsExclusive'
      BY <2>2 DEF JobInv, LockIsExclusive
    <2>6. /\ present' \subseteq Jobs /\ due' \subseteq Jobs /\ ingests' \in 0..MaxIngests
          /\ UNCHANGED <<calls, available, faults>>
      BY <1>0, <1>7 DEF Arrive
    <2>. QED  BY <1>0, <2>3, <2>4, <2>5, <2>6 DEF JobInv, ReconcilerTypes
  <1>8. CASE UNCHANGED reconcilerVars
    BY <1>8 DEF reconcilerVars, JobInv, ReconcilerTypes, LockIsExclusive
  <1>. QED  BY <1>1, <1>2, <1>3, <1>4, <1>5, <1>6, <1>7, <1>8 DEF ReconcilerNext, PassStep

(* The flag of a job is up just while a pass of it is under way in its       *)
(* process.                                                                  *)
THEOREM JobInvariance == ReconcilerSpec => []JobInv
  BY JobInitially, JobStep, PTL DEF ReconcilerSpec

(* No two passes that go by the same advisory key are at work at once, in    *)
(* whichever processes and jobs, and however they fail and restart.          *)
THEOREM LocksExclude == ReconcilerSpec => []LockIsExclusive
  <1>1. JobInv => LockIsExclusive
    BY DEF JobInv
  <1>. QED  BY <1>1, JobInvariance, PTL

-----------------------------------------------------------------------------
(* What the screens show of accounts, orders and conversations, whatever     *)
(* the feeds and the portal hold.                                            *)

LEMMA SumsOver ==
  ASSUME NEW S, NEW f, DOMAIN f = S
  PROVE  SumFunction(f) = SumFunctionOnSet(f, S)
  BY DEF SumFunction

LEMMA StockHeld ==
  ASSUME AccountTypes, NEW k \in Accts
  PROVE  /\ stock[k] \in StockType /\ IsFiniteSet(stock[k].lines) /\ IsFiniteSet(stock[k].orders)
         /\ stock[k].lines \subseteq OpenLine
  <1>1. stock[k] \in StockStates
    BY DEF AccountTypes
  <1>2. stock[k] \in StockType /\ IsFiniteSet(stock[k].lines) /\ IsFiniteSet(stock[k].orders)
    BY <1>1, StockAssumption
  <1>3. stock[k].lines \in SUBSET OpenLine
    BY <1>2 DEF StockType
  <1>. QED  BY <1>2, <1>3

(* The lines of some accounts are finitely many, and typed.                  *)
LEMMA LinesHeld ==
  ASSUME AccountTypes, NEW ks \in SUBSET Accts, NEW w
  PROVE  /\ IsFiniteSet(ks) /\ IsFiniteSet(StockLines(ks, w))
         /\ \A r \in StockLines(ks, w) :
              r.of \in ks /\ r.line \in stock[r.of].lines /\ r.line \in OpenLine
              /\ r.line.product \in STRING /\ r.line.ordered \in Nat /\ r.line.delivered \in Nat
  <1>. DEFINE held == [k \in ks |-> stock[k].lines]
              L == UNION {held[k] : k \in ks}
              P == ks \X L
              f == [p \in P |-> [of |-> p[1], line |-> p[2]]]
  <1>1. IsFiniteSet(ks)
    BY StockAssumption, FS_Subset
  <1>2. IsFiniteSet({held[k] : k \in ks})
    <2>1. held \in [ks -> {held[k] : k \in ks}]
      OBVIOUS
    <2>. HIDE DEF held
    <2>. QED  BY <1>1, <2>1, FiniteImage
  <1>3. \A t \in {held[k] : k \in ks} : IsFiniteSet(t)
    BY StockHeld
  <1>4. IsFiniteSet(L)
    <2>. HIDE DEF held
    <2>. QED  BY <1>2, <1>3, FS_UNION
  <1>5. IsFiniteSet(P)
    <2>. HIDE DEF L
    <2>. QED  BY <1>1, <1>4, FS_Product
  <1>6. IsFiniteSet({f[p] : p \in P})
    <2>1. f \in [P -> {f[p] : p \in P}]
      OBVIOUS
    <2>. HIDE DEF f, P
    <2>. QED  BY <1>5, <2>1, FiniteImage
  <1>7. ASSUME NEW r \in StockLines(ks, w)
        PROVE  /\ r.of \in ks /\ r.line \in stock[r.of].lines /\ r.line \in OpenLine
               /\ r \in {f[p] : p \in P}
    <2>1. PICK k \in ks : \E l \in stock[k].lines : r = [of |-> k, line |-> l]
      BY DEF StockLines
    <2>2. PICK l \in stock[k].lines : r = [of |-> k, line |-> l]
      BY <2>1
    <2>3. <<k, l>> \in P /\ f[<<k, l>>] = r
      BY <2>2
    <2>. HIDE DEF f, P
    <2>. QED  BY <2>2, <2>3, StockHeld
  <1>8. StockLines(ks, w) \subseteq {f[p] : p \in P}
    BY <1>7
  <1>9. IsFiniteSet(StockLines(ks, w))
    <2>. HIDE DEF f, P
    <2>. QED  BY <1>6, <1>8, FS_Subset
  <1>10. \A l \in OpenLine : l.product \in STRING /\ l.ordered \in Nat /\ l.delivered \in Nat
    BY DEF OpenLine
  <1>. QED  BY <1>1, <1>7, <1>9, <1>10

(* Lines that add up.                                                        *)
Countable(S) ==
  /\ IsFiniteSet(S)
  /\ \A r \in S : r.line.product \in STRING /\ r.line.ordered \in Nat /\ r.line.delivered \in Nat

LEMMA SomeCountable ==
  ASSUME NEW S, Countable(S), NEW T \in SUBSET S
  PROVE  Countable(T)
  BY FS_Subset DEF Countable

LEMMA LinesCountable ==
  ASSUME AccountTypes, NEW k \in Accts, NEW w
  PROVE  /\ Countable(StockLines({k}, w)) /\ Countable(OwnLines(k, w))
         /\ OwnLines(k, w) \subseteq StockLines({k}, w)
         /\ \A r \in StockLines({k}, w) : r.line.customer \in Nat
  <1>1. {k} \in SUBSET Accts
    OBVIOUS
  <1>2. Countable(StockLines({k}, w))
    BY <1>1, LinesHeld DEF Countable
  <1>3. OwnLines(k, w) \subseteq StockLines({k}, w)
    BY DEF OwnLines
  <1>4. \A r \in StockLines({k}, w) : r.line \in OpenLine
    BY <1>1, LinesHeld
  <1>. QED  BY <1>2, <1>3, <1>4, SomeCountable DEF OpenLine

(* Sums over such lines are numbers.                                         *)
LEMMA LinesAdd ==
  ASSUME NEW S, IsFiniteSet(S),
         \A r \in S : r.line.ordered \in Nat /\ r.line.delivered \in Nat
  PROVE  Ordered1(S) \in Nat /\ Delivered(S) \in Nat
  <1>. DEFINE v == [r \in S |-> r.line.ordered]
              u == [r \in S |-> r.line.delivered]
  <1>1. \A r \in S : v[r] \in Nat /\ u[r] \in Nat
    OBVIOUS
  <1>2. DOMAIN v = S /\ DOMAIN u = S /\ Ordered1(S) = SumFunction(v) /\ Delivered(S) = SumFunction(u)
    BY DEF Ordered1, Delivered
  <1>. HIDE DEF v, u
  <1>3. SumFunctionOnSet(v, S) \in Nat /\ SumFunctionOnSet(u, S) \in Nat
    BY <1>1, SumIsNat
  <1>. QED  BY <1>2, <1>3, SumsOver

LEMMA FloorOf ==
  ASSUME NEW n \in Int
  PROVE  Floor(n) \in Int
  <1>. DEFINE S == {0, n}
  <1>1. \E x \in S : \A y \in S : x >= y
    OBVIOUS
  <1>2. Max(S) \in S
    <2>. HIDE DEF S
    <2>. QED  BY <1>1 DEF Max
  <1>. QED  BY <1>2 DEF Floor

(* A balance made of the ERP's lines is one, and not null.                   *)
LEMMA ShapeIsBalance ==
  ASSUME NEW S, Countable(S)
  PROVE  /\ shape(S) \in StockBalance /\ shape(S) # None
         /\ shape(S).totalPurchased = Ordered1(S)
         /\ shape(S).totalLoaded = Delivered(S)
         /\ shape(S).totalRemaining = Floor(Ordered1(S) - Delivered(S))
         /\ Ordered1(S) \in Nat /\ Delivered(S) \in Nat
  <1>. DEFINE of(p) == {r \in S : r.line.product = p}
              row(p) == [productName |-> p, quantityPaid |-> Ordered1(of(p)),
                         quantityLoaded |-> Delivered(of(p)),
                         quantityRemaining |-> Floor(Ordered1(of(p)) - Delivered(of(p)))]
              R == {row(p) : p \in {r.line.product : r \in S}}
  <1>1. /\ IsFiniteSet(S)
        /\ \A r \in S : r.line.product \in STRING /\ r.line.ordered \in Nat /\ r.line.delivered \in Nat
    BY DEF Countable
  <1>2. Ordered1(S) \in Nat /\ Delivered(S) \in Nat
    BY <1>1, LinesAdd
  <1>3. ASSUME NEW p \in {r.line.product : r \in S}
        PROVE  row(p) \in [productName : STRING, quantityPaid : Int, quantityLoaded : Int,
                           quantityRemaining : Int]
    <2>. DEFINE T == of(p)
    <2>1. IsFiniteSet(T) /\ \A r \in T : r.line.ordered \in Nat /\ r.line.delivered \in Nat
      BY <1>1, FS_Subset
    <2>. HIDE DEF T
    <2>2. Ordered1(T) \in Nat /\ Delivered(T) \in Nat
      BY <2>1, LinesAdd
    <2>3. Ordered1(T) - Delivered(T) \in Int /\ Ordered1(T) \in Int /\ Delivered(T) \in Int
      BY <2>2
    <2>4. Floor(Ordered1(T) - Delivered(T)) \in Int
      BY <2>3, FloorOf
    <2>5. p \in STRING
      BY <1>1
    <2>. QED  BY <2>3, <2>4, <2>5 DEF T
  <1>4. R \in SUBSET [productName : STRING, quantityPaid : Int, quantityLoaded : Int,
                      quantityRemaining : Int]
    <2>. HIDE DEF row
    <2>. QED  BY <1>3
  <1>5. Ordered1(S) - Delivered(S) \in Int
    BY <1>2
  <1>6. Floor(Ordered1(S) - Delivered(S)) \in Int
    BY <1>5, FloorOf
  <1>7. shape(S) = [totalPurchased |-> Ordered1(S), totalLoaded |-> Delivered(S),
                    totalRemaining |-> Floor(Ordered1(S) - Delivered(S)), products |-> R]
    BY Zenon DEF shape
  <1>. HIDE DEF R, row, of
  <1>8. shape(S) \in StockBalance
    BY <1>2, <1>4, <1>6, <1>7 DEF StockBalance
  <1>. QED  BY <1>2, <1>7, <1>8, StockAssumption

(* What a screen that asks the ERP, and falls back on zeros, counts as paid. *)
LEMMA PaidToTheErp ==
  ASSUME NEW S, Countable(S), stockFeed = "answers"
  PROVE  /\ Or(Derived(S), Nothing).totalPurchased = Ordered1(S)
         /\ Or(Derived(S), Nothing) \in StockBalance
  <1>1. CASE S = {}
    <2>. DEFINE v == [r \in {} |-> r.line.ordered]
    <2>1. DOMAIN v = {} /\ Ordered1({}) = SumFunction(v)
      BY DEF Ordered1
    <2>. HIDE DEF v
    <2>2. Ordered1({}) = 0
      BY <2>1, SumsOver, SumOfNone
    <2>3. Or(Derived(S), Nothing) = Nothing
      BY <1>1 DEF Or, Derived
    <2>. QED  BY <1>1, <2>2, <2>3 DEF Nothing, StockBalance
  <1>2. CASE S # {}
    <2>1. Or(Derived(S), Nothing) = shape(S)
      BY <1>2, ShapeIsBalance DEF Or, Derived
    <2>. QED  BY <2>1, ShapeIsBalance
  <1>. QED  BY <1>1, <1>2

(* Lines of an account, those the card follows and those it passes over.     *)
LEMMA OwnAndPassedOver ==
  ASSUME AccountTypes, NEW k \in Accts
  PROVE  /\ Ordered1(StockLines({k}, Always)) = Ordered1(OwnLines(k, Always)) + PassedOver(k)
         /\ PassedOver(k) \in Nat
  <1>. DEFINE S == StockLines({k}, Always)
              T == OwnLines(k, Always)
              U == S \ T
              v == [r \in S |-> r.line.ordered]
              t == [r \in T |-> r.line.ordered]
              u == [r \in U |-> r.line.ordered]
  <1>1. Countable(S) /\ Countable(T) /\ Countable(U) /\ T \subseteq S
    BY LinesCountable, SomeCountable
  <1>2. /\ Ordered1(S) = SumFunction(v) /\ DOMAIN v = S
        /\ Ordered1(T) = SumFunction(t) /\ DOMAIN t = T
        /\ Ordered1(U) = SumFunction(u) /\ DOMAIN u = U
        /\ PassedOver(k) = Ordered1(U)
    BY DEF Ordered1, PassedOver
  <1>3. /\ \A r \in S : v[r] \in Int
        /\ \A r \in T : t[r] \in Int /\ t[r] = v[r]
        /\ \A r \in U : u[r] \in Int /\ u[r] = v[r]
    <2>1. \A r \in S : r.line.ordered \in Int
      BY <1>1 DEF Countable
    <2>2. T \subseteq S /\ U \subseteq S
      BY <1>1
    <2>. HIDE DEF S, T, U
    <2>. QED  BY <2>1, <2>2
  <1>4. IsFiniteSet(S) /\ IsFiniteSet(T) /\ IsFiniteSet(U)
    BY <1>1 DEF Countable
  <1>5. T \cap U = {} /\ T \cup U = S
    BY <1>1
  <1>6. PassedOver(k) \in Nat
    BY <1>1, <1>2, ShapeIsBalance
  <1>. HIDE DEF S, T, U, v, t, u
  <1>7. SumFunctionOnSet(t, T) = SumFunctionOnSet(v, T) /\ SumFunctionOnSet(u, U) = SumFunctionOnSet(v, U)
    BY <1>3, <1>4, SumsAgree
  <1>8. SumFunctionOnSet(v, T \cup U) = SumFunctionOnSet(v, T) + SumFunctionOnSet(v, U)
    <2>1. \A r \in T \cup U : v[r] \in Int
      BY <1>3, <1>5
    <2>. QED  BY <1>4, <1>5, <2>1, SumOfUnion
  <1>9. /\ Ordered1(S) = SumFunctionOnSet(v, S) /\ Ordered1(T) = SumFunctionOnSet(t, T)
        /\ Ordered1(U) = SumFunctionOnSet(u, U)
    BY <1>2, SumsOver
  <1>10. Ordered1(S) = Ordered1(T) + Ordered1(U)
    BY <1>5, <1>7, <1>8, <1>9
  <1>. QED  BY <1>2, <1>6, <1>10 DEF S, T

(* AO-P2: the portfolio's screen adds up its accounts.                       *)
LEMMA PortfolioAddsUp ==
  ASSUME AccountTypes, NEW ks \in SUBSET Accts
  PROVE  PortfolioAgrees(ks)
  <1>. SUFFICES ASSUME stockFeed = "answers"
                PROVE  PortfolioStock(ks, Always).totalPurchased
                         = SumFunction([k \in ks |->
                             Or(getStockBalance(k, Always), Nothing).totalPurchased + PassedOver(k)])
    BY DEF PortfolioAgrees
  <1>. DEFINE S == StockLines(ks, Always)
              v == [r \in S |-> r.line.ordered]
              owner == [r \in S |-> r.of]
              u == [k \in ks |-> Or(getStockBalance(k, Always), Nothing).totalPurchased + PassedOver(k)]
  <1>1. /\ IsFiniteSet(S) /\ IsFiniteSet(ks) /\ owner \in [S -> ks]
        /\ \A r \in S : v[r] \in Int /\ r.line.ordered \in Nat
    BY LinesHeld
  <1>2. ASSUME NEW k \in ks
        PROVE  u[k] = SumFunctionOnSet(v, {r \in S : owner[r] = k})
    <2>. DEFINE T == StockLines({k}, Always)
                t == [r \in T |-> r.line.ordered]
    <2>1. u[k] = Ordered1(T)
      <3>1. Or(getStockBalance(k, Always), Nothing).totalPurchased = Ordered1(OwnLines(k, Always))
        BY LinesCountable, PaidToTheErp DEF getStockBalance
      <3>. QED  BY <3>1, OwnAndPassedOver
    <2>2. {r \in S : owner[r] = k} = T
      BY DEF StockLines
    <2>3. T \subseteq S /\ DOMAIN t = T /\ Ordered1(T) = SumFunction(t)
      BY <2>2 DEF Ordered1
    <2>4. \A r \in T : v[r] \in Int /\ v[r] = t[r]
      BY <1>1, <2>3
    <2>5. IsFiniteSet(T)
      BY <1>1, <2>3, FS_Subset
    <2>. HIDE DEF T, t, S, v, u, owner
    <2>6. SumFunctionOnSet(v, T) = SumFunctionOnSet(t, T)
      BY <2>4, <2>5, SumsAgree
    <2>7. SumFunction(t) = SumFunctionOnSet(t, T)
      BY <2>3, SumsOver
    <2>. QED  BY <2>1, <2>2, <2>3, <2>6, <2>7
  <1>3. Ordered1(S) = SumFunction(v) /\ DOMAIN v = S /\ DOMAIN u = ks
    BY DEF Ordered1
  <1>4. PortfolioStock(ks, Always).totalPurchased = Ordered1(S)
    <2>1. Countable(S)
      BY LinesHeld DEF Countable
    <2>2. /\ Or(getStockBalanceForCustomers(ks, Always), Nothing) \in StockBalance
          /\ Or(getStockBalanceForCustomers(ks, Always), Nothing).totalPurchased = Ordered1(S)
      BY <2>1, PaidToTheErp DEF getStockBalanceForCustomers
    <2>. QED  BY <2>2 DEF PortfolioStock, Uncollected, StockBalance
  <1>. HIDE DEF S, v, u, owner
  <1>5. SumFunctionOnSet(v, S) = SumFunctionOnSet(u, ks)
    <2>1. \A k \in ks : u[k] = SumFunctionOnSet(v, {r \in S : owner[r] = k})
      BY <1>2
    <2>2. IsFiniteSet(S) /\ IsFiniteSet(ks) /\ owner \in [S -> ks] /\ \A r \in S : v[r] \in Int
      BY <1>1
    <2>. QED  BY <2>1, <2>2, SumByKey
  <1>. QED  BY <1>3, <1>4, <1>5, SumsOver DEF u

-----------------------------------------------------------------------------
(* What the portal itself knows of an account's orders.                      *)

LEMMA OrdersHeld ==
  ASSUME AccountTypes, NEW k \in Accts, NEW o \in stock[k].orders
  PROVE  /\ o.items \in Seq(ItemOf(Int)) /\ o.listed \in Seq(ItemOf(Int \cup {None}))
         /\ IsFiniteSet(DOMAIN o.items)
         /\ \A i \in DOMAIN o.items : o.items[i].product \in STRING /\ o.items[i].quantity \in Nat
  <1>1. o.items \in Seq(ItemOf(Int)) /\ o.listed \in Seq(ItemOf(Int \cup {None}))
    BY StockHeld DEF StockType
  <1>2. DOMAIN o.items = 1..Len(o.items) /\ Len(o.items) \in Nat
        /\ \A i \in DOMAIN o.items : o.items[i] \in ItemOf(Int)
    BY <1>1
  <1>3. IsFiniteSet(DOMAIN o.items)
    BY <1>2, FS_Interval
  <1>4. \A x \in ItemOf(Int) : x.product \in STRING /\ x.quantity \in Nat
    BY DEF ItemOf
  <1>. QED  BY <1>1, <1>2, <1>3, <1>4

(* What an order paid for is what it paid for each product.                  *)
LEMMA PaidByProduct ==
  ASSUME AccountTypes, NEW k \in Accts, NEW o \in stock[k].orders,
         NEW names, IsFiniteSet(names), \A i \in DOMAIN o.items : o.items[i].product \in names
  PROVE  /\ Paid(o) = SumFunctionOnSet([p \in names |-> Quantity(o, p)], names) /\ Paid(o) \in Nat
         /\ \A p \in names : Quantity(o, p) \in Nat
  <1>. DEFINE S == DOMAIN o.items
              v == [i \in S |-> o.items[i].quantity]
              key == [i \in S |-> o.items[i].product]
              w == [p \in names |-> Quantity(o, p)]
  <1>1. IsFiniteSet(S) /\ \A i \in S : o.items[i].quantity \in Nat
    BY OrdersHeld
  <1>2. key \in [S -> names] /\ \A i \in S : v[i] \in Nat
    BY <1>1
  <1>3. ASSUME NEW p \in names
        PROVE  w[p] = SumFunctionOnSet(v, {i \in S : key[i] = p}) /\ Quantity(o, p) \in Nat
    <2>. DEFINE z == [i \in S |-> IF o.items[i].product = p THEN o.items[i].quantity ELSE 0]
                T == {i \in S : key[i] = p}
    <2>1. /\ T \in SUBSET S /\ \A i \in S : z[i] \in Nat
          /\ \A i \in S \ T : z[i] = 0
          /\ \A i \in T : v[i] = z[i]
      BY <1>1
    <2>2. Quantity(o, p) = SumFunction(z) /\ DOMAIN z = S /\ w[p] = Quantity(o, p)
      BY DEF Quantity
    <2>3. IsFiniteSet(T)
      BY <1>1, <2>1, FS_Subset
    <2>. HIDE DEF z, T, S, v, key, w
    <2>4. SumFunctionOnSet(z, T) = SumFunctionOnSet(z, S)
      <3>1. \A i \in S : z[i] \in Int
        BY <2>1
      <3>. QED  BY <1>1, <2>1, <3>1, SumWithoutZeros
    <2>5. SumFunctionOnSet(z, T) = SumFunctionOnSet(v, T)
      <3>1. \A i \in T : z[i] \in Int /\ z[i] = v[i]
        BY <2>1
      <3>. QED  BY <2>3, <3>1, SumsAgree
    <2>6. SumFunctionOnSet(z, S) \in Nat
      BY <1>1, <2>1, SumIsNat
    <2>7. SumFunction(z) = SumFunctionOnSet(z, S)
      BY <2>2, SumsOver
    <2>. QED  BY <2>2, <2>4, <2>5, <2>6, <2>7 DEF T
  <1>4. Paid(o) = SumFunction(v) /\ DOMAIN v = S
    BY DEF Paid
  <1>. HIDE DEF S, v, key, w
  <1>5. SumFunctionOnSet(v, S) = SumFunctionOnSet(w, names)
    <2>. DEFINE of == [p \in names |-> {i \in S : key[i] = p}]
    <2>1. \A p \in names : w[p] = SumFunctionOnSet(v, of[p])
      BY <1>3
    <2>2. \A i \in S : v[i] \in Int
      BY <1>2
    <2>3. IsFiniteSet(S) /\ IsFiniteSet(names) /\ key \in [S -> names]
      BY <1>1, <1>2
    <2>4. \A p \in names : of[p] = {i \in S : key[i] = p}
      OBVIOUS
    <2>. HIDE DEF of
    <2>. QED  BY <2>1, <2>2, <2>3, <2>4, SumByGroup
  <1>6. SumFunctionOnSet(v, S) \in Nat
    BY <1>1, <1>2, SumIsNat
  <1>. QED  BY <1>3, <1>4, <1>5, <1>6, SumsOver DEF w

(* The names on the orders of an account are finitely many.                  *)
NamesOf(os) == UNION {{o.items[i].product : i \in DOMAIN o.items} : o \in os}

LEMMA NamesHeld ==
  ASSUME AccountTypes, NEW k \in Accts
  PROVE  IsFiniteSet(NamesOf(stock[k].orders))
  <1>. DEFINE S == stock[k].orders
              f == [o \in S |-> {o.items[i].product : i \in DOMAIN o.items}]
  <1>1. IsFiniteSet(S)
    BY StockHeld
  <1>2. IsFiniteSet({f[o] : o \in S})
    <2>1. f \in [S -> {f[o] : o \in S}]
      OBVIOUS
    <2>. HIDE DEF f
    <2>. QED  BY <1>1, <2>1, FiniteImage
  <1>3. ASSUME NEW o \in S  PROVE IsFiniteSet(f[o])
    <2>. DEFINE D == DOMAIN o.items
                g == [i \in D |-> o.items[i].product]
    <2>1. IsFiniteSet(D) /\ f[o] = {g[i] : i \in D} /\ g \in [D -> {g[i] : i \in D}]
      BY OrdersHeld
    <2>. HIDE DEF D, g, f
    <2>. QED  BY <2>1, FiniteImage
  <1>4. NamesOf(S) = UNION {f[o] : o \in S}
    <2>1. \A o \in S : f[o] = {o.items[i].product : i \in DOMAIN o.items}
      OBVIOUS
    <2>2. ASSUME NEW x  PROVE x \in NamesOf(S) <=> x \in UNION {f[o] : o \in S}
      <3>1. x \in NamesOf(S) <=> \E o \in S : x \in {o.items[i].product : i \in DOMAIN o.items}
        BY DEF NamesOf
      <3>. HIDE DEF f, S
      <3>. QED  BY <2>1, <3>1
    <2>. HIDE DEF f, S
    <2>. QED  BY <2>2
  <1>. HIDE DEF f, S
  <1>. QED  BY <1>2, <1>3, <1>4, FS_UNION DEF S

(* The portal's breakdown and its card count the same cartons as paid for.   *)
LEMMA BreakdownAddsUp ==
  ASSUME AccountTypes, NEW k \in Accts
  PROVE  /\ projectedBreakdown(k, Always).totalPurchased
                = SumFunction([o \in stock[k].orders |-> Paid(o)])
         /\ SumFunction([o \in stock[k].orders |-> Paid(o)]) \in Nat
  <1>. DEFINE S == stock[k].orders
              names == NamesOf(S)
              paid(p) == SumFunction([o \in S |-> Quantity(o, p)])
              loaded(p) == SumFunction([o \in S |-> SumFunction([i \in DOMAIN o.items |->
                             IF o.items[i].product = p THEN Share(o, i) ELSE 0])])
              row == [p \in names |->
                        [productName |-> p, quantityPaid |-> paid(p), quantityLoaded |-> loaded(p),
                         quantityRemaining |-> Floor(paid(p) - loaded(p))]]
              R == {row[p] : p \in names}
              u == [r \in R |-> r.quantityPaid]
              v == [p \in names |-> paid(p)]
              m == [o \in S |-> [p \in names |-> Quantity(o, p)]]
              w == [o \in S |-> Paid(o)]
  <1>1. {o \in S : Within(o.day, Always)} = S
    BY DEF Within, Always
  <1>2. R = {[productName |-> p, quantityPaid |-> paid(p), quantityLoaded |-> loaded(p),
              quantityRemaining |-> Floor(paid(p) - loaded(p))] : p \in names}
    <2>. HIDE DEF names, paid, loaded, S
    <2>. QED  OBVIOUS
  <1>3. projectedBreakdown(k, Always).totalPurchased = SumFunction(u)
    <2>1. projectedBreakdown(k, Always).totalPurchased
            = LET os == {o \in S : Within(o.day, Always)}
                  all == UNION {{o.items[i].product : i \in DOMAIN o.items} : o \in os}
                  p1(p) == SumFunction([o \in os |-> Quantity(o, p)])
                  l1(p) == SumFunction([o \in os |-> SumFunction([i \in DOMAIN o.items |->
                             IF o.items[i].product = p THEN Share(o, i) ELSE 0])])
                  rows == {[productName |-> p, quantityPaid |-> p1(p), quantityLoaded |-> l1(p),
                            quantityRemaining |-> Floor(p1(p) - l1(p))] : p \in all}
              IN SumFunction([r \in rows |-> r.quantityPaid])
      BY Zenon DEF projectedBreakdown
    <2>2. projectedBreakdown(k, Always).totalPurchased
            = LET all == UNION {{o.items[i].product : i \in DOMAIN o.items} : o \in S}
                  p1(p) == SumFunction([o \in S |-> Quantity(o, p)])
                  l1(p) == SumFunction([o \in S |-> SumFunction([i \in DOMAIN o.items |->
                             IF o.items[i].product = p THEN Share(o, i) ELSE 0])])
                  rows == {[productName |-> p, quantityPaid |-> p1(p), quantityLoaded |-> l1(p),
                            quantityRemaining |-> Floor(p1(p) - l1(p))] : p \in all}
              IN SumFunction([r \in rows |-> r.quantityPaid])
      <3>. HIDE DEF S
      <3>. QED  BY <1>1, <2>1, Zenon
    <2>3. NamesOf(S) = UNION {{o.items[i].product : i \in DOMAIN o.items} : o \in S}
      BY DEF NamesOf
    <2>. QED  BY <1>2, <2>2, <2>3, Zenon
  <1>4. IsFiniteSet(S) /\ IsFiniteSet(names)
    BY StockHeld, NamesHeld
  <1>5. ASSUME NEW o \in S  PROVE \A i \in DOMAIN o.items : o.items[i].product \in names
    BY DEF NamesOf
  <1>. HIDE DEF names
  <1>6. ASSUME NEW o \in S
        PROVE  /\ \A p \in names : m[o][p] \in Int /\ m[o][p] \in Nat /\ m[o][p] = Quantity(o, p)
               /\ w[o] = SumFunctionOnSet(m[o], names) /\ w[o] \in Nat
    <2>1. \A i \in DOMAIN o.items : o.items[i].product \in names
      BY <1>5
    <2>2. /\ Paid(o) = SumFunctionOnSet([p \in names |-> Quantity(o, p)], names) /\ Paid(o) \in Nat
          /\ \A p \in names : Quantity(o, p) \in Nat
      BY <1>4, <2>1, PaidByProduct
    <2>. QED  BY <2>2
  <1>7. ASSUME NEW p \in names
        PROVE  v[p] = SumFunctionOnSet([o \in S |-> m[o][p]], S) /\ v[p] \in Int
    <2>. DEFINE q == [o \in S |-> Quantity(o, p)]
                n == [o \in S |-> m[o][p]]
    <2>1. v[p] = SumFunction(q) /\ DOMAIN q = S
      OBVIOUS
    <2>2. \A o \in S : q[o] \in Int /\ q[o] = n[o]
      BY <1>6
    <2>. HIDE DEF q, n, m, v, S
    <2>3. SumFunctionOnSet(q, S) = SumFunctionOnSet(n, S) /\ SumFunctionOnSet(q, S) \in Int
      BY <1>4, <2>2, SumsAgree, SumIsInt
    <2>. QED  BY <2>1, <2>3, SumsOver DEF n
  <1>8. /\ row \in [names -> R] /\ \A p, q \in names : row[p] = row[q] => p = q
        /\ \A r \in R : \E p \in names : row[p] = r
        /\ \A p \in names : u[row[p]] = v[p]
        /\ DOMAIN u = R /\ DOMAIN w = S
    <2>. HIDE DEF paid, loaded, S
    <2>1. \A p \in names : row[p].productName = p /\ row[p].quantityPaid = paid(p) /\ row[p] \in R
      OBVIOUS
    <2>2. row \in [names -> R]
      OBVIOUS
    <2>3. \A r \in R : u[r] = r.quantityPaid
      OBVIOUS
    <2>4. \A p \in names : v[p] = paid(p)
      OBVIOUS
    <2>5. DOMAIN u = R /\ DOMAIN w = S /\ \A r \in R : \E p \in names : row[p] = r
      OBVIOUS
    <2>. HIDE DEF row, R, u, v, w
    <2>. QED  BY <2>1, <2>2, <2>3, <2>4, <2>5
  <1>. HIDE DEF S, row, R, u, v, m, w
  <1>9. SumFunctionOnSet(v, names) = SumFunctionOnSet(u, R)
    <2>1. \A p \in names : v[p] \in Int
      BY <1>7
    <2>. QED  BY <1>4, <1>8, <2>1, SumReindexed
  <1>10. SumFunctionOnSet(w, S) = SumFunctionOnSet(v, names)
    <2>1. \A o \in S, p \in names : m[o][p] \in Int
      BY <1>6
    <2>2. \A o \in S : w[o] = SumFunctionOnSet(m[o], names)
      BY <1>6
    <2>. DEFINE n == [p \in names |-> [o \in S |-> m[o][p]]]
    <2>3. /\ \A p \in names : v[p] = SumFunctionOnSet(n[p], S)
          /\ \A p \in names, o \in S : n[p][o] = m[o][p]
      BY <1>7
    <2>4. IsFiniteSet(S) /\ IsFiniteSet(names)
      BY <1>4
    <2>. HIDE DEF n
    <2>. QED  BY <2>1, <2>2, <2>3, <2>4, SumOfTable, SMTT(60)
  <1>11. SumFunctionOnSet(w, S) \in Nat
    <2>1. \A o \in S : w[o] \in Nat
      BY <1>6
    <2>. QED  BY <1>4, <2>1, SumIsNat
  <1>12. SumFunction(u) = SumFunctionOnSet(u, R) /\ SumFunction(w) = SumFunctionOnSet(w, S)
    BY <1>8, SumsOver
  <1>. QED  BY <1>3, <1>9, <1>10, <1>11, <1>12 DEF w, S

-----------------------------------------------------------------------------
(* The screens of one account's stock.                                       *)

(* The column shows one of the sums by id: the card's among them, and no     *)
(* other if there is one id.                                                 *)
SumsOf(rows) == <<Ordered1(rows), Delivered(rows), Floor(Ordered1(rows) - Delivered(rows))>>

LEMMA ColumnsOfIds ==
  ASSUME NEW k \in Accts, stockFeed = "answers", OwnLines(k, Always) # {}
  PROVE  /\ \E c \in stockByCustomer(k) : Figures(c) = SumsOf(OwnLines(k, Always))
         /\ OneErpId(k) => \A c \in stockByCustomer(k) :
              Figures(c) = SumsOf(OwnLines(k, Always)) /\ c.totalPurchased = Ordered1(OwnLines(k, Always))
  <1>. DEFINE L == StockLines({k}, Always)
              O == OwnLines(k, Always)
              of(id) == {r \in L : r.line.customer = id}
              column(id) == [totalPurchased |-> Ordered1(of(id)), totalLoaded |-> Delivered(of(id)),
                             totalRemaining |-> Floor(Ordered1(of(id)) - Delivered(of(id))), products |-> {}]
              ids == {r.line.customer : r \in L}
              latest == stock[k].latest
  <1>1. stockByErpId(k) = {column(id) : id \in ids}
    BY Zenon DEF stockByErpId
  <1>2. O = of(latest)
    BY DEF OwnLines
  <1>3. latest \in ids
    BY DEF OwnLines
  <1>4. OneErpId(k) => \A id \in ids : id = latest
    BY DEF OneErpId, OwnLines
  <1>5. \A id : /\ Figures(column(id)) = SumsOf(of(id))
                /\ column(id).totalPurchased = Ordered1(of(id))
    BY DEF Figures, SumsOf
  <1>. HIDE DEF column, of, ids, O, latest
  <1>6. stockByCustomer(k) = {column(id) : id \in ids}
    <2>1. stockByErpId(k) # {}
      BY <1>1, <1>3
    <2>. QED  BY <1>1, <2>1 DEF stockByCustomer
  <1>7. \E c \in stockByCustomer(k) : Figures(c) = SumsOf(O)
    <2>1. column(latest) \in stockByCustomer(k)
      BY <1>3, <1>6
    <2>. QED  BY <1>2, <1>5, <2>1
  <1>8. OneErpId(k) => \A c \in stockByCustomer(k) :
          Figures(c) = SumsOf(O) /\ c.totalPurchased = Ordered1(O)
    <2>. SUFFICES ASSUME OneErpId(k), NEW id \in ids
                  PROVE  /\ Figures(column(id)) = SumsOf(O)
                         /\ column(id).totalPurchased = Ordered1(O)
      BY <1>6
    <2>. QED  BY <1>2, <1>4, <1>5
  <1>. QED  BY <1>7, <1>8 DEF O

LEMMA StockScreensAgree == AccountTypes => StockAgrees
  <1>. SUFFICES ASSUME AccountTypes, NEW k \in Accts
                PROVE  LET card == HomeCard(k)  whole == getStockBalanceBreakdown(k, Always)
                           columns == stockByCustomer(k) IN
                       /\ card.totalPurchased = whole.totalPurchased
                       /\ getStockBalance(k, Always) # None =>
                            Figures(card) = Figures(whole) /\ \E c \in columns : Figures(c) = Figures(card)
                       /\ OneErpId(k) => \A c \in columns :
                            /\ c.totalPurchased = card.totalPurchased
                            /\ getStockBalance(k, Always) # None => Figures(c) = Figures(card)
                       /\ stockFeed = "answers" => listForCustomer(k) = {} \/ listForCustomer(k) = whole.products
                       /\ stockFeed = "answers" => \A w \in DayWindows :
                            getStockBalanceBreakdown(k, w).totalPurchased <= whole.totalPurchased
    BY Zenon DEF StockAgrees
  <1>. DEFINE L == OwnLines(k, Always)
              card == HomeCard(k)
              whole == getStockBalanceBreakdown(k, Always)
              columns == stockByCustomer(k)
  <1>1. CASE stockFeed = "answers" /\ L # {}
    <2>. DEFINE all == shape(L)
    <2>0. Countable(L)
      BY LinesCountable
    <2>1. /\ all \in StockBalance /\ all # None
          /\ all.totalPurchased = Ordered1(L) /\ all.totalLoaded = Delivered(L)
          /\ all.totalRemaining = Floor(Ordered1(L) - Delivered(L))
          /\ Ordered1(L) \in Nat /\ Delivered(L) \in Nat
      BY <2>0, ShapeIsBalance
    <2>2. getStockBalance(k, Always) = all
      BY <1>1 DEF getStockBalance, Derived
    <2>. HIDE DEF all
    <2>3. card = all /\ whole = Uncollected(all)
      BY <2>1, <2>2 DEF HomeCard, getStockBalanceBreakdown, Or
    <2>4. /\ Uncollected(all).totalPurchased = all.totalPurchased
          /\ Uncollected(all).totalLoaded = all.totalLoaded
          /\ Uncollected(all).totalRemaining = all.totalRemaining
      BY <2>1 DEF Uncollected, StockBalance
    <2>5. /\ \E c \in columns : Figures(c) = SumsOf(L)
          /\ OneErpId(k) => \A c \in columns : Figures(c) = SumsOf(L) /\ c.totalPurchased = Ordered1(L)
      BY <1>1, ColumnsOfIds
    <2>6. listForCustomer(k) = whole.products
      BY <2>1, <2>2, <2>3 DEF listForCustomer
    <2>7. ASSUME NEW w \in DayWindows
          PROVE  getStockBalanceBreakdown(k, w).totalPurchased <= whole.totalPurchased
      <3>. DEFINE W == OwnLines(k, w)
      <3>0. Countable(W)
        BY LinesCountable
      <3>1. W \subseteq L
        BY DEF OwnLines, StockLines, Within, Always
      <3>2. CASE W = {}
        <4>1. w # Always
          BY <1>1, <3>2
        <4>2. getStockBalance(k, w) = None
          BY <3>2 DEF getStockBalance, Derived
        <4>3. getStockBalanceBreakdown(k, w) = Uncollected(Nothing)
          BY <1>1, <4>1, <4>2 DEF getStockBalanceBreakdown, Or
        <4>4. Uncollected(Nothing).totalPurchased = 0
          BY DEF Uncollected, Nothing
        <4>. QED  BY <2>1, <2>3, <2>4, <4>3, <4>4
      <3>3. CASE W # {}
        <4>1. /\ shape(W) \in StockBalance /\ shape(W) # None
              /\ shape(W).totalPurchased = Ordered1(W)
          BY <3>0, ShapeIsBalance
        <4>2. getStockBalance(k, w) = shape(W)
          BY <1>1, <3>3 DEF getStockBalance, Derived
        <4>3. getStockBalanceBreakdown(k, w) = Uncollected(shape(W))
          BY <4>1, <4>2 DEF getStockBalanceBreakdown, Or
        <4>4. Uncollected(shape(W)).totalPurchased = shape(W).totalPurchased
          BY <4>1 DEF Uncollected, StockBalance
        <4>5. Ordered1(W) <= Ordered1(L)
          <5>. DEFINE v == [r \in L |-> r.line.ordered]
                      u == [r \in W |-> r.line.ordered]
          <5>1. IsFiniteSet(L) /\ \A r \in L : r.line.ordered \in Nat
            BY <2>0 DEF Countable
          <5>2. /\ Ordered1(L) = SumFunction(v) /\ DOMAIN v = L
                /\ Ordered1(W) = SumFunction(u) /\ DOMAIN u = W
            BY DEF Ordered1
          <5>3. /\ \A r \in L : v[r] \in Nat
                /\ \A r \in W : u[r] \in Int /\ u[r] = v[r]
            <6>. HIDE DEF L, W
            <6>. QED  BY <3>1, <5>1
          <5>4. IsFiniteSet(W)
            BY <3>1, <5>1, FS_Subset
          <5>. HIDE DEF v, u, L, W
          <5>5. SumFunctionOnSet(u, W) = SumFunctionOnSet(v, W)
            BY <5>3, <5>4, SumsAgree
          <5>6. SumFunctionOnSet(v, W) <= SumFunctionOnSet(v, L)
            BY <3>1, <5>1, <5>3, SumOfSome
          <5>. QED  BY <5>2, <5>5, <5>6, SumsOver
        <4>. QED  BY <2>1, <2>3, <2>4, <4>1, <4>3, <4>4, <4>5
      <3>. QED  BY <3>2, <3>3
    <2>. HIDE DEF card, whole, columns
    <2>8. /\ card.totalPurchased = whole.totalPurchased /\ card.totalPurchased = Ordered1(L)
          /\ Figures(card) = Figures(whole) /\ Figures(card) = SumsOf(L)
      BY <2>1, <2>3, <2>4 DEF Figures, SumsOf
    <2>. QED  BY <2>5, <2>6, <2>7, <2>8 DEF card, whole, columns
  <1>2. CASE ~(stockFeed = "answers" /\ L # {})
    <2>1. getStockBalance(k, Always) = None
      BY <1>2 DEF getStockBalance, Derived
    <2>. DEFINE w == [o \in stock[k].orders |-> Paid(o)]
                broken == projectedBreakdown(k, Always)
    <2>2. broken.totalPurchased = SumFunction(w) /\ SumFunction(w) \in Nat
      BY BreakdownAddsUp
    <2>3. card = projectedCard(k) /\ whole = Uncollected(broken)
      BY <1>2, <2>1 DEF HomeCard, getStockBalanceBreakdown, Or
    <2>4. projectedCard(k).totalPurchased = SumFunction(w) /\ projectedColumn(k).totalPurchased = SumFunction(w)
      BY DEF projectedCard, projectedColumn
    <2>5. Uncollected(broken).totalPurchased = broken.totalPurchased
      BY Zenon DEF Uncollected, projectedBreakdown
    <2>6. listForCustomer(k) = {}
      BY <2>1 DEF listForCustomer
    <2>7. ASSUME stockFeed = "answers", NEW x \in DayWindows
          PROVE  getStockBalanceBreakdown(k, x).totalPurchased <= whole.totalPurchased
      <3>1. CASE x = Always
        BY <2>2, <2>3, <2>5, <3>1
      <3>2. CASE x # Always
        <4>1. OwnLines(k, x) \subseteq L
          BY DEF OwnLines, StockLines, Within, Always
        <4>2. getStockBalance(k, x) = None
          BY <1>2, <2>7, <4>1 DEF getStockBalance, Derived
        <4>3. getStockBalanceBreakdown(k, x) = Uncollected(Nothing)
          BY <2>7, <3>2, <4>2 DEF getStockBalanceBreakdown, Or
        <4>4. Uncollected(Nothing).totalPurchased = 0
          BY DEF Uncollected, Nothing
        <4>. QED  BY <2>2, <2>3, <2>5, <4>3, <4>4
      <3>. QED  BY <3>1, <3>2
    <2>8. OneErpId(k) => columns = {projectedColumn(k)}
      <3>1. CASE stockFeed # "answers"
        BY <3>1 DEF stockByCustomer
      <3>2. CASE L = {}
        <4>1. OneErpId(k) => stockByErpId(k) = {}
          BY <3>2 DEF OneErpId, stockByErpId
        <4>. QED  BY <4>1 DEF stockByCustomer
      <3>. QED  BY <1>2, <3>1, <3>2
    <2>. HIDE DEF card, whole, columns, w, broken
    <2>9. card.totalPurchased = whole.totalPurchased /\ projectedColumn(k).totalPurchased = card.totalPurchased
      BY <2>2, <2>3, <2>4, <2>5
    <2>. QED  BY <2>1, <2>6, <2>7, <2>8, <2>9 DEF card, whole, columns
  <1>. QED  BY <1>1, <1>2
-----------------------------------------------------------------------------
(* The lines of one order.                                                   *)

SameLine(ls, r) == {i \in DOMAIN ls : LineKey(ls[i]) = r.key}

(* A merged row stands for the lines of its key, and there are some.         *)
LEMMA MergedRow ==
  ASSUME NEW ls, NEW r \in mergeLinesByProduct(ls)
  PROVE  LET same == SameLine(ls, r)
             money == {i \in same : ls[i].total # None}
         IN /\ \E i \in DOMAIN ls : i \in same
            /\ r.quantity = SumFunction([i \in same |-> ls[i].quantity])
            /\ r.amount = IF money = {} THEN None ELSE SumFunction([i \in money |-> ls[i].total])
  <1>1. PICK i \in DOMAIN ls :
          r = LET same  == {j \in DOMAIN ls : LineKey(ls[j]) = LineKey(ls[i])}
                  money == {j \in same : ls[j].total # None}
              IN [key |-> LineKey(ls[i]),
                  quantity |-> SumFunction([j \in same |-> ls[j].quantity]),
                  amount |-> IF money = {} THEN None ELSE SumFunction([j \in money |-> ls[j].total]),
                  prices |-> {ls[j].price : j \in same}]
    BY DEF mergeLinesByProduct
  <1>2. r.key = LineKey(ls[i])
    BY <1>1
  <1>3. SameLine(ls, r) = {j \in DOMAIN ls : LineKey(ls[j]) = LineKey(ls[i])} /\ i \in SameLine(ls, r)
    BY <1>2 DEF SameLine
  <1>. QED  BY <1>1, <1>3

(* Nor are there two of one key, or a line of none.                          *)
LEMMA MergedRows ==
  ASSUME NEW ls, IsFiniteSet(DOMAIN ls)
  PROVE  /\ \A r, s \in mergeLinesByProduct(ls) : r.key = s.key => r = s
         /\ \A i \in DOMAIN ls : \E r \in mergeLinesByProduct(ls) : r.key = LineKey(ls[i])
         /\ IsFiniteSet(mergeLinesByProduct(ls))
  <1>. DEFINE D == DOMAIN ls
              row(key) ==
                LET same  == {i \in D : LineKey(ls[i]) = key}
                    money == {i \in same : ls[i].total # None}
                IN [key |-> key,
                    quantity |-> SumFunction([i \in same |-> ls[i].quantity]),
                    amount |-> IF money = {} THEN None ELSE SumFunction([i \in money |-> ls[i].total]),
                    prices |-> {ls[i].price : i \in same}]
              at == [i \in D |-> row(LineKey(ls[i]))]
  <1>1. mergeLinesByProduct(ls) = {row(key) : key \in {LineKey(ls[i]) : i \in D}}
    BY Zenon DEF mergeLinesByProduct
  <1>2. \A key : row(key).key = key
    OBVIOUS
  <1>. HIDE DEF row, D
  <1>3. \A i \in D : at[i] = row(LineKey(ls[i])) /\ at[i] \in mergeLinesByProduct(ls)
    BY <1>1
  <1>4. mergeLinesByProduct(ls) = {at[i] : i \in D}
    BY <1>1
  <1>5. \A r \in mergeLinesByProduct(ls) : r = row(r.key)
    BY <1>1, <1>2
  <1>6. at \in [D -> mergeLinesByProduct(ls)]
    BY <1>3
  <1>. HIDE DEF at
  <1>7. IsFiniteSet(D)
    BY DEF D
  <1>8. IsFiniteSet({at[i] : i \in D})
    BY <1>4, <1>6, <1>7, FiniteImage
  <1>9. \A i \in D : at[i] \in mergeLinesByProduct(ls) /\ at[i].key = LineKey(ls[i])
    BY <1>2, <1>3
  <1>. QED  BY <1>4, <1>5, <1>8, <1>9 DEF D

(* What the rows add up over their lines is what the lines add up to.        *)
LEMMA MergedAddsUp ==
  ASSUME NEW ls, IsFiniteSet(DOMAIN ls), NEW v, \A i \in DOMAIN ls : v[i] \in Int,
         NEW u, \A r \in mergeLinesByProduct(ls) : u[r] = SumFunctionOnSet(v, SameLine(ls, r))
  PROVE  SumFunctionOnSet(v, DOMAIN ls) = SumFunctionOnSet(u, mergeLinesByProduct(ls))
  <1>. DEFINE D == DOMAIN ls
              R == mergeLinesByProduct(ls)
              key == [i \in D |-> CHOOSE r \in R : r.key = LineKey(ls[i])]
              of == [r \in R |-> SameLine(ls, r)]
  <1>1. /\ IsFiniteSet(R) /\ \A r, s \in R : r.key = s.key => r = s
        /\ \A i \in D : \E r \in R : r.key = LineKey(ls[i])
    BY MergedRows
  <1>. HIDE DEF R
  <1>2. \A i \in D : key[i] \in R /\ key[i].key = LineKey(ls[i])
    BY <1>1
  <1>3. key \in [D -> R]
    BY <1>2
  <1>4. \A r \in R : of[r] = SameLine(ls, r)
    OBVIOUS
  <1>. HIDE DEF key, of
  <1>5. \A r \in R : of[r] = {i \in D : key[i] = r}
    BY <1>1, <1>2, <1>4 DEF SameLine
  <1>6. \A r \in R : u[r] = SumFunctionOnSet(v, of[r])
    BY <1>4 DEF R
  <1>7. IsFiniteSet(D) /\ \A i \in D : v[i] \in Int
    OBVIOUS
  <1>. HIDE DEF D
  <1>8. SumFunctionOnSet(v, D) = SumFunctionOnSet(u, R)
    BY <1>1, <1>3, <1>5, <1>6, <1>7, SumByGroup
  <1>. QED  BY <1>8 DEF D, R

(* Merging the lines of an order loses neither cartons nor money.            *)
LEMMA OrdersAddUp == AccountTypes => OrderAddsUp
  <1>. SUFFICES ASSUME AccountTypes, NEW k \in Accts, NEW o \in stock[k].orders
                PROVE  LET ls == LinesOf(o)  rows == mergeLinesByProduct(ls)
                           priced == {r \in rows : r.amount # None}
                       IN /\ SumFunction([r \in rows |-> r.quantity])
                               = SumFunction([i \in DOMAIN ls |-> ls[i].quantity])
                          /\ o.items # <<>> => SumFunction([r \in priced |-> r.amount]) = subtotal(o)
    BY Zenon DEF OrderAddsUp
  <1>. DEFINE ls == LinesOf(o)
              D == DOMAIN ls
              R == mergeLinesByProduct(ls)
  <1>1. ls \in Seq(ItemOf(Int \cup {None})) /\ (o.items # <<>> => ls = o.items /\ ls \in Seq(ItemOf(Int)))
    <2>1. ItemOf(Int) \subseteq ItemOf(Int \cup {None})
      BY DEF ItemOf
    <2>. DEFINE A == ItemOf(Int)
                B == ItemOf(Int \cup {None})
    <2>2. Seq(A) \subseteq Seq(B)
      <3>1. A \subseteq B
        BY <2>1
      <3>. HIDE DEF A, B
      <3>2. ASSUME NEW s \in Seq(A)  PROVE s \in Seq(B)
        <4>1. s \in [1..Len(s) -> A] /\ Len(s) \in Nat
          OBVIOUS
        <4>2. s \in [1..Len(s) -> B]
          BY <3>1, <4>1
        <4>. QED  BY <4>1, <4>2
      <3>. QED  BY <3>2
    <2>3. <<>> \in Seq(ItemOf(Int \cup {None}))
      OBVIOUS
    <2>. QED  BY <2>2, <2>3, OrdersHeld DEF LinesOf
  <1>. HIDE DEF ls
  <1>2. D = 1..Len(ls) /\ Len(ls) \in Nat /\ \A i \in D : ls[i] \in ItemOf(Int \cup {None})
    BY <1>1
  <1>3. IsFiniteSet(D) /\ \A i \in D : ls[i].quantity \in Int
    BY <1>2, FS_Interval DEF ItemOf
  <1>4. SumFunction([r \in R |-> r.quantity]) = SumFunction([i \in D |-> ls[i].quantity])
    <2>. DEFINE v == [i \in D |-> ls[i].quantity]
                u == [r \in R |-> r.quantity]
    <2>1. ASSUME NEW r \in R  PROVE u[r] = SumFunctionOnSet(v, SameLine(ls, r))
      <3>. DEFINE T == SameLine(ls, r)
                  t == [i \in T |-> ls[i].quantity]
      <3>1. u[r] = SumFunction(t) /\ DOMAIN t = T
        BY MergedRow
      <3>2. T \subseteq D
        BY DEF SameLine
      <3>. HIDE DEF T
      <3>3. \A i \in T : t[i] \in Int /\ t[i] = v[i]
        BY <1>3, <3>2
      <3>4. IsFiniteSet(T)
        BY <1>3, <3>2, FS_Subset
      <3>. HIDE DEF t, u, v, D, R
      <3>5. SumFunctionOnSet(t, T) = SumFunctionOnSet(v, T)
        BY <3>3, <3>4, SumsAgree
      <3>. QED  BY <3>1, <3>5, SumsOver DEF T
    <2>2. DOMAIN v = D /\ DOMAIN u = R /\ \A i \in D : v[i] \in Int
      BY <1>3
    <2>. HIDE DEF u, v
    <2>3. SumFunctionOnSet(v, D) = SumFunctionOnSet(u, R)
      BY <1>3, <2>1, <2>2, MergedAddsUp
    <2>. QED  BY <2>2, <2>3, SumsOver DEF u, v
  <1>5. ASSUME o.items # <<>>
        PROVE  SumFunction([r \in {s \in R : s.amount # None} |-> r.amount]) = subtotal(o)
    <2>. DEFINE v == [i \in D |-> ls[i].total]
                u == [r \in R |-> r.amount]
    <2>1. ls = o.items /\ \A i \in D : ls[i].total \in Int /\ ls[i].total # None
      <3>1. \A i \in D : ls[i] \in ItemOf(Int)
        BY <1>1, <1>2, <1>5
      <3>. QED  BY <1>1, <1>5, <3>1, StockAssumption DEF ItemOf
    <2>2. \A i \in D : v[i] \in Int
      BY <2>1
    <2>3. ASSUME NEW r \in R
          PROVE  u[r] = SumFunctionOnSet(v, SameLine(ls, r)) /\ u[r] \in Int /\ r.amount # None
      <3>. DEFINE T == SameLine(ls, r)
                  t == [i \in T |-> ls[i].total]
      <3>1. T \subseteq D /\ \E i \in D : i \in T
        BY MergedRow DEF SameLine
      <3>2. {i \in T : ls[i].total # None} = T
        BY <2>1, <3>1
      <3>3. r.amount = SumFunction(t) /\ DOMAIN t = T /\ u[r] = r.amount
        <4>1. r.amount = LET money == {i \in SameLine(ls, r) : ls[i].total # None}
                         IN IF money = {} THEN None ELSE SumFunction([i \in money |-> ls[i].total])
          BY MergedRow
        <4>. HIDE DEF D, R
        <4>. QED  BY <3>1, <3>2, <4>1
      <3>. HIDE DEF T
      <3>4. \A i \in T : t[i] \in Int /\ t[i] = v[i]
        BY <2>1, <3>1
      <3>5. IsFiniteSet(T)
        BY <1>3, <3>1, FS_Subset
      <3>. HIDE DEF t, u, v, D, R
      <3>6. SumFunctionOnSet(t, T) = SumFunctionOnSet(v, T) /\ SumFunctionOnSet(t, T) \in Int
        BY <3>4, <3>5, SumsAgree, SumIsInt
      <3>7. r.amount \in Int /\ u[r] = r.amount /\ u[r] = SumFunctionOnSet(v, T)
        BY <3>3, <3>6, SumsOver
      <3>. QED  BY <3>7, StockAssumption DEF T
    <2>4. {s \in R : s.amount # None} = R
      BY <2>3
    <2>5. DOMAIN v = D /\ DOMAIN u = R
      OBVIOUS
    <2>6. subtotal(o) = SumFunction(v)
      BY <1>5, <2>1 DEF subtotal
    <2>. HIDE DEF v
    <2>7. \A r \in R : u[r] = SumFunctionOnSet(v, SameLine(ls, r))
      BY <2>3
    <2>8. SumFunction([r \in {s \in R : s.amount # None} |-> r.amount]) = SumFunction(u)
      BY <2>4
    <2>. HIDE DEF u
    <2>9. SumFunctionOnSet(v, D) = SumFunctionOnSet(u, R)
      BY <1>3, <2>2, <2>7, MergedAddsUp
    <2>. QED  BY <2>5, <2>6, <2>8, <2>9, SumsOver
  <1>. QED  BY <1>4, <1>5 DEF ls
-----------------------------------------------------------------------------
(* Accounts, and the screens that gather them.                               *)

(* The credit records of a code: at most one is the newest.                  *)
LEMMA CreditsHeld ==
  ASSUME AccountTypes, NEW k \in Accts
  PROVE  /\ accounts[k].credits \subseteq CreditRecord /\ IsFiniteSet(accounts[k].credits)
         /\ \A c, d \in Newest(k) : c = d
         /\ Newest(k) \subseteq accounts[k].credits
         /\ Granted(k) \in Int /\ resolveBalance(k) \in Int
  <1>1. accounts[k] \in AccountStates /\ accounts[k] \in AccountType
    BY DEF AccountTypes
  <1>2. /\ accounts[k].credits \subseteq CreditRecord /\ accounts[k].stored \in Int
        /\ \A c \in accounts[k].credits : c.id \in Nat /\ c.day \in Nat /\ c.base \in Int /\ c.grant \in Int
    BY <1>1 DEF AccountType, CreditRecord
  <1>3. IsFiniteSet(accounts[k].credits) /\ \A c, d \in accounts[k].credits : c.id = d.id => c = d
    BY <1>1, AccountAssumption
  <1>4. Newest(k) \subseteq accounts[k].credits
    BY DEF Newest
  <1>5. \A c, d \in Newest(k) : c = d
    <2>. SUFFICES ASSUME NEW c \in Newest(k), NEW d \in Newest(k)  PROVE c = d
      OBVIOUS
    <2>1. c \in accounts[k].credits /\ d \in accounts[k].credits /\ ~Later(c, d) /\ ~Later(d, c)
      BY DEF Newest
    <2>2. c.id = d.id
      BY <1>2, <2>1 DEF Later
    <2>. QED  BY <1>3, <2>1, <2>2
  <1>6. Granted(k) \in Int
    <2>. DEFINE S == {d \in accounts[k].credits : d.inForce}
                v == [c \in S |-> c.grant]
    <2>1. IsFiniteSet(S) /\ \A c \in S : v[c] \in Int
      BY <1>2, <1>3, FS_Subset
    <2>2. Granted(k) = SumFunction(v) /\ DOMAIN v = S
      BY DEF Granted
    <2>. HIDE DEF S, v
    <2>. QED  BY <2>1, <2>2, SumIsInt, SumsOver
  <1>7. resolveBalance(k) \in Int
    <2>1. CASE ~creditFeed \/ Newest(k) = {}
      BY <1>2, <2>1 DEF resolveBalance, getRunningBalance, Or
    <2>2. CASE ~(~creditFeed \/ Newest(k) = {})
      <3>. DEFINE first == CHOOSE c \in Newest(k) : TRUE
      <3>1. first \in Newest(k)
        BY <2>2
      <3>2. getRunningBalance(k) = first.base + Granted(k)
        BY <2>2 DEF getRunningBalance
      <3>. HIDE DEF first
      <3>3. first.base + Granted(k) \in Int
        BY <1>2, <1>4, <1>6, <3>1
      <3>. QED  BY <3>2, <3>3, StockAssumption DEF resolveBalance, Or
    <2>. QED  BY <2>1, <2>2
  <1>. QED  BY <1>2, <1>3, <1>4, <1>5, <1>6, <1>7

(* Asked for together, each code is answered what it is answered alone.      *)
LEMMA BatchIsSingle ==
  ASSUME AccountTypes, NEW ks \in SUBSET Accts, NEW k \in ks
  PROVE  balanceByErpId(ks)[k] = resolveBalance(k)
  <1>. DEFINE C == CreditsOf(ks)
              G == Governing(ks)
              N == Newest(k)
              own == accounts[k].credits
              row(c) == [of |-> k, row |-> c]
  <1>0. k \in Accts
    OBVIOUS
  <1>1. ASSUME NEW r \in C  PROVE r.of = k => r = row(r.row) /\ r.row \in own
    <2>1. PICK j \in ks : \E c \in accounts[j].credits : r = [of |-> j, row |-> c]
      BY DEF CreditsOf
    <2>. QED  BY <2>1
  <1>2. \A c \in own : row(c) \in C
    BY DEF CreditsOf
  <1>3. \A c : row(c).of = k /\ row(c).row = c
    OBVIOUS
  <1>4. G = {r \in C : \A s \in C : s.of = r.of => ~Later(s.row, r.row)}
    BY DEF Governing
  <1>5. N = {c \in own : \A d \in own : ~Later(d, c)}
    BY DEF Newest
  <1>. HIDE DEF C, G, N, own, row
  <1>6. \A c \in N : row(c) \in G
    <2>. SUFFICES ASSUME NEW c \in N, NEW s \in C, s.of = k  PROVE ~Later(s.row, c)
      BY <1>2, <1>3, <1>4, <1>5
    <2>. QED  BY <1>1, <1>5
  <1>7. \A r \in G : r.of = k => r = row(r.row) /\ r.row \in N
    <2>. SUFFICES ASSUME NEW r \in G, r.of = k  PROVE r = row(r.row) /\ r.row \in N
      OBVIOUS
    <2>1. r = row(r.row) /\ r.row \in own
      BY <1>1, <1>4
    <2>2. \A d \in own : ~Later(d, r.row)
      BY <1>2, <1>3, <1>4
    <2>. QED  BY <1>5, <2>1, <2>2
  <1>8. k \in {r.of : r \in G} <=> N # {}
    BY <1>3, <1>6, <1>7
  <1>9. Supplementary(ks, k) = Granted(k)
    <2>. DEFINE S == {d \in own : d.inForce}
                T == {s \in C : s.of = k /\ s.row.inForce}
                v == [c \in S |-> c.grant]
                u == [r \in T |-> r.row.grant]
                f == [c \in S |-> row(c)]
    <2>1. IsFiniteSet(S) /\ \A c \in S : v[c] \in Int
      <3>1. own \subseteq CreditRecord /\ IsFiniteSet(own)
        BY <1>0, CreditsHeld DEF own
      <3>. QED  BY <3>1, FS_Subset DEF CreditRecord
    <2>2. f \in [S -> T] /\ \A c \in S : f[c] = row(c) /\ f[c] \in T
      BY <1>2, <1>3
    <2>3. \A c, d \in S : f[c] = f[d] => c = d
      BY <1>3, <2>2
    <2>4. \A t \in T : \E c \in S : f[c] = t
      BY <1>1
    <2>5. \A c \in S : u[f[c]] = v[c]
      BY <1>3, <2>2
    <2>6. Granted(k) = SumFunction(v) /\ DOMAIN v = S
      BY DEF Granted, own
    <2>7. Supplementary(ks, k) = SumFunction(u) /\ DOMAIN u = T
      BY DEF Supplementary, C
    <2>. HIDE DEF S, T, v, u, f
    <2>8. SumFunctionOnSet(v, S) = SumFunctionOnSet(u, T)
      BY <2>1, <2>2, <2>3, <2>4, <2>5, SumReindexed
    <2>. QED  BY <2>6, <2>7, <2>8, SumsOver
  <1>. DEFINE derived == getRunningBalances(ks)
              D == IF creditFeed THEN {r.of : r \in G} ELSE {}
  <1>10. /\ DOMAIN derived = D
         /\ k \in D => derived[k] = (CHOOSE r \in G : r.of = k).row.base + Supplementary(ks, k)
    BY DEF getRunningBalances, G
  <1>11. balanceByErpId(ks)[k] = IF k \in DOMAIN derived THEN derived[k] ELSE accounts[k].stored
    BY DEF balanceByErpId
  <1>. HIDE DEF derived
  <1>12. CASE k \in D
    <2>. DEFINE g == CHOOSE r \in G : r.of = k
                c == CHOOSE x \in N : TRUE
    <2>1. creditFeed /\ N # {}
      BY <1>8, <1>12
    <2>2. c \in N
      BY <2>1
    <2>3. g \in G /\ g.of = k
      <3>1. \E r \in G : r.of = k
        BY <1>12
      <3>. QED  BY <3>1
    <2>4. getRunningBalance(k) = c.base + Granted(k)
      BY <2>1 DEF getRunningBalance, N
    <2>5. derived[k] = g.row.base + Granted(k)
      BY <1>9, <1>10, <1>12
    <2>. HIDE DEF g, c
    <2>6. g.row \in N
      BY <1>7, <2>3
    <2>7. g.row = c
      BY <1>0, <2>2, <2>6, CreditsHeld DEF N
    <2>8. c.base + Granted(k) # None
      <3>1. own \subseteq CreditRecord /\ Granted(k) \in Int
        BY <1>0, CreditsHeld DEF own
      <3>2. c.base \in Int
        BY <1>5, <2>2, <3>1 DEF CreditRecord
      <3>3. c.base + Granted(k) \in Int
        BY <3>1, <3>2
      <3>. QED  BY <3>3, StockAssumption
    <2>. QED  BY <1>10, <1>11, <1>12, <2>4, <2>5, <2>7, <2>8 DEF resolveBalance, Or
  <1>13. CASE k \notin D
    <2>1. ~creditFeed \/ N = {}
      BY <1>8, <1>13
    <2>2. getRunningBalance(k) = None
      BY <2>1 DEF getRunningBalance, N
    <2>. QED  BY <1>10, <1>11, <1>13, <2>2 DEF resolveBalance, Or
  <1>. QED  BY <1>12, <1>13

LEMMA AccountHeld ==
  ASSUME AccountTypes, NEW k \in Accts
  PROVE  /\ accounts[k] \in AccountType /\ accounts[k].region \in Regions
         /\ OpenTickets(k) \subseteq accounts[k].tickets /\ IsFiniteSet(OpenTickets(k))
         /\ Cardinality(OpenTickets(k)) \in Nat /\ (OpenTickets(k) = {} => Cardinality(OpenTickets(k)) = 0)
         /\ Cardinality(UNREAD_FROM_CUSTOMER(k)) \in Nat
         /\ (UNREAD_FROM_CUSTOMER(k) = {} => Cardinality(UNREAD_FROM_CUSTOMER(k)) = 0)
         /\ UNREAD_FROM_CUSTOMER(k) \subseteq accounts[k].messages /\ IsFiniteSet(accounts[k].messages)
         /\ \A t, u \in accounts[k].tickets : t.id = u.id => t = u
  <1>1. accounts[k] \in AccountStates /\ accounts[k] \in AccountType
    BY DEF AccountTypes
  <1>2. /\ IsFiniteSet(accounts[k].tickets) /\ IsFiniteSet(accounts[k].messages)
        /\ \A t, u \in accounts[k].tickets : t.id = u.id => t = u
    BY <1>1, AccountAssumption
  <1>3. OpenTickets(k) \subseteq accounts[k].tickets /\ UNREAD_FROM_CUSTOMER(k) \subseteq accounts[k].messages
    BY DEF OpenTickets, UNREAD_FROM_CUSTOMER
  <1>4. IsFiniteSet(OpenTickets(k)) /\ IsFiniteSet(UNREAD_FROM_CUSTOMER(k))
    BY <1>2, <1>3, FS_Subset
  <1>5. /\ Cardinality(OpenTickets(k)) \in Nat /\ (OpenTickets(k) = {} => Cardinality(OpenTickets(k)) = 0)
        /\ Cardinality(UNREAD_FROM_CUSTOMER(k)) \in Nat
        /\ (UNREAD_FROM_CUSTOMER(k) = {} => Cardinality(UNREAD_FROM_CUSTOMER(k)) = 0)
    BY <1>4, FS_CardinalityType, FS_EmptySet
  <1>6. accounts[k].region \in Regions
    BY <1>1 DEF AccountType
  <1>. QED  BY <1>1, <1>2, <1>3, <1>4, <1>5, <1>6

(* The latest of some messages has a time.                                   *)
LEMMA LastHeld ==
  ASSUME AccountTypes, NEW k \in Accts, accounts[k].messages # {}
  PROVE  lastMessage(accounts[k].messages) \in Nat
  <1>. DEFINE ms == accounts[k].messages
              f == [m \in ms |-> m.at]
              T == {f[m] : m \in ms}
              R == {p \in Nat \X Nat : p[1] <= p[2]}
  <1>1. IsFiniteSet(ms) /\ \A m \in ms : m.at \in Nat
    <2>1. accounts[k] \in AccountType
      BY AccountHeld
    <2>2. \A m \in ms : m \in [at : Nat, staff : AccountOfficers, fromCustomer : BOOLEAN, read : BOOLEAN]
      BY <2>1 DEF AccountType
    <2>. QED  BY <2>2, AccountHeld
  <1>2. /\ f \in [ms -> T] /\ T \subseteq Nat /\ T # {} /\ {m.at : m \in ms} = T
    BY <1>1
  <1>. HIDE DEF f, ms
  <1>3. IsFiniteSet(T)
    BY <1>1, <1>2, FiniteImage
  <1>. HIDE DEF T
  <1>4. \E x \in T : \A y \in T : <<y, x>> \in R
    <2>1. \A x, y \in T : <<x, y>> \in R \/ <<y, x>> \in R
      BY <1>2
    <2>2. \A x, y, z \in T : <<x, y>> \in R /\ <<y, z>> \in R => <<x, z>> \in R
      BY <1>2
    <2>. HIDE DEF R
    <2>. QED  BY <1>2, <1>3, <2>1, <2>2, GreatestElement
  <1>5. \E x \in T : \A y \in T : x >= y
    BY <1>2, <1>4
  <1>6. Max(T) \in T
    BY <1>5 DEF Max
  <1>7. lastMessage(ms) = Max(T)
    BY <1>2, Zenon DEF lastMessage, ms
  <1>. QED  BY <1>2, <1>6, <1>7 DEF ms

(* A list left with those that have some adds up to the same.                *)
LEMMA OnlyThoseWithSome ==
  ASSUME NEW S, IsFiniteSet(S), NEW T, T \in SUBSET S,
         NEW v, DOMAIN v = S, \A i \in S : v[i] \in Int, \A i \in S \ T : v[i] = 0,
         NEW u, DOMAIN u = T, \A i \in T : u[i] = v[i]
  PROVE  SumFunction(v) = SumFunction(u)
  <1>1. SumFunctionOnSet(v, T) = SumFunctionOnSet(v, S)
    BY SumWithoutZeros
  <1>2. IsFiniteSet(T) /\ \A i \in T : u[i] \in Int /\ u[i] = v[i]
    BY FS_Subset
  <1>3. SumFunctionOnSet(u, T) = SumFunctionOnSet(v, T)
    BY <1>2, SumsAgree
  <1>. QED  BY <1>1, <1>3, SumsOver

(* The conversations of an officer: each account with a message, once.       *)
LEMMA ChatsListed ==
  ASSUME AccountTypes, NEW o \in AccountOfficers
  PROVE  LET talked == {k \in portfolioOf(o) : accounts[k].messages # {}}
         IN IsFiniteSet(talked) /\ Chats(o) \in SetToSeqs(talked)
  <1>. DEFINE T == {k \in portfolioOf(o) : accounts[k].messages # {}}
              last == [k \in T |-> lastMessage(accounts[k].messages)]
              R == {p \in T \X T : last[p[1]] >= last[p[2]]}
  <1>1. T \subseteq Accts /\ \A k \in T : last[k] \in Nat
    BY LastHeld DEF portfolioOf
  <1>2. IsFiniteSet(T)
    BY <1>1, StockAssumption, FS_Subset
  <1>3. RoleScope(o) = portfolioOf(o)
    BY AccountAssumption DEF RoleScope
  <1>4. \A k \in T : last[k] = lastMessage(accounts[k].messages)
    OBVIOUS
  <1>5. Chats(o) = CHOOSE s \in SetToSeqs(T) :
                     \A i, j \in DOMAIN s : i < j =>
                       lastMessage(accounts[s[i]].messages) >= lastMessage(accounts[s[j]].messages)
    BY <1>3, Zenon DEF Chats
  <1>. HIDE DEF last, T
  <1>6. PICK e \in SetToSeqs(T) : Rising(e, R)
    <2>1. \A x, y \in T : <<x, y>> \in R \/ <<y, x>> \in R
      BY <1>1
    <2>2. \A x, y, z \in T : <<x, y>> \in R /\ <<y, z>> \in R => <<x, z>> \in R
      BY <1>1
    <2>. HIDE DEF R
    <2>. QED  BY <1>2, <2>1, <2>2, ArrangedExists
  <1>7. \A x, y \in T : <<x, y>> \in R => last[x] >= last[y]
    OBVIOUS
  <1>8. \A i \in DOMAIN e : e[i] \in T
    BY <1>2, EachOnce
  <1>. HIDE DEF R
  <1>9. \A i, j \in DOMAIN e : i < j =>
          lastMessage(accounts[e[i]].messages) >= lastMessage(accounts[e[j]].messages)
    BY <1>4, <1>6, <1>7, <1>8 DEF Rising
  <1>10. Chats(o) \in SetToSeqs(T)
    BY <1>5, <1>6, <1>9, Zenon
  <1>. QED  BY <1>2, <1>10 DEF T

(* AO-C1: the tiles are the list.                                            *)
LEMMA TilesAgree == AccountTypes => TilesAreTheList
  <1>. SUFFICES ASSUME AccountTypes, NEW o \in AccountOfficers
                PROVE  LET tiles == DashboardSummary(o)  list == AssignedCustomers(o, "all")
                           active == AssignedCustomers(o, "activeTickets")
                           unread == AssignedCustomers(o, "unreadMessages") IN
    /\ list = {k \in Accts : ensureAssignedCustomer(o, k)}
    /\ tiles.totalDistributors = Cardinality(list)
    /\ tiles.openTickets = SumFunction([k \in active |-> AssignedRow(active, k).openTickets])
    /\ tiles.unreadMessages = SumFunction([k \in unread |-> AssignedRow(unread, k).unreadMessages])
    /\ tiles.unreadMessages = SumFunction([i \in DOMAIN Chats(o) |-> ChatRow(Chats(o)[i]).unreadMessages])
    /\ tiles.overdueBalances = {k \in list : HomeBalance(k).isLow}
    /\ OfficerRow(o).supportTickets = OfficerDetail(o).openTickets
    /\ OfficerDetail(o).customers \subseteq list /\ PortfolioAgrees(list)
    BY Zenon DEF TilesAreTheList
  <1>. DEFINE S == portfolioOf(o)
              tickets == [k \in S |-> Cardinality(OpenTickets(k))]
              unread == [k \in S |-> Cardinality(UNREAD_FROM_CUSTOMER(k))]
  <1>1. S \subseteq Accts /\ IsFiniteSet(S) /\ RoleScope(o) = S
    <2>1. S \subseteq Accts
      BY DEF portfolioOf
    <2>. QED  BY <2>1, StockAssumption, FS_Subset, AccountAssumption DEF RoleScope
  <1>2. /\ DashboardSummary(o).totalDistributors = Cardinality(S)
        /\ DashboardSummary(o).openTickets = SumFunction(tickets)
        /\ DashboardSummary(o).unreadMessages = SumFunction(unread)
    BY DEF DashboardSummary, TotalOpen, TotalUnread
  <1>3. S = {k \in Accts : ensureAssignedCustomer(o, k)}
    BY AccountAssumption DEF portfolioOf, ensureAssignedCustomer
  <1>4. /\ DOMAIN tickets = S /\ DOMAIN unread = S
        /\ \A k \in S : /\ tickets[k] = Cardinality(OpenTickets(k)) /\ tickets[k] \in Int
                        /\ (OpenTickets(k) = {} => tickets[k] = 0)
                        /\ unread[k] = Cardinality(UNREAD_FROM_CUSTOMER(k)) /\ unread[k] \in Int
                        /\ (UNREAD_FROM_CUSTOMER(k) = {} => unread[k] = 0)
                        /\ UNREAD_FROM_CUSTOMER(k) \subseteq accounts[k].messages
    <2>. HIDE DEF S
    <2>. QED  BY <1>1, AccountHeld
  <1>5. OfficerDetail(o).customers \subseteq S /\ OfficerRow(o).supportTickets = OfficerDetail(o).openTickets
    BY DEF OfficerDetail, OfficerRow, portfolioOf
  <1>. HIDE DEF S, tickets, unread
  <1>6. /\ AssignedCustomers(o, "all") = S
        /\ AssignedCustomers(o, "activeTickets") = {k \in S : OpenTickets(k) # {}}
        /\ AssignedCustomers(o, "unreadMessages") = {k \in S : UNREAD_FROM_CUSTOMER(k) # {}}
    BY <1>1 DEF AssignedCustomers, Matches
  <1>7. LET T == AssignedCustomers(o, "activeTickets")
        IN SumFunction(tickets) = SumFunction([k \in T |-> AssignedRow(T, k).openTickets])
    <2>. DEFINE T == AssignedCustomers(o, "activeTickets")
                u == [k \in T |-> AssignedRow(T, k).openTickets]
    <2>1. T \in SUBSET S /\ \A k \in S \ T : tickets[k] = 0
      BY <1>4, <1>6
    <2>2. DOMAIN u = T /\ \A k \in T : u[k] = tickets[k]
      BY <1>4, <2>1 DEF AssignedRow
    <2>. HIDE DEF T, u
    <2>3. SumFunction(tickets) = SumFunction(u)
      BY <1>1, <1>4, <2>1, <2>2, OnlyThoseWithSome
    <2>. QED  BY <2>3 DEF u, T
  <1>8. LET T == AssignedCustomers(o, "unreadMessages")
        IN SumFunction(unread) = SumFunction([k \in T |-> AssignedRow(T, k).unreadMessages])
    <2>. DEFINE T == AssignedCustomers(o, "unreadMessages")
                u == [k \in T |-> AssignedRow(T, k).unreadMessages]
    <2>1. T \in SUBSET S /\ \A k \in S \ T : unread[k] = 0
      BY <1>4, <1>6
    <2>2. DOMAIN u = T /\ \A k \in T : u[k] = unread[k]
      BY <1>4, <2>1 DEF AssignedRow
    <2>. HIDE DEF T, u
    <2>3. SumFunction(unread) = SumFunction(u)
      BY <1>1, <1>4, <2>1, <2>2, OnlyThoseWithSome
    <2>. QED  BY <2>3 DEF u, T
  <1>9. SumFunction(unread) = SumFunction([i \in DOMAIN Chats(o) |-> ChatRow(Chats(o)[i]).unreadMessages])
    <2>. DEFINE T == {k \in S : accounts[k].messages # {}}
                e == Chats(o)
                D == DOMAIN e
                u == [k \in T |-> unread[k]]
                w == [i \in D |-> ChatRow(e[i]).unreadMessages]
    <2>1. IsFiniteSet(T) /\ e \in SetToSeqs(T)
      BY ChatsListed DEF S
    <2>2. T \in SUBSET S /\ \A k \in S \ T : unread[k] = 0
      BY <1>4
    <2>3. DOMAIN u = T /\ DOMAIN w = D /\ \A k \in T : u[k] = unread[k] /\ u[k] \in Int
      BY <1>4
    <2>. HIDE DEF T, e
    <2>4. /\ e \in [D -> T] /\ IsFiniteSet(D)
          /\ \A i, j \in D : e[i] = e[j] => i = j
          /\ \A x \in T : \E i \in D : e[i] = x
      <3>1. Cardinality(T) \in Nat
        BY <2>1, FS_CardinalityType
      <3>2. IsFiniteSet(1..Cardinality(T))
        BY <3>1, FS_Interval
      <3>. QED  BY <2>1, <3>2, EachOnce
    <2>5. \A i \in D : w[i] = u[e[i]] /\ w[i] \in Int
      <3>1. \A i \in D : w[i] = Cardinality(UNREAD_FROM_CUSTOMER(e[i]))
        BY DEF ChatRow
      <3>. HIDE DEF w, u, D
      <3>. QED  BY <1>4, <2>2, <2>3, <2>4, <3>1
    <2>. HIDE DEF u, w, D
    <2>6. SumFunction(unread) = SumFunction(u)
      BY <1>1, <1>4, <2>2, <2>3, OnlyThoseWithSome
    <2>7. SumFunctionOnSet(w, D) = SumFunctionOnSet(u, T)
      <3>1. \A i \in D : w[i] \in Int
        BY <2>5
      <3>2. \A i \in D : u[e[i]] = w[i]
        BY <2>5
      <3>. QED  BY <2>4, <3>1, <3>2, SumReindexed
    <2>8. SumFunction(unread) = SumFunction(w)
      BY <2>3, <2>6, <2>7, SumsOver
    <2>. QED  BY <2>8 DEF w, D, e
  <1>10. PortfolioAgrees(S)
    BY <1>1, PortfolioAddsUp
  <1>11. DashboardSummary(o).overdueBalances = {k \in S : HomeBalance(k).isLow}
    <2>1. DashboardSummary(o).overdueBalances = {k \in S : balanceByErpId(S)[k] < 0}
      BY DEF DashboardSummary, S
    <2>2. \A k \in S : balanceByErpId(S)[k] = resolveBalance(k)
      BY <1>1, BatchIsSingle
    <2>3. \A k \in S : HomeBalance(k).isLow = (resolveBalance(k) < 0)
      BY DEF HomeBalance
    <2>. QED  BY <2>1, <2>2, <2>3
  <1>. QED  BY <1>2, <1>3, <1>5, <1>6, <1>7, <1>8, <1>9, <1>10, <1>11
-----------------------------------------------------------------------------
(* Balances, regions and officers.                                           *)

(* One balance on every screen, and the regions' make up the whole.          *)
LEMMA BalancesAreOne == AccountTypes => BalancesAgree
  <1>. SUFFICES ASSUME AccountTypes  PROVE BalancesAgree
    OBVIOUS
  <1>0. \A k \in Accts : HomeBalance(k).amount = resolveBalance(k) /\ resolveBalance(k) \in Int
    BY CreditsHeld DEF HomeBalance
  <1>1. ASSUME NEW k \in Accts
        PROVE  {Overview(k).walletBalance, InvoicesTab(k).walletBalance, LegacyDetail(k).outstandingBalance,
                ProfileBalance(k), AccountTab(k).amount} = {HomeBalance(k).amount}
    <2>1. balanceForCustomer(k) = resolveBalance(k)
      BY BatchIsSingle DEF balanceForCustomer
    <2>. QED
      BY <2>1 DEF Overview, InvoicesTab, LegacyDetail, ProfileBalance, AccountTab, HomeBalance
  <1>2. ASSUME NEW page \in SUBSET Accts, NEW k \in page
        PROVE  {AssignedRow(page, k).walletBalance, AdminRow(page, k).outstandingBalance,
                CsvLine(page, k).outstandingBalance} = {HomeBalance(k).amount}
    <2>1. balanceByErpId(page)[k] = resolveBalance(k)
      BY BatchIsSingle
    <2>. QED
      BY <2>1 DEF AssignedRow, AdminRow, CsvLine, HomeBalance
  <1>. DEFINE S == Accts
              v == balanceByErpId(Accts)
              own == [k \in S |-> HomeBalance(k).amount]
              region == [k \in S |-> accounts[k].region]
              of == [r \in Regions |-> {k \in S : accounts[k].region = r}]
              w == [r \in Regions |-> DashboardStats.byRegion[r].walletBalance]
  <1>3. DashboardStats.totalOutstandingBalance = SumFunction(v) /\ DOMAIN v = S
    BY DEF DashboardStats, balanceByErpId
  <1>4. \A k \in S : v[k] = resolveBalance(k) /\ v[k] \in Int /\ own[k] = v[k]
    BY <1>0, BatchIsSingle
  <1>5. /\ region \in [S -> Regions] /\ IsFiniteSet(S) /\ IsFiniteSet(Regions)
        /\ \A r \in Regions : of[r] = {k \in S : region[k] = r}
        /\ DOMAIN own = S /\ DOMAIN w = Regions
    BY AccountHeld, AccountAssumption, StockAssumption
  <1>6. ASSUME NEW r \in Regions  PROVE w[r] = SumFunctionOnSet(v, of[r])
    <2>. DEFINE T == of[r]
                t == [k \in T |-> v[k]]
    <2>1. w[r] = SumFunction([k \in {j \in Accts : accounts[j].region = r} |-> balanceByErpId(Accts)[k]])
      BY DEF DashboardStats
    <2>2. w[r] = SumFunction(t) /\ DOMAIN t = T
      BY <2>1
    <2>3. T \subseteq S /\ \A k \in T : t[k] = v[k] /\ t[k] \in Int
      BY <1>4
    <2>4. IsFiniteSet(T)
      BY <1>5, <2>3, FS_Subset
    <2>. HIDE DEF T, t, v, w, S
    <2>5. SumFunctionOnSet(t, T) = SumFunctionOnSet(v, T)
      BY <2>3, <2>4, SumsAgree
    <2>. QED  BY <2>2, <2>5, SumsOver DEF T
  <1>. HIDE DEF v, own, region, of, w, S
  <1>7. SumFunctionOnSet(v, S) = SumFunctionOnSet(w, Regions)
    BY <1>4, <1>5, <1>6, SumByGroup
  <1>8. SumFunctionOnSet(v, S) = SumFunctionOnSet(own, S)
    BY <1>4, <1>5, SumsAgree
  <1>9. /\ DashboardStats.totalOutstandingBalance = SumFunction(own)
        /\ DashboardStats.totalOutstandingBalance = SumFunction(w)
    BY <1>3, <1>5, <1>7, <1>8, SumsOver
  <1>. QED  BY <1>1, <1>2, <1>9 DEF BalancesAgree, own, w, S

(* The open tickets of some accounts, counted as one list and account by     *)
(* account.                                                                  *)
LEMMA TicketsCounted ==
  ASSUME AccountTypes, NEW ks \in SUBSET Accts
  PROVE  Cardinality(UNION {{<<k, t.id>> : t \in OpenTickets(k)} : k \in ks}) = TotalOpen(ks)
  <1>. DEFINE of == [k \in ks |-> {<<k, t.id>> : t \in OpenTickets(k)}]
              S == UNION {of[k] : k \in ks}
              owner == [p \in S |-> p[1]]
              w == [k \in ks |-> Cardinality(OpenTickets(k))]
  <1>1. IsFiniteSet(ks)
    BY StockAssumption, FS_Subset
  <1>2. ASSUME NEW k \in ks
        PROVE  IsFiniteSet(of[k]) /\ Cardinality(of[k]) = Cardinality(OpenTickets(k))
               /\ \A p \in of[k] : p[1] = k
    <2>. DEFINE T == OpenTickets(k)
                f == [t \in T |-> <<k, t.id>>]
    <2>1. k \in Accts
      OBVIOUS
    <2>2. IsFiniteSet(T) /\ \A t, u \in T : t.id = u.id => t = u
      BY <2>1, AccountHeld
    <2>3. of[k] = {f[t] : t \in T}
      OBVIOUS
    <2>4. \A p \in of[k] : p[1] = k
      OBVIOUS
    <2>5. \A t, u \in T : f[t] = f[u] => t = u
      BY <2>2
    <2>6. f \in [T -> of[k]] /\ \A p \in of[k] : \E t \in T : f[t] = p
      BY <2>3
    <2>. DEFINE U == of[k]
    <2>. HIDE DEF f, T, of, U
    <2>7. /\ f \in [T -> U] /\ \A p \in U : \E t \in T : f[t] = p
          /\ \A t, u \in T : f[t] = f[u] => t = u
      BY <2>5, <2>6 DEF U
    <2>8. f \in Bijection(T, U)
      BY <2>7 DEF Bijection, Injection, Surjection, IsInjective
    <2>9. IsFiniteSet(U) /\ Cardinality(U) = Cardinality(T)
      BY <2>2, <2>8, FS_Bijection DEF ExistsBijection
    <2>. QED  BY <2>4, <2>9 DEF T, U
  <1>3. UNION {{<<k, t.id>> : t \in OpenTickets(k)} : k \in ks} = S
    <2>1. \A k \in ks : of[k] = {<<k, t.id>> : t \in OpenTickets(k)}
      OBVIOUS
    <2>2. ASSUME NEW x  PROVE x \in UNION {{<<k, t.id>> : t \in OpenTickets(k)} : k \in ks} <=> x \in S
      <3>1. x \in UNION {{<<k, t.id>> : t \in OpenTickets(k)} : k \in ks}
              <=> \E k \in ks : x \in {<<k, t.id>> : t \in OpenTickets(k)}
        OBVIOUS
      <3>. HIDE DEF of
      <3>. QED  BY <2>1, <3>1
    <2>. HIDE DEF S
    <2>. QED  BY <2>2
  <1>. HIDE DEF of
  <1>4. IsFiniteSet(S)
    <2>1. of \in [ks -> {of[k] : k \in ks}]
      BY DEF of
    <2>2. IsFiniteSet({of[k] : k \in ks})
      BY <1>1, <2>1, FiniteImage
    <2>. QED  BY <1>2, <2>2, FS_UNION
  <1>5. owner \in [S -> ks] /\ \A k \in ks : {p \in S : owner[p] = k} = of[k]
    BY <1>2
  <1>6. \A k \in ks : w[k] = Cardinality({p \in S : owner[p] = k}) /\ w[k] \in Int
    <2>1. \A k \in ks : w[k] = Cardinality(OpenTickets(k))
      OBVIOUS
    <2>. HIDE DEF S, owner, w
    <2>2. ASSUME NEW k \in ks
          PROVE  w[k] = Cardinality({p \in S : owner[p] = k}) /\ w[k] \in Int
      <3>1. {p \in S : owner[p] = k} = of[k]
        BY <1>5
      <3>2. k \in Accts
        OBVIOUS
      <3>3. Cardinality(OpenTickets(k)) \in Nat
        BY <3>2, AccountHeld
      <3>4. Cardinality(of[k]) = Cardinality(OpenTickets(k)) /\ w[k] = Cardinality(OpenTickets(k))
        BY <1>2, <2>1
      <3>5. w[k] = Cardinality({p \in S : owner[p] = k})
        BY <3>1, <3>4, Zenon
      <3>. QED  BY <3>3, <3>4, <3>5
    <2>. QED  BY <2>2
  <1>7. TotalOpen(ks) = SumFunction(w) /\ DOMAIN w = ks
    BY DEF TotalOpen
  <1>. HIDE DEF S, owner, w
  <1>8. Cardinality(S) = SumFunctionOnSet(w, ks)
    BY <1>1, <1>4, <1>5, <1>6, CountByKey
  <1>. QED  BY <1>3, <1>7, <1>8, SumsOver

(* The regions make up the whole.                                            *)
LEMMA RegionsAddUp == AccountTypes => RegionsAgree
  <1>. SUFFICES ASSUME AccountTypes  PROVE RegionsAgree
    OBVIOUS
  <1>1. ASSUME NEW r \in Regions
        PROVE  /\ RegionalDashboard(r).openTickets = DashboardStats.byRegion[r].openTickets
               /\ Cardinality(AuditedTickets(r)) = RegionalDashboard(r).openTickets
    <2>. DEFINE ks == {k \in Accts : accounts[k].region = r}
    <2>1. RegionalDashboard(r).openTickets = TotalOpen(ks) /\ DashboardStats.byRegion[r].openTickets = TotalOpen(ks)
      BY DEF RegionalDashboard, DashboardStats
    <2>2. {j \in Accts : InScope(r, accounts[j].region)} = ks
      BY ScopeAssumption DEF InScope
    <2>3. AuditedTickets(r) = UNION {{<<k, t.id>> : t \in OpenTickets(k)} : k \in ks}
      BY <2>2, Zenon DEF AuditedTickets
    <2>4. ks \in SUBSET Accts
      OBVIOUS
    <2>. HIDE DEF ks
    <2>. QED  BY <2>1, <2>3, <2>4, TicketsCounted
  <1>2. Cardinality(AuditedTickets(None)) = DashboardStats.openTickets
    <2>1. {j \in Accts : InScope(None, accounts[j].region)} = Accts
      BY DEF InScope
    <2>2. AuditedTickets(None) = UNION {{<<k, t.id>> : t \in OpenTickets(k)} : k \in Accts}
      BY <2>1, Zenon DEF AuditedTickets
    <2>3. DashboardStats.openTickets = TotalOpen(Accts)
      BY DEF DashboardStats
    <2>. QED  BY <2>2, <2>3, TicketsCounted
  <1>3. UNION {ChatThreads(r) : r \in Regions} = ChatThreads(None)
    <2>. DEFINE pairs(s) == {p \in Accts \X AccountOfficers :
                               InScope(s, accounts[p[1]].region) /\ \E m \in accounts[p[1]].messages : m.staff = p[2]}
                of(p) == {m \in accounts[p[1]].messages : m.staff = p[2]}
                thread(p) == [customer |-> p[1], officer |-> p[2], messageCount |-> Cardinality(of(p)),
                              lastMessageAt |-> lastMessage(of(p))]
    <2>1. \A s : ChatThreads(s) = {thread(p) : p \in pairs(s)}
      BY Zenon DEF ChatThreads
    <2>2. \A p \in Accts \X AccountOfficers : accounts[p[1]].region \in Regions
      BY AccountHeld
    <2>3. ASSUME NEW p  PROVE p \in pairs(None) <=> \E r \in Regions : p \in pairs(r)
      BY <2>2, ScopeAssumption DEF InScope
    <2>. HIDE DEF pairs, thread
    <2>4. ASSUME NEW x  PROVE x \in UNION {ChatThreads(r) : r \in Regions} <=> x \in ChatThreads(None)
      <3>1. x \in ChatThreads(None) <=> \E p \in pairs(None) : x = thread(p)
        BY <2>1
      <3>2. \A r \in Regions : x \in ChatThreads(r) <=> \E p \in pairs(r) : x = thread(p)
        BY <2>1
      <3>3. x \in UNION {ChatThreads(r) : r \in Regions} <=> \E r \in Regions : x \in ChatThreads(r)
        OBVIOUS
      <3>. QED  BY <2>3, <3>1, <3>2, <3>3
    <2>. QED  BY <2>4
  <1>. QED  BY <1>1, <1>2, <1>3 DEF RegionsAgree

(* A distributor is offered the officers who can open their thread.          *)
LEMMA OfficersAreOffered == AccountTypes => OfficersAgree
  <1>. SUFFICES ASSUME AccountTypes, NEW k \in Accts
                PROVE  {r.officer : r \in OfficerChats(k)} = {o \in working : ensureAssignedCustomer(o, k)}
    BY DEF OfficersAgree
  <1>. DEFINE officers == accounts[k].joins \cup ({accounts[k].pointer} \ {None})
              of(o) == {m \in accounts[k].messages : m.staff = o}
              row(o) == [officer |-> o, isPrimary |-> o = accounts[k].pointer, lastMessageAt |-> lastMessage(of(o)),
                         unreadMessages |-> Cardinality({m \in of(o) : ~m.fromCustomer /\ ~m.read})]
  <1>1. OfficerChats(k) = {row(o) : o \in officers \cap working}
    BY Zenon DEF OfficerChats
  <1>2. \A o : row(o).officer = o
    OBVIOUS
  <1>3. \A o \in working : o \in officers <=> ensureAssignedCustomer(o, k)
    BY AccountAssumption DEF ensureAssignedCustomer, AccountTypes
  <1>. HIDE DEF officers, row
  <1>4. {r.officer : r \in OfficerChats(k)} = officers \cap working
    BY <1>1, <1>2
  <1>. QED  BY <1>3, <1>4

(* The screens side by side: those of balances, tickets, conversations and   *)
(* officers, those of stock as far as StockAgrees and PortfolioAgrees say,   *)
(* and the merged lines of an order against its items.                       *)
LEMMA ScreensOfAccounts == AccountTypes => ScreensAgree
  BY TilesAgree, BalancesAreOne, RegionsAddUp, OfficersAreOffered, StockScreensAgree, OrdersAddUp DEF ScreensAgree

-----------------------------------------------------------------------------
(* The components side by side.                                              *)

LEMMA AccountInitially == AccountInit => AccountTypes
  BY AccountAssumption DEF AccountInit, AccountTypes, StockInit

LEMMA AccountStep == AccountTypes /\ [AccountNext]_accountVars => AccountTypes'
  <1>. SUFFICES ASSUME AccountTypes, [AccountNext]_accountVars  PROVE AccountTypes'
    OBVIOUS
  <1>1. /\ accounts' \in [Accts -> AccountStates]
        /\ stock' \in [Accts -> StockStates] /\ stockFeed' \in {"absent", "fails", "answers"}
        /\ creditFeed' \in BOOLEAN /\ working' \subseteq AccountOfficers /\ calls' = calls
    BY DEF AccountTypes, AccountNext, AccountChanges, StockChanges, accountVars
  <1>. QED  BY <1>1, AccountAssumption DEF AccountTypes

(* The component at work keeps its invariant.                                *)
ProjectionInv ==
  /\ live \in Components
  /\ live = "orders"      => OrderInv
  /\ live = "reconcilers" => JobInv
  /\ live = "ledger"      => LedgerInv
  /\ live = "directory"   => DirectoryInv
  /\ live = "accounts"    => AccountTypes
  /\ live = "routes"      => RouteInv

(* What a step of the projections is for the component at work.              *)
LEMMA StepsOfOne ==
  ASSUME live \in Components, [ProjectionNext]_projectionVars
  PROVE  /\ live' = live
         /\ live = "orders"      => [OrderNext]_orderVars
         /\ live = "reconcilers" => [ReconcilerNext]_reconcilerVars
         /\ live = "ledger"      => [LedgerNext]_ledgerVars
         /\ live = "directory"   => [DirectoryNext]_directoryVars
         /\ live = "accounts"    => [AccountNext]_accountVars
         /\ live = "routes"      => [RouteNext]_routeVars
  <1>1. CASE UNCHANGED projectionVars
    <2>1. /\ UNCHANGED <<calls, live>>
          /\ UNCHANGED OrderRows /\ UNCHANGED ReconcilerRows /\ UNCHANGED LedgerRows
          /\ UNCHANGED DirectoryRows /\ UNCHANGED AccountRows /\ UNCHANGED RouteRows
      BY <1>1 DEF projectionVars
    <2>. QED
      BY <2>1 DEF orderVars, OrderRows, reconcilerVars, ReconcilerRows, ledgerVars, LedgerRows,
                  directoryVars, DirectoryRows, accountVars, AccountRows, routeVars, RouteRows
  <1>2. CASE ProjectionNext
    BY <1>2 DEF ProjectionNext, Others
  <1>. QED  BY <1>1, <1>2

LEMMA ProjectionsInitially == ProjectionInit => ProjectionInv
  BY OrderInitially, JobInitially, LedgerInitially, DirectoryInitially, AccountInitially,
     RouteInitially DEF ProjectionInit, ProjectionInv

LEMMA ProjectionsStep == ProjectionInv /\ [ProjectionNext]_projectionVars => ProjectionInv'
  <1>. SUFFICES ASSUME ProjectionInv, [ProjectionNext]_projectionVars  PROVE ProjectionInv'
    OBVIOUS
  <1>0. live \in Components /\ live' = live
    BY StepsOfOne DEF ProjectionInv
  <1>1. live = "orders" => OrderInv'
    BY StepsOfOne, OrderStep DEF ProjectionInv
  <1>2. live = "reconcilers" => JobInv'
    BY StepsOfOne, JobStep DEF ProjectionInv
  <1>3. live = "ledger" => LedgerInv'
    BY StepsOfOne, LedgerStep DEF ProjectionInv
  <1>4. live = "directory" => DirectoryInv'
    BY StepsOfOne, DirectoryStep DEF ProjectionInv
  <1>5. live = "accounts" => AccountTypes'
    BY StepsOfOne, AccountStep DEF ProjectionInv
  <1>6. live = "routes" => RouteInv'
    BY StepsOfOne, RouteStep DEF ProjectionInv
  <1>. QED  BY <1>0, <1>1, <1>2, <1>3, <1>4, <1>5, <1>6 DEF ProjectionInv

LEMMA ProjectionsTyped == ProjectionInv => ProjectionTypes
  BY DEF ProjectionInv, ProjectionTypes, Components, OrderInv, JobInv, LedgerInv, DirectoryInv, RouteInv

(* Every row and every handler of the component at work keeps its type,      *)
(* whichever component it is and whatever the sets its constants name; the   *)
(* flag of a job is up just while its pass is under way.                     *)
THEOREM ProjectionsKeepTypes == ProjectionSpec => []ProjectionTypes
  BY ProjectionsInitially, ProjectionsStep, ProjectionsTyped, PTL DEF ProjectionSpec

(* Whatever the feeds and the portal hold, whether or not the feeds answer   *)
(* and for any accounts: the tiles of getDashboard are those of the lists of *)
(* getAssignedCustomers and getChats; the balance derived for a customer     *)
(* alone (resolveBalance) is the one derived for everybody on a page         *)
(* (balanceByErpId), whichever records of whichever days the ERP holds, and  *)
(* the regions' balances and tickets make up the whole.  Of stock, the card  *)
(* and the breakdown agree; the column of the lists may show the card's      *)
(* figures, and shows no others where the customer has one ERP id; the       *)
(* portfolio's total is the cards' and what is filed under the ids they pass *)
(* over.  Merging the lines of an order loses nothing.                       *)
THEOREM AccountScreens == ProjectionSpec => []AccountScreensAgree
  <1>1. ProjectionInv => AccountScreensAgree
    BY ScreensOfAccounts DEF ProjectionInv, AccountScreensAgree
  <1>. QED  BY <1>1, ProjectionsInitially, ProjectionsStep, PTL DEF ProjectionSpec
=============================================================================
