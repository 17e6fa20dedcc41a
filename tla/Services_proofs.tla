---------------------------- MODULE Services_proofs --------------------------
(***************************************************************************)
(* The balances of Wallet; and the components that answer requests, side   *)
(* by side, as the instances of MCServices check them.                     *)
(***************************************************************************)
EXTENDS MCServices, SignIn_proofs, Outreach_proofs

-----------------------------------------------------------------------------
(* What holds of balances for every set of distributors, payments and      *)
(* handlers in flight.                                                     *)

(* What a set of payments adds up to, and the rows of a customer that carry  *)
(* an allowance, among payments as among notices.                            *)
WalletPaid(ps, S) == MapThenSumSet(LAMBDA i : ps[i].amount, S)
SinceIn(ps, from, k) == {i \in 1..Len(ps) : i > from /\ ps[i].customer = k}
RowsOf(s, k) == {i \in 1..Len(s) : s[i].customer = k /\ s[i].amount > 0}

(* Handlers that have paid and not told yet.                                 *)
Owes(call, k) ==
  call.route = "individual" /\ call.step \in {"record", "tell"} /\ call.allowance > 0 /\ call.to = k
Owing(cs, k) == {c \in Calls : Owes(cs[c], k)}

WalletRowsKept ==
  /\ calls \in [Calls -> WalletCall]
  /\ stored \in [Distributors -> Int] /\ credit \in [Distributors -> SUBSET CreditRows]
  /\ payments \in Seq(Payment) /\ notices \in Seq(BroadcastNotice)
  /\ base \in [Distributors -> Int \X Nat] /\ outdated \subseteq Distributors

SendsTo(call) ==
  call.route = "individual" =>
    /\ call.step \in {"credit", "record", "tell"} => call.to \in Distributors
    /\ call.step = "credit" => call.allowance > 0

Balanced(k) ==
  /\ base[k][2] <= Len(payments)
  /\ k \notin outdated => stored[k] = base[k][1] + WalletPaid(payments, SinceIn(payments, base[k][2], k))

ToldOf(cs, ns, ps, k) ==
  /\ IsFiniteSet(Owing(cs, k))
  /\ Cardinality(RowsOf(ns, k)) + Cardinality(Owing(cs, k)) <= Cardinality(RowsOf(ps, k))

WalletInv ==
  /\ WalletRowsKept
  /\ \A c \in Calls : SendsTo(calls[c])
  /\ \A k \in Distributors : Balanced(k)
  /\ \A k \in Distributors : ToldOf(calls, notices, payments, k)

-----------------------------------------------------------------------------
(* Sums of payments.                                                         *)

LEMMA PaidIsASum ==
  ASSUME NEW p, NEW S
  PROVE  WalletPaid(p, S) = SumFunctionOnSet([i \in S |-> p[i].amount], S)
  <1>. DEFINE v == [i \in S |-> p[i].amount]
              B(g) == [s \in SUBSET S |-> IF s = {} THEN 0 ELSE p[Pick(s)].amount + g[s \ {Pick(s)}]]
              V(g) == [s \in SUBSET S |-> IF s = {} THEN 0 ELSE v[Pick(s)] + g[s \ {Pick(s)}]]
  <1>1. WalletPaid(p, S) = (CHOOSE g : g = B(g))[S]
    BY Zenon DEF WalletPaid, MapThenSumSet, MapThenFoldSet, Pick
  <1>2. SumFunctionOnSet(v, S) = (CHOOSE g : g = V(g))[S]
    BY Zenon, SumByDefinition DEF Adds
  <1>3. ASSUME NEW g  PROVE B(g) = V(g)
    <2>1. ASSUME NEW s \in SUBSET S, s # {}  PROVE v[Pick(s)] = p[Pick(s)].amount
      <3>1. Pick(s) \in S
        BY <2>1, PickIsIn
      <3>. QED  BY <3>1
    <2>. QED  BY <2>1
  <1>. HIDE DEF B, V
  <1>4. \A g : (g = B(g)) <=> (g = V(g))
    BY <1>3
  <1>5. (CHOOSE g : g = B(g)) = (CHOOSE g : g = V(g))
    BY <1>4
  <1>. QED  BY <1>1, <1>2, <1>5

LEMMA PaidNothing == ASSUME NEW p  PROVE WalletPaid(p, {}) = 0
  BY PaidIsASum, SumOfNone

LEMMA SomePayments ==
  ASSUME NEW p \in Seq(Payment), NEW S \in SUBSET (1..Len(p))
  PROVE  IsFiniteSet(S) /\ \A i \in S : p[i].amount \in Int
  <1>1. Len(p) \in Nat
    OBVIOUS
  <1>2. IsFiniteSet(1..Len(p))
    BY <1>1, FS_Interval
  <1>3. \A i \in 1..Len(p) : p[i] \in Payment
    OBVIOUS
  <1>4. \A x \in Payment : x.amount \in Int
    BY DEF Payment
  <1>. QED  BY <1>2, <1>3, <1>4, FS_Subset

LEMMA PaidIsInt ==
  ASSUME NEW p \in Seq(Payment), NEW S \in SUBSET (1..Len(p))
  PROVE  WalletPaid(p, S) \in Int
  <1>. DEFINE v == [i \in S |-> p[i].amount]
  <1>1. IsFiniteSet(S) /\ \A i \in S : v[i] \in Int
    BY SomePayments
  <1>. HIDE DEF v
  <1>2. SumFunctionOnSet(v, S) \in Int
    BY <1>1, SumIsInt
  <1>. QED  BY <1>2, PaidIsASum DEF v

(* A payment more adds its amount if it is counted, and nothing otherwise.   *)
LEMMA AppendPayment ==
  ASSUME NEW p \in Seq(Payment), NEW x \in Payment
  PROVE  /\ Append(p, x) \in Seq(Payment) /\ Len(Append(p, x)) = Len(p) + 1 /\ Len(p) \in Nat
         /\ Append(p, x)[Len(p) + 1] = x
         /\ \A i \in 1..Len(p) : Append(p, x)[i] = p[i]
  OBVIOUS

LEMMA PaidBefore ==
  ASSUME NEW p \in Seq(Payment), NEW x \in Payment, NEW S \in SUBSET (1..Len(p))
  PROVE  WalletPaid(Append(p, x), S) = WalletPaid(p, S)
  <1>. DEFINE q == Append(p, x)
              v == [i \in S |-> p[i].amount]
              w == [i \in S |-> q[i].amount]
  <1>1. \A i \in S : q[i] = p[i]
    BY AppendPayment
  <1>2. IsFiniteSet(S) /\ \A i \in S : v[i] \in Int /\ v[i] = w[i]
    BY <1>1, SomePayments
  <1>3. WalletPaid(p, S) = SumFunctionOnSet(v, S) /\ WalletPaid(q, S) = SumFunctionOnSet(w, S)
    BY PaidIsASum
  <1>. HIDE DEF v, w, q
  <1>4. SumFunctionOnSet(v, S) = SumFunctionOnSet(w, S)
    BY <1>2, SumsAgree
  <1>. QED  BY <1>3, <1>4 DEF q

LEMMA PaidWith ==
  ASSUME NEW p \in Seq(Payment), NEW x \in Payment, NEW S \in SUBSET (1..Len(p))
  PROVE  WalletPaid(Append(p, x), S \cup {Len(p) + 1}) = x.amount + WalletPaid(p, S)
  <1>. DEFINE q == Append(p, x)
              n == Len(p) + 1
              T == S \cup {n}
              w == [i \in T |-> q[i].amount]
              u == [i \in S |-> q[i].amount]
  <1>1. q \in Seq(Payment) /\ T \in SUBSET (1..Len(q)) /\ S \in SUBSET (1..Len(q)) /\ n \notin S
    <2>1. q \in Seq(Payment) /\ Len(q) = Len(p) + 1 /\ Len(p) \in Nat
      BY AppendPayment
    <2>. HIDE DEF q
    <2>2. \A i \in S : i \in Nat /\ 1 <= i /\ i <= Len(p)
      BY <2>1
    <2>3. \A i \in S : i \in 1..Len(q) /\ i # n
      BY <2>1, <2>2
    <2>4. n \in 1..Len(q)
      BY <2>1
    <2>. QED  BY <2>1, <2>3, <2>4
  <1>2. q[n] = x
    BY AppendPayment
  <1>3. WalletPaid(q, T) = SumFunctionOnSet(w, T) /\ WalletPaid(q, S) = SumFunctionOnSet(u, S)
    BY PaidIsASum
  <1>4. WalletPaid(q, S) = WalletPaid(p, S)
    BY PaidBefore
  <1>. HIDE DEF q, n
  <1>5. IsFiniteSet(S) /\ \A i \in T : q[i].amount \in Int
    BY <1>1, SomePayments
  <1>6. w[n] = x.amount /\ w[n] \in Int /\ \A i \in S : w[i] \in Int /\ w[i] = u[i]
    BY <1>2, <1>5
  <1>. HIDE DEF w, u
  <1>7. SumFunctionOnSet(w, S \cup {n}) = w[n] + SumFunctionOnSet(w, S)
    BY <1>1, <1>5, <1>6, SumOfOneMore
  <1>8. SumFunctionOnSet(w, S) = SumFunctionOnSet(u, S)
    BY <1>5, <1>6, SumsAgree
  <1>9. WalletPaid(q, T) = x.amount + WalletPaid(p, S)
    BY <1>3, <1>4, <1>6, <1>7, <1>8
  <1>. QED  BY <1>9 DEF q, n

-----------------------------------------------------------------------------
(* The derived balance is a number.                                          *)

LEMMA CreditRow ==
  ASSUME NEW r \in CreditRows
  PROVE  r.id \in Int /\ r.amt \in Int /\ r.amt1 \in Int /\ r.pay \in Int /\ r.from \in Int
  BY WalletAssumption

LEMMA GoverningRow ==
  ASSUME NEW held \in SUBSET CreditRows, held # {}
  PROVE  Governing(held) \in held
  <1>. DEFINE Below(s, r) == s.from < r.from \/ (s.from = r.from /\ s.id <= r.id)
              R == {pair \in held \X held : Below(pair[1], pair[2])}
  <1>1. IsFiniteSet(held)
    BY WalletAssumption, FS_Subset
  <1>2. \A r \in held : r.id \in Int /\ r.from \in Int
    BY CreditRow
  <1>3. \A x, y \in held : <<x, y>> \in R <=> Below(x, y)
    OBVIOUS
  <1>. HIDE DEF R
  <1>4. ASSUME NEW x \in held, NEW y \in held  PROVE <<x, y>> \in R \/ <<y, x>> \in R
    <2>1. x.id \in Int /\ x.from \in Int /\ y.id \in Int /\ y.from \in Int
      BY <1>2
    <2>2. Below(x, y) \/ Below(y, x)
      BY <2>1
    <2>. QED  BY <1>3, <2>2
  <1>5. \A x, y, z \in held : <<x, y>> \in R /\ <<y, z>> \in R => <<x, z>> \in R
    BY <1>2, <1>3
  <1>6. \E x \in held : \A y \in held : <<y, x>> \in R
    BY <1>1, <1>4, <1>5, GreatestElement
  <1>7. \E r \in held : \A s \in held : s.from < r.from \/ (s.from = r.from /\ s.id <= r.id)
    BY <1>3, <1>6
  <1>. QED  BY <1>7 DEF Governing

LEMMA TemporaryIsInt ==
  ASSUME NEW held \in SUBSET CreditRows
  PROVE  temporaryCredit(held) \in Int
  <1>. DEFINE S == {r \in held : InForce(r)}
              v == [r \in S |-> r.amt1]
              B(g) == [s \in SUBSET S |-> IF s = {} THEN 0 ELSE Pick(s).amt1 + g[s \ {Pick(s)}]]
              V(g) == [s \in SUBSET S |-> IF s = {} THEN 0 ELSE v[Pick(s)] + g[s \ {Pick(s)}]]
  <1>1. temporaryCredit(held) = (CHOOSE g : g = B(g))[S]
    BY Zenon DEF temporaryCredit, MapThenSumSet, MapThenFoldSet, Pick
  <1>2. SumFunctionOnSet(v, S) = (CHOOSE g : g = V(g))[S]
    BY Zenon, SumByDefinition DEF Adds
  <1>3. IsFiniteSet(S) /\ \A r \in S : v[r] \in Int
    BY WalletAssumption, FS_Subset, CreditRow
  <1>4. ASSUME NEW g  PROVE B(g) = V(g)
    <2>. HIDE DEF S
    <2>1. ASSUME NEW s \in SUBSET S, s # {}  PROVE v[Pick(s)] = Pick(s).amt1
      <3>1. Pick(s) \in S
        BY <2>1, PickIsIn
      <3>. QED  BY <3>1
    <2>. QED  BY <2>1
  <1>5. SumFunctionOnSet(v, S) \in Int
    <2>. HIDE DEF v, S
    <2>. QED  BY <1>3, SumIsInt
  <1>. HIDE DEF B, V
  <1>6. \A g : (g = B(g)) <=> (g = V(g))
    BY <1>4
  <1>7. (CHOOSE g : g = B(g)) = (CHOOSE g : g = V(g))
    BY <1>6
  <1>. QED  BY <1>1, <1>2, <1>5, <1>7

LEMMA BalanceIsInt ==
  ASSUME NEW held \in SUBSET CreditRows, held # {}
  PROVE  runningBalance(held) \in Int
  <1>1. Governing(held) \in CreditRows
    BY GoverningRow
  <1>2. Governing(held).amt \in Int /\ Governing(held).pay \in Int
    BY <1>1, CreditRow
  <1>. QED  BY <1>2, TemporaryIsInt DEF runningBalance

-----------------------------------------------------------------------------
(* Handlers, and what they do to the rows.                                   *)

LEMMA WalletIdle == Idle \in WalletCall /\ Idle.route = "none"
  BY DEF Idle, WalletCall

LEMMA IndividualCall ==
  ASSUME NEW call \in WalletCall, call.route = "individual"
  PROVE  call \in [route : {"individual"}, step : {"read", "credit", "record", "tell"},
                   rest : SUBSET Recipients, allowance : Allowances, to : Distributors \cup {None}, saw : Int]
  BY WalletIdle DEF WalletCall

LEMMA IndividualStep ==
  ASSUME NEW call \in WalletCall, call.route = "individual",
         NEW step \in {"read", "credit", "record", "tell"}
  PROVE  LET after == [call EXCEPT !.step = step] IN
         /\ after \in WalletCall
         /\ after.route = "individual" /\ after.step = step /\ after.to = call.to
         /\ after.allowance = call.allowance
  <1>. DEFINE after == [call EXCEPT !.step = step]
  <1>1. after \in [route : {"individual"}, step : {"read", "credit", "record", "tell"},
                   rest : SUBSET Recipients, allowance : Allowances, to : Distributors \cup {None}, saw : Int]
    BY IndividualCall
  <1>2. /\ after.route = "individual" /\ after.step = step /\ after.to = call.to
        /\ after.allowance = call.allowance
    BY IndividualCall
  <1>. HIDE DEF after
  <1>3. after \in WalletCall
    BY <1>1 DEF WalletCall
  <1>. QED  BY <1>2, <1>3 DEF after

LEMMA AllowanceIsInt == \A a \in Allowances : a \in Int
  BY WalletAssumption DEF Allowances

LEMMA WalletMoves ==
  ASSUME WalletRowsKept, NEW c \in Calls, NEW call \in WalletCall, Moves(c, call)
  PROVE  /\ calls' \in [Calls -> WalletCall] /\ calls' = [calls EXCEPT ![c] = call]
         /\ calls'[c] = call /\ \A d \in Calls \ {c} : calls'[d] = calls[d]
  BY DEF WalletRowsKept, Moves

LEMMA StillSends ==
  ASSUME WalletInv, NEW c \in Calls, NEW call \in WalletCall, Moves(c, call), SendsTo(call)
  PROVE  (\A d \in Calls : SendsTo(calls[d]))'
  <1>1. \A d \in Calls : SendsTo(calls'[d])
    BY WalletMoves DEF WalletInv
  <1>2. \A d \in Calls : SendsTo(calls[d])'
    BY <1>1 DEF SendsTo
  <1>. QED  BY <1>2

(* A handler that comes to owe nothing new leaves the count of who is told.  *)
LEMMA OwingShrinks ==
  ASSUME NEW cs, cs \in [Calls -> WalletCall], NEW c \in Calls, NEW call, NEW k, NEW ns, NEW ps,
         Owes(call, k) => Owes(cs[c], k), ToldOf(cs, ns, ps, k),
         Cardinality(RowsOf(ns, k)) \in Nat, Cardinality(RowsOf(ps, k)) \in Nat
  PROVE  ToldOf([cs EXCEPT ![c] = call], ns, ps, k)
  <1>. DEFINE ds == [cs EXCEPT ![c] = call]
  <1>1. Owing(ds, k) \in SUBSET Owing(cs, k)
    BY DEF Owing
  <1>. HIDE DEF ds
  <1>2. IsFiniteSet(Owing(cs, k))
    BY DEF ToldOf
  <1>3. IsFiniteSet(Owing(ds, k)) /\ Cardinality(Owing(ds, k)) <= Cardinality(Owing(cs, k))
    BY <1>1, <1>2, FS_Subset
  <1>4. Cardinality(Owing(ds, k)) \in Nat /\ Cardinality(Owing(cs, k)) \in Nat
    BY <1>2, <1>3, FS_CardinalityType
  <1>5. ToldOf(ds, ns, ps, k)
    BY <1>3, <1>4 DEF ToldOf
  <1>. QED  BY <1>5 DEF ds

LEMMA RowsCounted ==
  ASSUME NEW T, NEW s \in Seq(T), NEW k
  PROVE  IsFiniteSet(RowsOf(s, k)) /\ Cardinality(RowsOf(s, k)) \in Nat
  <1>1. Len(s) \in Nat
    OBVIOUS
  <1>2. IsFiniteSet(1..Len(s))
    BY <1>1, FS_Interval
  <1>3. RowsOf(s, k) \in SUBSET (1..Len(s))
    BY DEF RowsOf
  <1>4. IsFiniteSet(RowsOf(s, k))
    BY <1>2, <1>3, FS_Subset
  <1>. QED  BY <1>4, FS_CardinalityType

(* Another row counts once if it is the customer's and carries an allowance. *)
LEMMA RowsAppended ==
  ASSUME NEW T, NEW s \in Seq(T), NEW x \in T, NEW k
  PROVE  Cardinality(RowsOf(Append(s, x), k)) =
           IF x.customer = k /\ x.amount > 0 THEN Cardinality(RowsOf(s, k)) + 1 ELSE Cardinality(RowsOf(s, k))
  <1>. DEFINE t == Append(s, x)
              n == Len(s) + 1
  <1>1. Len(s) \in Nat /\ Len(t) = n /\ t[n] = x /\ \A i \in 1..Len(s) : t[i] = s[i]
    OBVIOUS
  <1>. HIDE DEF t
  <1>2. n \notin RowsOf(s, k)
    BY <1>1 DEF RowsOf
  <1>3. CASE x.customer = k /\ x.amount > 0
    <2>1. RowsOf(t, k) = RowsOf(s, k) \cup {n}
      BY <1>1, <1>3 DEF RowsOf
    <2>. HIDE DEF n
    <2>2. Cardinality(RowsOf(t, k)) = Cardinality(RowsOf(s, k)) + 1
      BY <1>2, <2>1, RowsCounted, FS_AddElement
    <2>. QED  BY <1>3, <2>2 DEF t
  <1>4. CASE ~(x.customer = k /\ x.amount > 0)
    <2>1. RowsOf(t, k) = RowsOf(s, k)
      BY <1>1, <1>4 DEF RowsOf
    <2>. QED  BY <1>4, <2>1 DEF t
  <1>. QED  BY <1>3, <1>4

(* A handler that moves and writes no row.                                   *)
LEMMA OnlyMoves ==
  ASSUME WalletInv, NEW c \in Calls, NEW call \in WalletCall, Moves(c, call), SendsTo(call),
         \A k \in Distributors : Owes(call, k) => Owes(calls[c], k),
         UNCHANGED <<stored, credit, today, payments, notices, base, outdated>>
  PROVE  WalletInv'
  <1>1. WalletRowsKept'
    BY WalletMoves DEF WalletInv, WalletRowsKept
  <1>2. (\A d \in Calls : SendsTo(calls[d]))'
    BY StillSends
  <1>3. (\A k \in Distributors : Balanced(k))'
    BY DEF WalletInv, Balanced
  <1>4. ASSUME NEW k \in Distributors  PROVE ToldOf(calls, notices, payments, k)'
    <2>1. calls' = [calls EXCEPT ![c] = call] /\ calls \in [Calls -> WalletCall]
      BY WalletMoves DEF WalletInv, WalletRowsKept
    <2>2. Cardinality(RowsOf(notices, k)) \in Nat /\ Cardinality(RowsOf(payments, k)) \in Nat
      BY RowsCounted DEF WalletInv, WalletRowsKept
    <2>3. ToldOf([calls EXCEPT ![c] = call], notices, payments, k)
      BY <2>1, <2>2, OwingShrinks DEF WalletInv
    <2>4. ToldOf(calls', notices', payments', k)
      BY <2>1, <2>3
    <2>. QED  BY <2>4 DEF ToldOf, Owing, Owes, RowsOf
  <1>. QED  BY <1>1, <1>2, <1>3, <1>4 DEF WalletInv

-----------------------------------------------------------------------------
(* One lemma per action.                                                     *)

LEMMA EndsKeep ==
  ASSUME WalletInv, NEW c \in Calls, Moves(c, Idle),
         UNCHANGED <<stored, credit, today, payments, notices, base, outdated>>
  PROVE  WalletInv'
  <1>1. Idle \in WalletCall /\ SendsTo(Idle) /\ \A k : ~Owes(Idle, k)
    BY WalletIdle DEF SendsTo, Owes
  <1>. QED  BY <1>1, OnlyMoves

LEMMA RegionalKeeps ==
  ASSUME WalletInv, NEW c \in Calls, NEW regions, NEW scope, sendRegional(c, regions, scope)
  PROVE  WalletInv'
  <1>. DEFINE all == {k \in Distributors : RegionOf[k] \in regions}
              call == [route |-> "regional", step |-> "tell", rest |-> all]
  <1>1. CASE all = {}
    BY <1>1, EndsKeep DEF sendRegional, Starts
  <1>2. CASE all # {}
    <2>1. Moves(c, call)
      BY <1>2 DEF sendRegional, Starts
    <2>2. call \in WalletCall
      BY DEF WalletCall
    <2>3. SendsTo(call) /\ \A k : ~Owes(call, k)
      BY DEF SendsTo, Owes
    <2>. HIDE DEF call
    <2>. QED  BY <2>1, <2>2, <2>3, OnlyMoves DEF sendRegional
  <1>. QED  BY <1>1, <1>2

LEMMA IndividualKeeps ==
  ASSUME WalletInv, NEW c \in Calls, NEW ks \in SUBSET Recipients, NEW a \in Allowances, NEW scope,
         sendIndividual(c, ks, a, scope)
  PROVE  WalletInv'
  <1>. DEFINE call == [route |-> "individual", step |-> "read", rest |-> ks, allowance |-> a,
                       to |-> None, saw |-> 0]
  <1>1. Moves(c, call)
    BY DEF sendIndividual, Starts
  <1>2. call \in WalletCall
    BY DEF WalletCall
  <1>3. SendsTo(call) /\ \A k : ~Owes(call, k)
    BY DEF SendsTo, Owes
  <1>. HIDE DEF call
  <1>. QED  BY <1>1, <1>2, <1>3, OnlyMoves DEF sendIndividual

LEMMA BroadcastReadKeeps ==
  ASSUME WalletInv, NEW c \in Calls, NEW k \in Recipients, SendRead(c, k)
  PROVE  WalletInv'
  <1>1. CASE k \notin Distributors
    BY <1>1, EndsKeep DEF SendRead
  <1>2. CASE k \in Distributors
    <2>. DEFINE step == IF calls[c].allowance > 0 THEN "credit" ELSE "record"
                call == [calls[c] EXCEPT !.step = step, !.rest = @ \ {k}, !.to = k, !.saw = stored[k]]
    <2>1. Moves(c, call)
      BY <1>2 DEF SendRead
    <2>2. calls[c] \in WalletCall /\ calls[c].route = "individual" /\ stored[k] \in Int
      BY <1>2 DEF WalletInv, WalletRowsKept, SendRead, At
    <2>3. step \in {"credit", "record"}
      OBVIOUS
    <2>. HIDE DEF step
    <2>31. call = [calls[c] EXCEPT !.step = step, !.rest = @ \ {k}, !.to = k, !.saw = stored[k]]
      OBVIOUS
    <2>. HIDE DEF call
    <2>4. /\ call \in WalletCall /\ call.route = "individual" /\ call.step = step /\ call.to = k
          /\ call.allowance = calls[c].allowance
      <3>1. calls[c] \in [route : {"individual"}, step : {"read", "credit", "record", "tell"},
                          rest : SUBSET Recipients, allowance : Allowances, to : Distributors \cup {None}, saw : Int]
        BY <2>2, IndividualCall
      <3>2. call \in [route : {"individual"}, step : {"read", "credit", "record", "tell"},
                      rest : SUBSET Recipients, allowance : Allowances, to : Distributors \cup {None}, saw : Int]
        BY <1>2, <2>2, <2>3, <2>31, <3>1
      <3>3. call.route = "individual" /\ call.step = step /\ call.to = k /\ call.allowance = calls[c].allowance
        BY <2>31, <3>1
      <3>4. call \in WalletCall
        BY <3>2 DEF WalletCall
      <3>. QED  BY <3>3, <3>4
    <2>5. SendsTo(call)
      BY <1>2, <2>4 DEF SendsTo, step
    <2>6. \A j : ~Owes(call, j)
      BY <2>4 DEF Owes, step
    <2>. QED  BY <2>1, <2>4, <2>5, <2>6, OnlyMoves DEF SendRead
  <1>. QED  BY <1>1, <1>2

LEMMA RecordKeeps ==
  ASSUME WalletInv, NEW c \in Calls, SendRecord(c)
  PROVE  WalletInv'
  <1>. DEFINE call == [calls[c] EXCEPT !.step = "tell"]
  <1>1. Moves(c, call)
    BY DEF SendRecord, Steps
  <1>2. calls[c] \in WalletCall /\ calls[c].route = "individual" /\ calls[c].step = "record"
    BY DEF WalletInv, WalletRowsKept, SendRecord, At
  <1>3. /\ call \in WalletCall /\ call.route = "individual" /\ call.step = "tell"
        /\ call.to = calls[c].to /\ call.allowance = calls[c].allowance
    BY <1>2, IndividualStep
  <1>. HIDE DEF call
  <1>4. SendsTo(call)
    BY <1>2, <1>3 DEF WalletInv, SendsTo
  <1>5. \A k : Owes(call, k) => Owes(calls[c], k)
    BY <1>2, <1>3 DEF Owes
  <1>. QED  BY <1>1, <1>3, <1>4, <1>5, OnlyMoves DEF SendRecord

LEMMA NoticesTold ==
  ASSUME WalletInv, NEW k \in Distributors, NEW amount \in Int, Tells(k, amount)
  PROVE  /\ notices' \in Seq(BroadcastNotice)
         /\ \A j : Cardinality(RowsOf(notices', j)) =
              IF j = k /\ amount > 0 THEN Cardinality(RowsOf(notices, j)) + 1 ELSE Cardinality(RowsOf(notices, j))
  <1>. DEFINE x == [customer |-> k, amount |-> amount]
  <1>1. x \in BroadcastNotice /\ x.customer = k /\ x.amount = amount
    BY DEF BroadcastNotice
  <1>2. notices \in Seq(BroadcastNotice) /\ notices' = Append(notices, x)
    BY DEF WalletInv, WalletRowsKept, Tells
  <1>. HIDE DEF x
  <1>3. notices' \in Seq(BroadcastNotice)
    BY <1>1, <1>2
  <1>4. ASSUME NEW j
        PROVE  Cardinality(RowsOf(notices', j)) =
                 IF x.customer = j /\ x.amount > 0 THEN Cardinality(RowsOf(notices, j)) + 1
                 ELSE Cardinality(RowsOf(notices, j))
    BY <1>1, <1>2, RowsAppended
  <1>. QED  BY <1>1, <1>3, <1>4

LEMMA RegionalTellKeeps ==
  ASSUME WalletInv, NEW c \in Calls, NEW k \in Distributors, RegionalTell(c, k)
  PROVE  WalletInv'
  <1>. DEFINE rest == calls[c].rest \ {k}
              call == IF rest = {} THEN Idle ELSE [calls[c] EXCEPT !.rest = rest]
  <1>1. Moves(c, call) /\ Tells(k, 0)
    BY DEF RegionalTell
  <1>2. calls[c] \in [route : {"regional"}, step : {"tell"}, rest : SUBSET Distributors]
    BY WalletIdle DEF WalletInv, WalletRowsKept, WalletCall, RegionalTell, At
  <1>3. call \in WalletCall /\ call.route # "individual"
    <2>1. [calls[c] EXCEPT !.rest = rest] \in [route : {"regional"}, step : {"tell"}, rest : SUBSET Distributors]
      BY <1>2
    <2>2. [calls[c] EXCEPT !.rest = rest] \in WalletCall
      BY <2>1 DEF WalletCall
    <2>3. [calls[c] EXCEPT !.rest = rest].route = "regional"
      BY <1>2
    <2>. QED  BY <2>2, <2>3, WalletIdle
  <1>. HIDE DEF call
  <1>4. SendsTo(call) /\ \A j : ~Owes(call, j)
    BY <1>3 DEF SendsTo, Owes
  <1>5. /\ notices' \in Seq(BroadcastNotice)
        /\ \A j : Cardinality(RowsOf(notices', j)) = Cardinality(RowsOf(notices, j))
    BY <1>1, NoticesTold
  <1>6. WalletRowsKept'
    BY <1>1, <1>3, <1>5, WalletMoves DEF WalletInv, WalletRowsKept, RegionalTell
  <1>7. (\A d \in Calls : SendsTo(calls[d]))'
    BY <1>1, <1>3, <1>4, StillSends
  <1>8. (\A j \in Distributors : Balanced(j))'
    BY DEF WalletInv, Balanced, RegionalTell
  <1>9. ASSUME NEW j \in Distributors  PROVE ToldOf(calls, notices, payments, j)'
    <2>1. calls' = [calls EXCEPT ![c] = call] /\ calls \in [Calls -> WalletCall]
      BY <1>1, <1>3, WalletMoves DEF WalletInv, WalletRowsKept
    <2>2. Cardinality(RowsOf(notices, j)) \in Nat /\ Cardinality(RowsOf(payments, j)) \in Nat
      BY RowsCounted DEF WalletInv, WalletRowsKept
    <2>3. ToldOf(calls', notices, payments, j)
      BY <1>4, <2>1, <2>2, OwingShrinks DEF WalletInv
    <2>4. ToldOf(calls', notices', payments', j)
      BY <1>5, <2>3 DEF ToldOf, RegionalTell
    <2>. QED  BY <2>4
  <1>. QED  BY <1>6, <1>7, <1>8, <1>9 DEF WalletInv

(* Who is told of an allowance was owed it.                                  *)
LEMMA TellKeeps ==
  ASSUME WalletInv, NEW c \in Calls, SendTell(c)
  PROVE  WalletInv'
  <1>. DEFINE k == calls[c].to
              amount == calls[c].allowance
              call == IF calls[c].rest = {} THEN Idle ELSE [calls[c] EXCEPT !.step = "read"]
  <1>1. calls[c] \in WalletCall /\ calls[c].route = "individual" /\ calls[c].step = "tell"
    BY DEF WalletInv, WalletRowsKept, SendTell, At
  <1>2. k \in Distributors /\ amount \in Int
    BY <1>1, IndividualCall, AllowanceIsInt DEF WalletInv, SendsTo
  <1>3. Moves(c, call) /\ Tells(k, amount)
    BY DEF SendTell
  <1>4. call \in WalletCall /\ (call.route # "individual" \/ call.step = "read")
    BY <1>1, IndividualStep, WalletIdle
  <1>5. \A j : Owes(calls[c], j) <=> (j = k /\ amount > 0)
    BY <1>1 DEF Owes
  <1>. HIDE DEF call, k, amount
  <1>6. SendsTo(call) /\ \A j : ~Owes(call, j)
    BY <1>4 DEF SendsTo, Owes
  <1>7. notices' \in Seq(BroadcastNotice)
    BY <1>2, <1>3, NoticesTold
  <1>8. WalletRowsKept'
    BY <1>3, <1>4, <1>7, WalletMoves DEF WalletInv, WalletRowsKept, SendTell
  <1>9. (\A d \in Calls : SendsTo(calls[d]))'
    BY <1>3, <1>4, <1>6, StillSends
  <1>10. (\A j \in Distributors : Balanced(j))'
    BY DEF WalletInv, Balanced, SendTell
  <1>11. ASSUME NEW j \in Distributors  PROVE ToldOf(calls, notices, payments, j)'
    <2>1. calls' = [calls EXCEPT ![c] = call] /\ calls \in [Calls -> WalletCall] /\ calls'[c] = call
      BY <1>3, <1>4, WalletMoves DEF WalletInv, WalletRowsKept
    <2>2. Cardinality(RowsOf(notices, j)) \in Nat /\ Cardinality(RowsOf(payments, j)) \in Nat
      BY RowsCounted DEF WalletInv, WalletRowsKept
    <2>3. Cardinality(RowsOf(notices', j)) =
            IF j = k /\ amount > 0 THEN Cardinality(RowsOf(notices, j)) + 1 ELSE Cardinality(RowsOf(notices, j))
      BY <1>2, <1>3, NoticesTold
    <2>4. CASE j = k /\ amount > 0
      <3>1. c \in Owing(calls, j)
        BY <1>5, <2>4 DEF Owing
      <3>2. Owing(calls', j) \in SUBSET (Owing(calls, j) \ {c})
        BY <1>6, <2>1 DEF Owing
      <3>3. ToldOf(calls, notices, payments, j)
        BY DEF WalletInv
      <3>4. IsFiniteSet(Owing(calls, j))
        BY <3>3 DEF ToldOf
      <3>5. IsFiniteSet(Owing(calls, j) \ {c}) /\ Cardinality(Owing(calls, j) \ {c}) = Cardinality(Owing(calls, j)) - 1
        BY <3>1, <3>4, FS_RemoveElement
      <3>6. IsFiniteSet(Owing(calls', j)) /\ Cardinality(Owing(calls', j)) <= Cardinality(Owing(calls, j)) - 1
        BY <3>2, <3>5, FS_Subset
      <3>7. Cardinality(Owing(calls', j)) \in Nat /\ Cardinality(Owing(calls, j)) \in Nat
        BY <3>4, <3>6, FS_CardinalityType
      <3>8. Cardinality(RowsOf(notices', j)) = Cardinality(RowsOf(notices, j)) + 1
        BY <2>3, <2>4
      <3>9. Cardinality(RowsOf(notices', j)) + Cardinality(Owing(calls', j)) <= Cardinality(RowsOf(payments, j))
        BY <2>2, <3>3, <3>6, <3>7, <3>8 DEF ToldOf
      <3>10. ToldOf(calls', notices', payments', j)
        BY <3>6, <3>9 DEF ToldOf, SendTell
      <3>. QED  BY <3>10
    <2>5. CASE ~(j = k /\ amount > 0)
      <3>1. ToldOf(calls', notices, payments, j)
        BY <1>6, <2>1, <2>2, OwingShrinks DEF WalletInv
      <3>2. Cardinality(RowsOf(notices', j)) = Cardinality(RowsOf(notices, j))
        BY <2>3, <2>5
      <3>3. ToldOf(calls', notices', payments', j)
        BY <3>1, <3>2 DEF ToldOf, SendTell
      <3>. QED  BY <3>3
    <2>. QED  BY <2>4, <2>5
  <1>. QED  BY <1>8, <1>9, <1>10, <1>11 DEF WalletInv

(* The payment of an allowance puts it in the balance, unless the balance is *)
(* no longer the one that was read; the customer is owed the notice of it.   *)
LEMMA CreditKeeps ==
  ASSUME WalletInv, NEW c \in Calls, SendCredit(c)
  PROVE  WalletInv'
  <1>. DEFINE k == calls[c].to
              amount == calls[c].allowance
              x == [customer |-> k, amount |-> amount, running |-> newBalance(calls[c])]
              call == [calls[c] EXCEPT !.step = "record"]
  <1>1. calls[c] \in WalletCall /\ calls[c].route = "individual" /\ calls[c].step = "credit"
    BY DEF WalletInv, WalletRowsKept, SendCredit, At
  <1>2. k \in Distributors /\ amount \in Int /\ amount > 0 /\ calls[c].saw \in Int
    BY <1>1, IndividualCall, AllowanceIsInt DEF WalletInv, SendsTo
  <1>3. /\ stored' = [stored EXCEPT ![k] = newBalance(calls[c])]
        /\ payments' = Append(payments, x)
        /\ outdated' = IF stored[k] # calls[c].saw THEN outdated \cup {k} ELSE outdated
        /\ UNCHANGED <<credit, today, notices, base>>
    BY DEF SendCredit
  <1>4. Moves(c, call)
    BY DEF SendCredit, Steps
  <1>5. newBalance(calls[c]) = calls[c].saw + amount /\ newBalance(calls[c]) \in Int
    BY <1>2 DEF newBalance
  <1>6. x \in Payment /\ x.customer = k /\ x.amount = amount
    BY <1>2, <1>5 DEF Payment
  <1>7. /\ call \in WalletCall /\ call.route = "individual" /\ call.step = "record"
        /\ call.to = k /\ call.allowance = amount
    BY <1>1, IndividualStep
  <1>8. \A j : ~Owes(calls[c], j)
    BY <1>1 DEF Owes
  <1>. HIDE DEF call, k, amount, x
  <1>9. SendsTo(call) /\ \A j : Owes(call, j) <=> j = k
    BY <1>2, <1>7 DEF SendsTo, Owes
  <1>10. payments \in Seq(Payment) /\ payments' \in Seq(Payment)
    BY <1>3, <1>6 DEF WalletInv, WalletRowsKept
  <1>11. WalletRowsKept'
    <2>1. calls' \in [Calls -> WalletCall]
      BY <1>4, <1>7, WalletMoves DEF WalletInv
    <2>2. stored' \in [Distributors -> Int] /\ outdated' \subseteq Distributors
      BY <1>2, <1>3, <1>5 DEF WalletInv, WalletRowsKept
    <2>. QED  BY <1>3, <1>10, <2>1, <2>2 DEF WalletInv, WalletRowsKept
  <1>12. (\A d \in Calls : SendsTo(calls[d]))'
    BY <1>4, <1>7, <1>9, StillSends
  <1>13. ASSUME NEW j \in Distributors  PROVE Balanced(j)'
    <2>. DEFINE n == Len(payments) + 1
                S == SinceIn(payments, base[j][2], j)
    <2>1. base[j][1] \in Int /\ base[j][2] \in Nat /\ base[j][2] <= Len(payments) /\ base'[j] = base[j]
      BY <1>3 DEF WalletInv, WalletRowsKept, Balanced
    <2>2. /\ Len(payments) \in Nat /\ Len(payments') = n /\ payments'[n] = x
          /\ \A i \in 1..Len(payments) : payments'[i] = payments[i]
      BY <1>3, <1>6, <1>10, AppendPayment
    <2>3. S \in SUBSET (1..Len(payments))
      BY DEF SinceIn
    <2>4. base'[j][2] <= Len(payments')
      BY <2>1, <2>2
    <2>5. ASSUME j \notin outdated'
          PROVE  stored'[j] = base'[j][1] + WalletPaid(payments', SinceIn(payments', base'[j][2], j))
      <3>1. j \notin outdated
        BY <1>3, <2>5
      <3>2. stored[j] = base[j][1] + WalletPaid(payments, S) /\ WalletPaid(payments, S) \in Int
        BY <1>10, <2>3, <3>1, PaidIsInt DEF WalletInv, Balanced
      <3>3. CASE j = k
        <4>1. stored[k] = calls[c].saw
          BY <1>3, <2>5, <3>3
        <4>2. stored'[j] = calls[c].saw + amount
          BY <1>2, <1>3, <1>5, <3>3 DEF WalletInv, WalletRowsKept
        <4>3. SinceIn(payments', base'[j][2], j) = S \cup {n}
          BY <1>6, <2>1, <2>2, <3>3 DEF SinceIn
        <4>4. WalletPaid(payments', S \cup {n}) = amount + WalletPaid(payments, S)
          BY <1>3, <1>6, <1>10, <2>3, PaidWith
        <4>5. \A b, s, p, a : /\ b \in Int /\ p \in Int /\ a \in Int /\ s = b + p
                               => s + a = b + (a + p)
          OBVIOUS
        <4>6. WalletPaid(payments', SinceIn(payments', base'[j][2], j)) = amount + WalletPaid(payments, S)
          BY <4>3, <4>4
        <4>7. calls[c].saw = base[j][1] + WalletPaid(payments, S)
          BY <3>2, <3>3, <4>1
        <4>. HIDE DEF S
        <4>8. calls[c].saw + amount = base[j][1] + (amount + WalletPaid(payments, S))
          BY <1>2, <2>1, <3>2, <4>5, <4>7
        <4>. QED  BY <2>1, <4>2, <4>6, <4>8
      <3>4. CASE j # k
        <4>1. stored'[j] = stored[j]
          BY <1>3, <3>4 DEF WalletInv, WalletRowsKept
        <4>2. SinceIn(payments', base'[j][2], j) = S
          BY <1>6, <2>1, <2>2, <3>4 DEF SinceIn
        <4>3. WalletPaid(payments', S) = WalletPaid(payments, S)
          BY <1>3, <1>6, <1>10, <2>3, PaidBefore
        <4>. QED  BY <2>1, <3>2, <4>1, <4>2, <4>3
      <3>. QED  BY <3>3, <3>4
    <2>. QED  BY <2>4, <2>5 DEF Balanced
  <1>14. ASSUME NEW j \in Distributors  PROVE ToldOf(calls, notices, payments, j)'
    <2>1. calls' = [calls EXCEPT ![c] = call] /\ calls \in [Calls -> WalletCall] /\ calls'[c] = call
      BY <1>4, <1>7, WalletMoves DEF WalletInv, WalletRowsKept
    <2>2. Cardinality(RowsOf(notices, j)) \in Nat /\ Cardinality(RowsOf(payments, j)) \in Nat
      BY RowsCounted DEF WalletInv, WalletRowsKept
    <2>3. Cardinality(RowsOf(payments', j)) =
            IF j = k THEN Cardinality(RowsOf(payments, j)) + 1 ELSE Cardinality(RowsOf(payments, j))
      <3>1. Cardinality(RowsOf(Append(payments, x), j)) =
              IF x.customer = j /\ x.amount > 0 THEN Cardinality(RowsOf(payments, j)) + 1
              ELSE Cardinality(RowsOf(payments, j))
        BY <1>6, <1>10, RowsAppended
      <3>. QED  BY <1>2, <1>3, <1>6, <3>1
    <2>4. CASE j = k
      <3>1. Owing(calls', j) \in SUBSET (Owing(calls, j) \cup {c})
        BY <2>1 DEF Owing
      <3>2. ToldOf(calls, notices, payments, j)
        BY DEF WalletInv
      <3>3. IsFiniteSet(Owing(calls, j)) /\ c \notin Owing(calls, j)
        BY <1>8, <3>2 DEF ToldOf, Owing
      <3>4. IsFiniteSet(Owing(calls, j) \cup {c}) /\ Cardinality(Owing(calls, j) \cup {c}) = Cardinality(Owing(calls, j)) + 1
        BY <3>3, FS_AddElement
      <3>5. IsFiniteSet(Owing(calls', j)) /\ Cardinality(Owing(calls', j)) <= Cardinality(Owing(calls, j)) + 1
        BY <3>1, <3>4, FS_Subset
      <3>6. Cardinality(Owing(calls', j)) \in Nat /\ Cardinality(Owing(calls, j)) \in Nat
        BY <3>3, <3>5, FS_CardinalityType
      <3>7. Cardinality(RowsOf(payments', j)) = Cardinality(RowsOf(payments, j)) + 1
        BY <2>3, <2>4
      <3>8. Cardinality(RowsOf(notices, j)) + Cardinality(Owing(calls', j)) <= Cardinality(RowsOf(payments', j))
        BY <2>2, <3>2, <3>5, <3>6, <3>7 DEF ToldOf
      <3>9. ToldOf(calls', notices', payments', j)
        BY <1>3, <3>5, <3>8 DEF ToldOf
      <3>. QED  BY <3>9
    <2>5. CASE j # k
      <3>1. ToldOf(calls', notices, payments, j)
        BY <1>9, <2>1, <2>2, <2>5, OwingShrinks DEF WalletInv
      <3>2. Cardinality(RowsOf(payments', j)) = Cardinality(RowsOf(payments, j))
        BY <2>3, <2>5
      <3>3. ToldOf(calls', notices', payments', j)
        BY <1>3, <3>1, <3>2 DEF ToldOf
      <3>. QED  BY <3>3
    <2>. QED  BY <2>4, <2>5
  <1>. QED  BY <1>11, <1>12, <1>13, <1>14 DEF WalletInv

(* What the ERP writes is the balance, and no payment came since.            *)
LEMMA RebasedBalance ==
  ASSUME NEW k, NEW ps \in Seq(Payment)
  PROVE  WalletPaid(ps, SinceIn(ps, Len(ps), k)) = 0
  <1>1. Len(ps) \in Nat
    OBVIOUS
  <1>2. SinceIn(ps, Len(ps), k) = {}
    BY <1>1 DEF SinceIn
  <1>. QED  BY <1>2, PaidNothing

(* A step that writes balances as the ERP's, and nothing else.               *)
LEMMA RebasesKeep ==
  ASSUME WalletInv, NEW moved \in SUBSET Distributors, NEW bal, \A k \in moved : bal[k] \in Int,
         stored' = [k \in Distributors |-> IF k \in moved THEN bal[k] ELSE stored[k]],
         base' = [k \in Distributors |-> IF k \in moved THEN <<bal[k], Len(payments)>> ELSE base[k]],
         outdated' = outdated \ moved,
         UNCHANGED <<calls, credit, payments, notices>>
  PROVE  WalletInv'
  <1>1. payments \in Seq(Payment) /\ Len(payments) \in Nat
    BY DEF WalletInv, WalletRowsKept
  <1>2. WalletRowsKept'
    BY <1>1 DEF WalletInv, WalletRowsKept
  <1>3. ASSUME NEW k \in Distributors  PROVE Balanced(k)'
    <2>1. CASE k \in moved
      <3>1. stored'[k] = bal[k] /\ base'[k] = <<bal[k], Len(payments)>> /\ bal[k] \in Int
        BY <2>1
      <3>2. WalletPaid(payments, SinceIn(payments, Len(payments), k)) = 0
        BY <1>1, RebasedBalance
      <3>3. base'[k][2] <= Len(payments')
        BY <1>1, <3>1
      <3>4. stored'[k] = base'[k][1] + WalletPaid(payments', SinceIn(payments', base'[k][2], k))
        BY <3>1, <3>2
      <3>. QED  BY <3>3, <3>4 DEF Balanced
    <2>2. CASE k \notin moved
      <3>1. stored'[k] = stored[k] /\ base'[k] = base[k] /\ (k \in outdated' <=> k \in outdated)
        BY <2>2
      <3>2. Balanced(k)
        BY DEF WalletInv
      <3>. QED  BY <3>1, <3>2 DEF Balanced
    <2>. QED  BY <2>1, <2>2
  <1>4. (\A c \in Calls : SendsTo(calls[c]))'
    BY DEF WalletInv, SendsTo
  <1>5. ASSUME NEW k \in Distributors  PROVE ToldOf(calls, notices, payments, k)'
    BY DEF WalletInv
  <1>. QED  BY <1>2, <1>3, <1>4, <1>5 DEF WalletInv

LEMMA WebhookKeeps ==
  ASSUME WalletInv, NEW k \in Distributors, NEW amount \in Amounts, syncBalance(k, amount)
  PROVE  WalletInv'
  <1>. DEFINE bal == [j \in {k} |-> amount]
  <1>1. {k} \in SUBSET Distributors /\ \A j \in {k} : bal[j] \in Int
    BY WalletAssumption
  <1>2. /\ stored' = [j \in Distributors |-> IF j \in {k} THEN bal[j] ELSE stored[j]]
        /\ base' = [j \in Distributors |-> IF j \in {k} THEN <<bal[j], Len(payments)>> ELSE base[j]]
    BY DEF WalletInv, WalletRowsKept, syncBalance
  <1>. HIDE DEF bal
  <1>. QED  BY <1>1, <1>2, RebasesKeep DEF syncBalance

LEMMA ReconcileKeeps ==
  ASSUME WalletInv, ReconcileBalances
  PROVE  WalletInv'
  <1>. DEFINE moved == {k \in Distributors : credit[k] # {} /\ stored[k] # runningBalance(credit[k])}
              bal == [k \in moved |-> runningBalance(credit[k])]
  <1>1. moved \in SUBSET Distributors
    OBVIOUS
  <1>2. \A k \in moved : bal[k] \in Int
    BY BalanceIsInt DEF WalletInv, WalletRowsKept
  <1>3. /\ stored' = [k \in Distributors |-> IF k \in moved THEN bal[k] ELSE stored[k]]
        /\ base' = [k \in Distributors |-> IF k \in moved THEN <<bal[k], Len(payments)>> ELSE base[k]]
        /\ outdated' = outdated \ moved /\ UNCHANGED <<calls, credit, payments, notices>>
    BY DEF ReconcileBalances
  <1>. HIDE DEF bal, moved
  <1>. QED  BY <1>1, <1>2, <1>3, RebasesKeep

LEMMA FeedKeeps ==
  ASSUME WalletInv,
         UNCHANGED <<calls, stored, payments, notices, base, outdated>>,
         credit' \in [Distributors -> SUBSET CreditRows]
  PROVE  WalletInv'
  <1>1. WalletRowsKept'
    BY DEF WalletInv, WalletRowsKept
  <1>2. (\A c \in Calls : SendsTo(calls[c]))'
    BY DEF WalletInv, SendsTo
  <1>3. (\A k \in Distributors : Balanced(k))'
    BY DEF WalletInv, Balanced
  <1>4. ASSUME NEW k \in Distributors  PROVE ToldOf(calls, notices, payments, k)'
    BY DEF WalletInv
  <1>. QED  BY <1>1, <1>2, <1>3, <1>4 DEF WalletInv

-----------------------------------------------------------------------------
LEMMA WalletInitially == WalletInit => WalletInv
  <1>. SUFFICES ASSUME WalletInit  PROVE WalletInv
    OBVIOUS
  <1>1. payments = <<>> /\ notices = <<>> /\ \A c \in Calls : calls[c] = Idle
    BY DEF WalletInit
  <1>2. WalletRowsKept
    BY WalletIdle DEF WalletInit, WalletRowsKept
  <1>3. \A c \in Calls : SendsTo(calls[c])
    BY <1>1, WalletIdle DEF SendsTo
  <1>4. ASSUME NEW k \in Distributors  PROVE Balanced(k)
    <2>1. stored[k] = 0 /\ base[k] = <<0, 0>>
      BY DEF WalletInit
    <2>2. SinceIn(payments, 0, k) = {}
      BY <1>1 DEF SinceIn
    <2>3. WalletPaid(payments, SinceIn(payments, base[k][2], k)) = 0
      BY <2>1, <2>2, PaidNothing
    <2>4. Len(payments) = 0
      BY <1>1
    <2>. QED  BY <2>1, <2>3, <2>4 DEF Balanced
  <1>5. ASSUME NEW k \in Distributors  PROVE ToldOf(calls, notices, payments, k)
    <2>1. Owing(calls, k) = {}
      BY <1>1, WalletIdle DEF Owing, Owes
    <2>2. RowsOf(notices, k) = {} /\ RowsOf(payments, k) = {}
      BY <1>1 DEF RowsOf
    <2>. QED  BY <2>1, <2>2, FS_EmptySet DEF ToldOf
  <1>. QED  BY <1>2, <1>3, <1>4, <1>5 DEF WalletInv

LEMMA WalletStep == WalletInv /\ [WalletNext]_walletVars => WalletInv'
  <1>. SUFFICES ASSUME WalletInv, [WalletNext]_walletVars  PROVE WalletInv'
    OBVIOUS
  <1>1. ASSUME NEW c \in Calls, NEW scope \in CallerScope, NEW regions \in SUBSET Regions,
               sendRegional(c, regions, scope)
        PROVE  WalletInv'
    BY <1>1, RegionalKeeps
  <1>2. ASSUME NEW c \in Calls, NEW scope \in CallerScope, NEW ks \in SUBSET Recipients, NEW a \in Allowances,
               sendIndividual(c, ks, a, scope)
        PROVE  WalletInv'
    BY <1>2, IndividualKeeps
  <1>3. ASSUME NEW c \in Calls, SendSteps(c)  PROVE WalletInv'
    BY <1>3, BroadcastReadKeeps, RegionalTellKeeps, CreditKeeps, RecordKeeps, TellKeeps DEF SendSteps
  <1>4. ASSUME NEW c \in Calls, SendThrows(c)  PROVE WalletInv'
    BY <1>4, EndsKeep DEF SendThrows, Ends
  <1>5. ASSUME NEW k \in Distributors, NEW a \in Amounts, syncBalance(k, a)  PROVE WalletInv'
    BY <1>5, WebhookKeeps
  <1>6. ASSUME NEW k \in Distributors, NEW held \in SUBSET CreditRows, Ingest(k, held)  PROVE WalletInv'
    <2>1. credit' \in [Distributors -> SUBSET CreditRows]
      BY <1>6 DEF WalletInv, WalletRowsKept, Ingest
    <2>. QED  BY <1>6, <2>1, FeedKeeps DEF Ingest
  <1>7. CASE ReconcileBalances
    BY <1>7, ReconcileKeeps
  <1>8. CASE Midnight \/ UNCHANGED walletVars
    <2>1. credit' \in [Distributors -> SUBSET CreditRows]
      BY <1>8 DEF WalletInv, WalletRowsKept, Midnight, walletVars
    <2>. QED  BY <1>8, <2>1, FeedKeeps DEF Midnight, walletVars
  <1>. QED  BY <1>1, <1>2, <1>3, <1>4, <1>5, <1>6, <1>7, <1>8 DEF WalletNext

(* Every handler knows whom it owes a notice, and the books balance, in      *)
(* every behaviour of the broadcasts, the webhook and the reconciler.        *)
THEOREM WalletInvariance == WalletSpec => []WalletInv
  BY WalletInitially, WalletStep, PTL DEF WalletSpec

(* The balance of a distributor is what the ERP last wrote plus what was     *)
(* paid since, unless a payment was made on an outdated balance; and nobody  *)
(* is told of more allowances than were paid.                                *)
THEOREM AllowancesAreInTheBalance == WalletSpec => []AllowanceIsInTheBalance
  <1>1. WalletInv => AllowanceIsInTheBalance
    <2>. SUFFICES ASSUME WalletInv  PROVE AllowanceIsInTheBalance
      OBVIOUS
    <2>1. ASSUME NEW k \in Distributors \ outdated
          PROVE  stored[k] = base[k][1] + MapThenSumSet(LAMBDA i : payments[i].amount, Since(k))
      <3>1. stored[k] = base[k][1] + WalletPaid(payments, SinceIn(payments, base[k][2], k))
        BY DEF WalletInv, Balanced
      <3>2. Since(k) = SinceIn(payments, base[k][2], k)
        BY DEF Since, SinceIn
      <3>3. stored[k] = base[k][1] + WalletPaid(payments, Since(k))
        BY <3>1, <3>2
      <3>. QED  BY <3>3 DEF WalletPaid
    <2>2. ASSUME NEW k \in Distributors
          PROVE  Cardinality(RowsOf(notices, k)) <= Cardinality(RowsOf(payments, k))
      <3>1. ToldOf(calls, notices, payments, k)
        BY DEF WalletInv
      <3>2. Cardinality(RowsOf(notices, k)) \in Nat /\ Cardinality(RowsOf(payments, k)) \in Nat
        BY RowsCounted DEF WalletInv, WalletRowsKept
      <3>3. Cardinality(Owing(calls, k)) \in Nat
        BY <3>1, FS_CardinalityType DEF ToldOf
      <3>. QED  BY <3>1, <3>2, <3>3 DEF ToldOf
    <2>. QED  BY <2>1, <2>2 DEF AllowanceIsInTheBalance, RowsOf
  <1>. QED  BY <1>1, WalletInvariance, PTL

-----------------------------------------------------------------------------
(* The components side by side.                                              *)

LEMMA FirstDay == WalletInit => today \in Days
  BY WalletAssumption DEF WalletInit

LEMMA DayStep == today \in Days /\ [WalletNext]_walletVars => today' \in Days
  BY DEF WalletNext, walletVars, sendRegional, sendIndividual, SendSteps, SendThrows, SendRead,
         RegionalTell, SendCredit, SendRecord, SendTell, syncBalance, Ingest, ReconcileBalances, Midnight

LEMMA BellInitially == NotificationInit => BellTypes
  BY NotificationAssumption DEF NotificationInit, BellTypes

(* The component at work keeps its invariant.                                *)
ServiceInv ==
  /\ live \in Components
  /\ live = "sessions"      => SessionIndInv
  /\ live = "passwords"     => PasswordIndInv
  /\ live = "codes"         => CodeInv
  /\ live = "wallet"        => WalletInv /\ today \in Days
  /\ live = "chat"          => ChatInv
  /\ live = "tickets"       => TicketInv
  /\ live = "notifications" => NoticeIndInv /\ BellTypes
  /\ live = "staff"         => AccountIndInv
  /\ live = "flyers"        => FlyerInv
  /\ live = "contact"       => ContactInv

(* What a step of the services is for the component at work.                 *)
LEMMA StepsOfOne ==
  ASSUME live \in Components, [ServiceNext]_serviceVars
  PROVE  /\ live' = live
         /\ live = "sessions"      => [SessionNext]_sessionVars
         /\ live = "passwords"     => [PasswordNext]_passwordVars
         /\ live = "codes"         => [CodeNext]_codeVars
         /\ live = "wallet"        => [WalletNext]_walletVars
         /\ live = "chat"          => [ChatNext]_chatVars
         /\ live = "tickets"       => [TicketNext]_ticketVars
         /\ live = "notifications" => [NotificationNext]_notificationVars
         /\ live = "staff"         => [StaffNext]_staffVars
         /\ live = "flyers"        => [FlyerNext]_flyerVars
         /\ live = "contact"       => [ContactNext]_contactVars
  <1>1. CASE UNCHANGED serviceVars
    <2>1. /\ UNCHANGED <<calls, live, team, staffRows>>
          /\ UNCHANGED SessionRows /\ UNCHANGED PasswordRows /\ UNCHANGED CodeRows
          /\ UNCHANGED WalletRows /\ UNCHANGED ChatRows /\ UNCHANGED TicketRows
          /\ UNCHANGED NotificationRows /\ UNCHANGED FlyerRows /\ UNCHANGED ContactRows
      BY <1>1 DEF serviceVars
    <2>. QED
      BY <2>1 DEF sessionVars, SessionRows, passwordVars, PasswordRows, codeVars, CodeRows,
                  walletVars, WalletRows, chatVars, ChatRows, ticketVars, TicketRows,
                  notificationVars, NotificationRows, staffVars, flyerVars, FlyerRows,
                  contactVars, ContactRows
  <1>2. CASE ServiceNext
    BY <1>2 DEF ServiceNext, Others
  <1>. QED  BY <1>1, <1>2

LEMMA ServicesInitially == ServiceInit => ServiceInv
  BY SessionInitially, PasswordInitially, CodeInitially, WalletInitially, FirstDay,
     ChatInitially, TicketInitially, NoticeInitially, BellInitially,
     AccountInitially, FlyerInitially, ContactInitially DEF ServiceInit, ServiceInv

LEMMA ServicesStep == ServiceInv /\ [ServiceNext]_serviceVars => ServiceInv'
  <1>. SUFFICES ASSUME ServiceInv, [ServiceNext]_serviceVars  PROVE ServiceInv'
    OBVIOUS
  <1>0. live \in Components /\ live' = live
    BY StepsOfOne DEF ServiceInv
  <1>1. live = "sessions" => SessionIndInv'
    BY StepsOfOne, SessionStep DEF ServiceInv
  <1>2. live = "passwords" => PasswordIndInv'
    BY StepsOfOne, PasswordStep DEF ServiceInv
  <1>3. live = "codes" => CodeInv'
    BY StepsOfOne, CodeStep DEF ServiceInv
  <1>4. live = "wallet" => WalletInv' /\ today' \in Days
    BY StepsOfOne, WalletStep, DayStep DEF ServiceInv
  <1>5. live = "chat" => ChatInv'
    BY StepsOfOne, ChatStep DEF ServiceInv
  <1>6. live = "tickets" => TicketInv'
    BY StepsOfOne, TicketStep DEF ServiceInv
  <1>7. live = "notifications" => NoticeIndInv' /\ BellTypes'
    BY StepsOfOne, NoticeStep, BellStep DEF ServiceInv
  <1>8. live = "staff" => AccountIndInv'
    BY StepsOfOne, AccountStep DEF ServiceInv
  <1>9. live = "flyers" => FlyerInv'
    BY StepsOfOne, FlyerStep DEF ServiceInv
  <1>10. live = "contact" => ContactInv'
    BY StepsOfOne, ContactStep DEF ServiceInv
  <1>. QED  BY <1>0, <1>1, <1>2, <1>3, <1>4, <1>5, <1>6, <1>7, <1>8, <1>9, <1>10 DEF ServiceInv

LEMMA ServicesTyped == ServiceInv => ServiceTypes
  <1>. SUFFICES ASSUME ServiceInv  PROVE ServiceTypes
    OBVIOUS
  <1>1. live = "sessions" => SessionTypes
    BY DEF ServiceInv, SessionIndInv
  <1>2. live = "passwords" => PasswordTypes
    BY DEF ServiceInv, PasswordIndInv
  <1>3. live = "codes" => CodeTypes
    BY DEF ServiceInv, CodeInv
  <1>4. live = "wallet" => WalletTypes
    BY DEF ServiceInv, WalletInv, WalletRowsKept, WalletTypes
  <1>5. live = "chat" => ChatTypes
    BY DEF ServiceInv, ChatInv
  <1>6. live = "tickets" => TicketTypes
    BY DEF ServiceInv, TicketInv
  <1>7. live = "notifications" => NotificationTypes
    BY NoticeTypes DEF ServiceInv
  <1>8. live = "staff" => StaffTypes
    BY DEF ServiceInv, AccountIndInv
  <1>9. live = "flyers" => FlyerTypes
    BY DEF ServiceInv, FlyerInv
  <1>10. live = "contact" => ContactTypes
    BY DEF ServiceInv, ContactInv
  <1>. QED  BY <1>1, <1>2, <1>3, <1>4, <1>5, <1>6, <1>7, <1>8, <1>9, <1>10 DEF ServiceInv, ServiceTypes, Components

(* Every row and every handler of the component at work keeps its type,      *)
(* whichever component it is and whatever the sets its constants name.       *)
THEOREM ServicesKeepTypes == ServiceSpec => []ServiceTypes
  BY ServicesInitially, ServicesStep, ServicesTyped, PTL DEF ServiceSpec
=============================================================================
