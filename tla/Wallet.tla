------------------------------- MODULE Wallet -------------------------------
(***************************************************************************)
(* A distributor's balance.  It is kept in Customer.outstandingBalance,    *)
(* which broadcasts with an allowance (modules/broadcast/                  *)
(* broadcast.service.ts), the ERP's webhook (modules/erp/erp.service.ts),  *)
(* its projector and the reconciler (modules/erp/                          *)
(* erp-account-balance.service.ts) all write; and it is derived from the   *)
(* ERP's credit feed (modules/erp/account-balance.ts) whenever it is shown.*)
(*                                                                         *)
(* Left out: the wording of a broadcast, and its history screens.          *)
(***************************************************************************)
EXTENDS Scopes, Integers, FiniteSetsExt, SequencesExt

CONSTANTS
  Distributors,
  Recipients,         \* the ids an admin sends to, some of nobody
  RegionOf,           \* the region of each distributor
  CreditRows,         \* rows the credit feed may hold: [id, amt, amt1, pay, from, to]
  Days,
  Amounts,            \* allowances, and balances the ERP writes
  MaxPayments, MaxNotices

ASSUME WalletAssumption ==
  /\ Distributors \subseteq Recipients
  /\ RegionOf \in [Distributors -> Regions]
  /\ Amounts \subseteq Int /\ Days \subseteq Int /\ \E d \in Days : \A e \in Days : d <= e
  /\ MaxPayments \in Nat /\ MaxNotices \in Nat
  /\ IsFiniteSet(CreditRows) /\ \A r \in CreditRows : {r.id, r.amt, r.amt1, r.pay, r.from, r.to} \subseteq Int
  /\ None \notin Recipients \cup Regions \cup Int

VARIABLES
  stored,       \* Customer.outstandingBalance
  credit,       \* the customer's rows of erp_raw.raw_customer_credit
  today,
  payments,     \* the Payment rows, oldest first
  notices,      \* the notifications of broadcasts, oldest first
  base,         \* history: what the ERP last wrote, and after which payment
  outdated      \* history: customers credited on an outdated balance

walletVars == <<calls, stored, credit, today, payments, notices, base, outdated>>

Allowances == {a \in Amounts : a > 0} \cup {0}
Payment == [customer : Distributors, amount : Int, running : Int]
BroadcastNotice == [customer : Distributors, amount : Int]

WalletCall ==
  {Idle}
  \cup [route : {"regional"}, step : {"tell"}, rest : SUBSET Distributors]
  \cup [route : {"individual"}, step : {"read", "credit", "record", "tell"}, rest : SUBSET Recipients,
        allowance : Allowances, to : Distributors \cup {None}, saw : Int]

WalletTypes ==
  /\ calls \in [Calls -> WalletCall]
  /\ stored \in [Distributors -> Int] /\ credit \in [Distributors -> SUBSET CreditRows]
  /\ today \in Days
  /\ payments \in Seq(Payment) /\ notices \in Seq(BroadcastNotice)
  /\ base \in [Distributors -> Int \X Nat] /\ outdated \subseteq Distributors

WalletInit ==
  /\ calls = [c \in Calls |-> Idle]
  /\ stored = [k \in Distributors |-> 0]
  /\ credit = [k \in Distributors |-> {}]
  /\ today = CHOOSE d \in Days : \A e \in Days : d <= e
  /\ payments = <<>> /\ notices = <<>>
  /\ base = [k \in Distributors |-> <<0, 0>>] /\ outdated = {}

-----------------------------------------------------------------------------
(* The derivation.  The governing record is the newest by EFFECTIVE_DATE,    *)
(* the id breaking ties; a supplementary grant counts while its window       *)
(* contains today, on whichever record it is.                                *)

Governing(rows) ==
  CHOOSE r \in rows : \A s \in rows :
    s.from < r.from \/ (s.from = r.from /\ s.id <= r.id)

InForce(r) == r.from <= today /\ today <= r.to

temporaryCredit(rows) == MapThenSumSet(LAMBDA r : r.amt1, {r \in rows : InForce(r)})

runningBalance(rows) ==
  Governing(rows).amt - Governing(rows).pay + temporaryCredit(rows)

(* ERP_ACCOUNT_BALANCE_RECONCILE_SQL: one statement over all customers; one  *)
(* without a record keeps its balance.                                       *)
ReconcileBalances ==
  LET moved == {k \in Distributors : credit[k] # {} /\ stored[k] # runningBalance(credit[k])} IN
  /\ moved # {}
  /\ stored' = [k \in Distributors |-> IF k \in moved THEN runningBalance(credit[k]) ELSE stored[k]]
  /\ base' = [k \in Distributors |->
       IF k \in moved THEN <<runningBalance(credit[k]), Len(payments)>> ELSE base[k]]
  /\ outdated' = outdated \ moved
  /\ UNCHANGED <<calls, credit, today, payments, notices>>

(* POST /erp/sync/balance writes what the ERP says, as its projector does.   *)
syncBalance(k, amount) ==
  /\ stored' = [stored EXCEPT ![k] = amount]
  /\ base' = [base EXCEPT ![k] = <<amount, Len(payments)>>]
  /\ outdated' = outdated \ {k}
  /\ UNCHANGED <<calls, credit, today, payments, notices>>

(* External: the ingest of the ERP's rows, and a night.                      *)
Ingest(k, rows) ==
  /\ credit' = [credit EXCEPT ![k] = rows] /\ rows # credit[k]
  /\ UNCHANGED <<calls, stored, today, payments, notices, base, outdated>>

Midnight ==
  /\ today + 1 \in Days /\ today' = today + 1
  /\ UNCHANGED <<calls, stored, credit, payments, notices, base, outdated>>

-----------------------------------------------------------------------------
(* POST /broadcasts/regional.  A regional admin names their own region and   *)
(* no other; the customers are those of the regions when the call came.      *)
sendRegional(c, regions, scope) ==
  LET told == {k \in Distributors : RegionOf[k] \in regions} IN
  /\ regions # {} /\ \A r \in regions : InScope(scope, r)
  /\ Starts(c, IF told = {} THEN Idle ELSE [route |-> "regional", step |-> "tell", rest |-> told])
  /\ UNCHANGED <<stored, credit, today, payments, notices, base, outdated>>

Tells(k, amount) ==
  /\ Len(notices) < MaxNotices
  /\ notices' = Append(notices, [customer |-> k, amount |-> amount])

RegionalTell(c, k) ==
  LET rest == calls[c].rest \ {k} IN
  /\ At(c, "regional", "tell") /\ k \in calls[c].rest
  /\ Tells(k, 0)
  /\ Moves(c, IF rest = {} THEN Idle ELSE [calls[c] EXCEPT !.rest = rest])
  /\ UNCHANGED <<stored, credit, today, payments, base, outdated>>

(* POST /broadcasts/individual: all recipients must be in the scope.         *)
sendIndividual(c, ks, allowance, scope) ==
  /\ ks # {} /\ \A k \in ks \cap Distributors : InScope(scope, RegionOf[k])
  /\ Starts(c, [route |-> "individual", step |-> "read", rest |-> ks, allowance |-> allowance,
                to |-> None, saw |-> 0])
  /\ UNCHANGED <<stored, credit, today, payments, notices, base, outdated>>

(* An id of nobody throws: who came before it stays sent to.                 *)
SendRead(c, k) ==
  /\ At(c, "individual", "read") /\ k \in calls[c].rest
  /\ Moves(c, IF k \notin Distributors THEN Idle
              ELSE [calls[c] EXCEPT !.step = IF calls[c].allowance > 0 THEN "credit" ELSE "record",
                      !.rest = @ \ {k}, !.to = k, !.saw = stored[k]])
  /\ UNCHANGED <<stored, credit, today, payments, notices, base, outdated>>

(* Mutant: the payment alone, the balance left to the next sync.             *)
NotYet(call) == call.saw
newBalance(call) == call.saw + call.allowance

(* The transaction: the balance as it was read plus the allowance, and its   *)
(* Payment row.                                                              *)
SendCredit(c) ==
  LET k == calls[c].to IN
  /\ At(c, "individual", "credit") /\ Len(payments) < MaxPayments
  /\ stored' = [stored EXCEPT ![k] = newBalance(calls[c])]
  /\ payments' = Append(payments, [customer |-> k, amount |-> calls[c].allowance,
                                   running |-> newBalance(calls[c])])
  /\ outdated' = IF stored[k] # calls[c].saw THEN outdated \cup {k} ELSE outdated
  /\ Steps(c, "record")
  /\ UNCHANGED <<credit, today, notices, base>>

(* The Broadcast row; two within a millisecond collide on its reference.     *)
SendRecord(c) ==
  /\ At(c, "individual", "record")
  /\ Steps(c, "tell")
  /\ UNCHANGED <<stored, credit, today, payments, notices, base, outdated>>

SendTell(c) ==
  LET k == calls[c].to IN
  /\ At(c, "individual", "tell")
  /\ Tells(k, calls[c].allowance)
  /\ Moves(c, IF calls[c].rest = {} THEN Idle ELSE [calls[c] EXCEPT !.step = "read"])
  /\ UNCHANGED <<stored, credit, today, payments, base, outdated>>

SendThrows(c) ==
  /\ ~IsIdle(c)
  /\ Ends(c)
  /\ UNCHANGED <<stored, credit, today, payments, notices, base, outdated>>

SendSteps(c) ==
  \/ \E k \in Recipients : SendRead(c, k)
  \/ \E k \in Distributors : RegionalTell(c, k)
  \/ SendCredit(c) \/ SendRecord(c) \/ SendTell(c)

WalletNext ==
  \/ \E c \in Calls :
       \/ \E scope \in CallerScope :
            \/ \E regions \in SUBSET Regions : sendRegional(c, regions, scope)
            \/ \E ks \in SUBSET Recipients, a \in Allowances : sendIndividual(c, ks, a, scope)
       \/ SendSteps(c) \/ SendThrows(c)
  \/ \E k \in Distributors :
       \/ \E a \in Amounts : syncBalance(k, a)
       \/ \E rows \in SUBSET CreditRows : Ingest(k, rows)
  \/ ReconcileBalances \/ Midnight

WalletSpec == WalletInit /\ [][WalletNext]_walletVars

-----------------------------------------------------------------------------
Since(k) == {i \in 1..Len(payments) : i > base[k][2] /\ payments[i].customer = k}

(* The column is what the ERP last wrote plus every allowance paid since,    *)
(* whatever handlers died on the way, and every allowance a distributor is   *)
(* told of has been paid - as long as no credit was computed from a balance  *)
(* that had changed meanwhile, which loses one.                              *)
AllowanceIsInTheBalance ==
  /\ \A k \in Distributors \ outdated :
       stored[k] = base[k][1] + MapThenSumSet(LAMBDA i : payments[i].amount, Since(k))
  /\ \A k \in Distributors :
       LET of(s) == {i \in 1..Len(s) : s[i].customer = k /\ s[i].amount > 0}
       IN Cardinality(of(notices)) <= Cardinality(of(payments))
=============================================================================
