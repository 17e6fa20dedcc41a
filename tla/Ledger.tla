------------------------------- MODULE Ledger -------------------------------
(***************************************************************************)
(* The account statement (modules/customer/statement-ledger.service.ts):   *)
(* invoices and payments in one order, with a running balance, over a      *)
(* window of time.  The purchases and the payments are read by two         *)
(* statements; the ERP's webhooks and broadcasts write them meanwhile.     *)
(*                                                                         *)
(* Left out: the PDF (statement.service.ts), which prints the payments and *)
(* purchases of a range with the balances stored beside them and computes  *)
(* none, and the wording of the lines.                                     *)
(***************************************************************************)
EXTENDS Handlers, Integers, SequencesExt, FiniteSetsExt

CONSTANTS
  Invoices, Receipts,   \* ids of Purchase and Payment rows
  Worth,                \* totalValue and amount
  Dates,
  MaxStatements

ASSUME LedgerAssumption ==
  /\ Invoices \cap Receipts = {} /\ Invoices \cup Receipts \subseteq Nat
  /\ IsFiniteSet(Invoices) /\ IsFiniteSet(Receipts)
  /\ Worth \subseteq Nat /\ Dates \subseteq Nat /\ MaxStatements \in Nat

VARIABLES
  purchases,    \* the Purchase rows: id to date and value
  receipts,     \* the Payment rows: id to date, amount and whether a broadcast's
  statements    \* answered: what was read, and the window

ledgerVars == <<calls, purchases, receipts, statements>>

Invoice == [date : Dates, value : Worth]
Receipt == [date : Dates, value : Worth, allowance : BOOLEAN]

Window == {w \in [from : Dates, to : Dates] : w.from <= w.to}

MovementType == {"INVOICE", "PAYMENT", "TRANSPORT_ALLOWANCE"}
Movement == [id : Invoices \cup Receipts, date : Dates, type : MovementType, change : Int]

LedgerCall ==
  {Idle} \cup [route : {"statement"}, step : {"read"}, window : Window, left : SUBSET {"purchases", "payments"},
               read : SUBSET Movement]

LedgerTypes ==
  /\ calls \in [Calls -> LedgerCall]
  /\ purchases \in [Invoices -> Invoice \cup {None}]
  /\ receipts \in [Receipts -> Receipt \cup {None}]
  /\ statements \in Seq([read : SUBSET Movement, window : Window])

LedgerInit ==
  /\ calls = [c \in Calls |-> Idle]
  /\ purchases = [i \in Invoices |-> None] /\ receipts = [r \in Receipts |-> None]
  /\ statements = <<>>

-----------------------------------------------------------------------------
(* loadMovements: an invoice is a debit, a payment a credit; one that        *)
(* settles a broadcast's allowance has a type of its own.                    *)
invoiceMovements ==
  {[id |-> i, date |-> purchases[i].date, type |-> "INVOICE", change |-> -purchases[i].value]
     : i \in {j \in Invoices : purchases[j] # None}}

paymentMovements ==
  {[id |-> r, date |-> receipts[r].date, change |-> receipts[r].value,
    type |-> IF receipts[r].allowance THEN "TRANSPORT_ALLOWANCE" ELSE "PAYMENT"]
     : r \in {s \in Receipts : receipts[s] # None}}

TYPE_ORDER == [INVOICE |-> 0, PAYMENT |-> 1, TRANSPORT_ALLOWANCE |-> 2]

(* By date, then by type, then by id.                                        *)
Precedes(m, n) ==
  \/ m.date < n.date
  \/ m.date = n.date /\ TYPE_ORDER[m.type] < TYPE_ORDER[n.type]
  \/ m.date = n.date /\ m.type = n.type /\ m.id < n.id

Chronological(movements) ==
  CHOOSE seq \in SetToSeqs(movements) : \A i, j \in DOMAIN seq : i < j => Precedes(seq[i], seq[j])

Total(movements) == MapThenSumSet(LAMBDA m : m.change, movements)

(* Mutant: what happened on the first instant of the window is counted as    *)
(* before it, and is a line of it.                                           *)
UpToTheStart(movements, window) == Total({m \in movements : m.date <= window.from})
openingBalance(movements, window) == Total({m \in movements : m.date < window.from})

InWindow(movements, window) ==
  {m \in movements : window.from <= m.date /\ m.date <= window.to}

(* build: the lines of the window, each with the balance after it.           *)
lines(movements, window) ==
  LET seq == Chronological(InWindow(movements, window))
      upTo(i) == Total({seq[j] : j \in 1..i})
  IN [i \in 1..Len(seq) |->
        [id |-> seq[i].id, runningBalance |-> openingBalance(movements, window) + upTo(i)]]

closingBalance(movements, window) ==
  LET ls == lines(movements, window)
  IN IF ls = <<>> THEN openingBalance(movements, window) ELSE Last(ls).runningBalance

(* balanceByPurchase: the balance beside an order on its own screen, over    *)
(* the account's whole history.                                              *)
balanceByPurchase(movements, i) ==
  LET seq == Chronological(movements)
      at  == CHOOSE k \in 1..Len(seq) : seq[k].id = i
  IN Total({seq[j] : j \in 1..at})

-----------------------------------------------------------------------------
(* resolvePeriod refuses a window that ends before it begins.                *)
StatementAsked(c, window) ==
  /\ Starts(c, [route |-> "statement", step |-> "read", window |-> window,
                left |-> {"purchases", "payments"}, read |-> {}])
  /\ UNCHANGED <<purchases, receipts, statements>>

(* The two queries are sent together and answered in either order.           *)
StatementReads(c, table) ==
  /\ At(c, "statement", "read") /\ table \in calls[c].left
  /\ Moves(c, [calls[c] EXCEPT !.left = @ \ {table}, !.read = @ \cup
                 IF table = "purchases" THEN invoiceMovements ELSE paymentMovements])
  /\ UNCHANGED <<purchases, receipts, statements>>

StatementAnswered(c) ==
  /\ At(c, "statement", "read") /\ calls[c].left = {} /\ Len(statements) < MaxStatements
  /\ statements' = Append(statements, [read |-> calls[c].read, window |-> calls[c].window])
  /\ Ends(c)
  /\ UNCHANGED <<purchases, receipts>>

(* The webhooks: a row keeps the date it was created with.                   *)
RecordInvoice(i, invoice) ==
  /\ purchases[i] # None => purchases[i].date = invoice.date
  /\ purchases' = [purchases EXCEPT ![i] = invoice]
  /\ UNCHANGED <<calls, receipts, statements>>

RecordReceipt(r, receipt) ==
  /\ receipts[r] # None => receipts[r].date = receipt.date /\ ~receipts[r].allowance
  /\ receipts' = [receipts EXCEPT ![r] = receipt]
  /\ UNCHANGED <<calls, purchases, statements>>

LedgerNext ==
  \/ \E c \in Calls :
       \/ \E w \in Window : StatementAsked(c, w)
       \/ \E t \in {"purchases", "payments"} : StatementReads(c, t)
       \/ StatementAnswered(c)
  \/ \E i \in Invoices, v \in Invoice : RecordInvoice(i, v)
  \/ \E r \in Receipts, v \in Receipt : RecordReceipt(r, v)

LedgerSpec == LedgerInit /\ [][LedgerNext]_ledgerVars

-----------------------------------------------------------------------------
(* One statement continues another: whatever the window, a statement that    *)
(* ends the instant before it closes on the balance it opens with, and the   *)
(* balance beside each invoice of it is the one on the order's own screen,   *)
(* however the movements of one instant fell.  Holds of what each statement  *)
(* read, which two reads may have put together.                              *)
StatementsAgree ==
  \A k \in 1..Len(statements) :
    LET ms == statements[k].read  w == statements[k].window IN
    /\ \A v \in Window : v.to + 1 = w.from =>
         closingBalance(ms, v) = openingBalance(ms, w)
    /\ \A i \in 1..Len(lines(ms, w)) : lines(ms, w)[i].id \in Invoices =>
         lines(ms, w)[i].runningBalance = balanceByPurchase(ms, lines(ms, w)[i].id)
=============================================================================
