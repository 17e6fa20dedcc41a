------------------------------ MODULE LoadForm ------------------------------
(***************************************************************************)
(* The checks a loading form goes through before anything is written: how  *)
(* its lines are tied to the products the ERP says are still to collect,   *)
(* summed and weighed (modules/waybill/waybill.service.ts).                *)
(*                                                                         *)
(* A line is a record [productId, productName, spec, quantityLeft,         *)
(* quantity, weightPerCarton], a form a sequence of lines, and an ERP      *)
(* product a record [productId, productName, spec, quantityLeft].          *)
(* Quantities and weights are counted in the smallest fraction in use.     *)
(***************************************************************************)
EXTENDS Integers, Sequences, FiniteSetsExt

CONSTANTS
  None,    \* null
  Sheet    \* weight per carton of each product name, None where it states none

Total(lines) == MapThenSumSet(LAMBDA i : lines[i].quantity, DOMAIN lines)

(* The keys a product or a line can be looked up by; ns needs a spec, id an  *)
(* item code.                                                                *)
IdKey(x)   == <<"id", x.productId>>
SpecKey(x) == <<"ns", x.productName, x.spec>>
NameKey(x) == <<"n", x.productName>>

KeysOf(x) ==
  {NameKey(x)} \cup (IF x.productId # None THEN {IdKey(x)} ELSE {})
               \cup (IF x.spec # None THEN {SpecKey(x)} ELSE {})

Known(outstanding) == UNION {KeysOf(p) : p \in outstanding}

(* What is left under a key; two products sharing a key are summed.          *)
Left(outstanding, key) ==
  MapThenSumSet(LAMBDA p : p.quantityLeft, {p \in outstanding : key \in KeysOf(p)})

(* The first key of the line the ERP knows: item code, then name and spec,   *)
(* then name.                                                                *)
keyFor(outstanding, line) ==
  LET known == KeysOf(line) \cap Known(outstanding) IN
  IF IdKey(line) \in known THEN IdKey(line)
  ELSE IF SpecKey(line) \in known THEN SpecKey(line)
  ELSE IF NameKey(line) \in known THEN NameKey(line)
  ELSE None

(* Mutant: the largest line counts, not the sum.                             *)
LargestLine(outstanding, lines, key) ==
  LET mine == {i \in DOMAIN lines : keyFor(outstanding, lines[i]) = key} IN
  Max({lines[i].quantity : i \in mine} \cup {0})

Requested(outstanding, lines, key) ==
  MapThenSumSet(LAMBDA i : lines[i].quantity,
                {i \in DOMAIN lines : keyFor(outstanding, lines[i]) = key})

(* TRUE when the form is let through, FALSE for a 400.  A silent feed skips  *)
(* the second rule.                                                          *)
WithinQuantityLeft(outstanding, lines) ==
  /\ \A i \in DOMAIN lines :
       lines[i].quantityLeft # None => lines[i].quantity <= lines[i].quantityLeft
  /\ \A key \in Known(outstanding) :
       Requested(outstanding, lines, key) <= Left(outstanding, key)

(* Kilograms per carton: the line's own figure, else the sheet's.            *)
perCarton(line) ==
  IF line.weightPerCarton # None THEN line.weightPerCarton
  ELSE Sheet[line.productName]

Weighed(line) == perCarton(line) # None /\ perCarton(line) > 0

weighLoad(lines) ==
  MapThenSumSet(LAMBDA i : lines[i].quantity * perCarton(lines[i]),
                {i \in DOMAIN lines : Weighed(lines[i])})

(* The stated capacity has to equal the weight of the load, unless there is  *)
(* no capacity or a line nothing can weigh.                                  *)
CapacityMatchesLoad(capacity, lines) ==
  \/ capacity = None \/ lines = <<>>
  \/ \E i \in DOMAIN lines : ~Weighed(lines[i])
  \/ weighLoad(lines) = capacity

-----------------------------------------------------------------------------
(* What the check is for, said without its keys.                             *)

(* The line can only mean product p: it names p and no other product left.   *)
Names(line, p) ==
  IF line.productId # None /\ p.productId # None THEN line.productId = p.productId
  ELSE line.productName = p.productName /\ line.spec \in {None, p.spec}

OnlyNames(outstanding, line, p) ==
  {q \in outstanding : Names(line, q)} = {p}

(* No product is loaded beyond what is left of it, all lines that can only   *)
(* mean it taken together.                                                   *)
WithinOwed(outstanding, lines) ==
  \A p \in outstanding :
    MapThenSumSet(LAMBDA i : lines[i].quantity,
                  {i \in DOMAIN lines : OnlyNames(outstanding, lines[i], p)})
      <= p.quantityLeft
=============================================================================
