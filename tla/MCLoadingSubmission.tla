------------------------ MODULE MCLoadingSubmission ------------------------
(* Instances of LoadingSubmission for TLC: one product "water" with an item  *)
(* code, three cartons of it left, and one "juice" the ERP has no code for.  *)
EXTENDS LoadingSubmission, TLC

Line(id, name, n) ==
  [productId |-> id, productName |-> name, spec |-> None,
   quantityLeft |-> IF name = "water" THEN 3 ELSE None,
   quantity |-> n, weightPerCarton |-> None]

Product(id, name, n) ==
  [productId |-> id, productName |-> name, spec |-> None, quantityLeft |-> n]

MCSheet == [name \in {"water", "juice"} |-> IF name = "water" THEN 2 ELSE None]

MCFeeds == {{Product("A1", "water", 3), Product(None, "juice", 1)}, {}}
MCCapacities == {8}

(* Lines that echo the item code of the picker, twice the same product or a  *)
(* product nothing can weigh.                                                *)
EchoedForms ==
  { <<Line("A1", "water", 2), Line(None, "juice", 1)>>,
    <<Line("A1", "water", 2), Line("A1", "water", 2)>> }

(* A client may also leave the item code out of a line.                      *)
AnyForms == { <<Line("A1", "water", 2), Line(None, "water", 2)>> }

MCSymmetry == Permutations(Calls) \cup Permutations(Admins)
=============================================================================
