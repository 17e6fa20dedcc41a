------------------------------- MODULE Flyers -------------------------------
(***************************************************************************)
(* The product flyers of modules/admin/admin.service.ts: an ordered list   *)
(* that admins create, edit, hide, delete and reorder while others do.  An *)
(* edit writes every field back from the row it read, and a reorder is one *)
(* UPDATE per flyer, in no transaction.                                    *)
(***************************************************************************)
EXTENDS Handlers, Naturals, Sequences, SequencesExt

CONSTANTS
  Texts,              \* what is on a flyer
  MaxFlyers

ASSUME FlyerAssumption == None \notin Texts \cup {"shown", "hidden"} /\ MaxFlyers \in Nat

VARIABLES
  flyers,       \* the ProductFlyer rows; an id not in use yet is None
  asked,        \* history: the last order that was asked for, and the flyers
                \* created since
  hidden,       \* history: flyers whose last edit of isActive hid them
  disturbed     \* history: whether handlers of the list overlapped or died

flyerVars == <<calls, flyers, asked, hidden, disturbed>>

Flyer == 1..MaxFlyers
FlyerRow == [text : Texts, isActive : BOOLEAN, sortOrder : 0..MaxFlyers * 2, there : BOOLEAN]
ASSUME NoneIsNoFlyer == None \notin FlyerRow

FlyerOrder == UNION {[1..n -> Flyer] : n \in 0..MaxFlyers}

FlyerCall ==
  {Idle}
  \cup [route : {"newflyer"}, step : {"create"}, max : 0..MaxFlyers * 2]
  \cup [route : {"edit"}, step : {"update"}, flyer : Flyer, text : Texts, active : BOOLEAN]
  \cup [route : {"delete"}, step : {"remove"}, flyer : Flyer]
  \cup [route : {"reorder"}, step : {"place"}, order : FlyerOrder, rest : SUBSET Flyer]

FlyerTypes ==
  /\ calls \in [Calls -> FlyerCall]
  /\ flyers \in [Flyer -> FlyerRow \cup {None}]
  /\ asked \in FlyerOrder /\ hidden \subseteq Flyer /\ disturbed \in BOOLEAN

FlyerInit ==
  /\ calls = [c \in Calls |-> Idle]
  /\ flyers = [f \in Flyer |-> None]
  /\ asked = <<>> /\ hidden = {} /\ disturbed = FALSE

Used  == {f \in Flyer : flyers[f] # None}
There == {f \in Used : flyers[f].there}

(* The handlers of the list overlap when one starts while another is on.     *)
Begins(c, call) ==
  /\ Starts(c, call)
  /\ disturbed' = (disturbed \/ \E d \in Calls : ~IsIdle(d))

Highest == IF There = {} THEN 0 ELSE Max({flyers[f].sortOrder : f \in There})

-----------------------------------------------------------------------------
(* Mutant: the new flyer takes the number of the last one.                   *)
SameAs(max) == max
OneAfter(max) == max + 1

createProductFlyer(c) ==
  /\ Begins(c, [route |-> "newflyer", step |-> "create", max |-> Highest])
  /\ UNCHANGED <<flyers, asked, hidden>>

CreateFlyer(c) ==
  /\ At(c, "newflyer", "create")
  /\ \E f \in Flyer, text \in Texts :
       /\ f \notin Used /\ \A g \in Flyer \ Used : f <= g
       /\ flyers' = [flyers EXCEPT ![f] = [text |-> text, isActive |-> TRUE,
                       sortOrder |-> OneAfter(calls[c].max), there |-> TRUE]]
       /\ asked' = Append(asked, f)
  /\ Ends(c)
  /\ UNCHANGED <<hidden, disturbed>>

(* updateProductFlyer: what the caller leaves out is written as it was read. *)
updateProductFlyer(c, f, text, active) ==
  /\ f \in There
  /\ Begins(c, [route |-> "edit", step |-> "update", flyer |-> f,
                text |-> IF text = None THEN flyers[f].text ELSE text,
                active |-> IF active = None THEN flyers[f].isActive ELSE active = "shown"])
  /\ hidden' = IF active = "shown" THEN hidden \ {f}
               ELSE IF active = "hidden" THEN hidden \cup {f} ELSE hidden
  /\ UNCHANGED <<flyers, asked>>

UpdateFlyer(c) ==
  LET f == calls[c].flyer IN
  /\ At(c, "edit", "update")
  /\ flyers' = IF f \in There THEN [flyers EXCEPT ![f].text = calls[c].text, ![f].isActive = calls[c].active]
               ELSE flyers
  /\ Ends(c)
  /\ UNCHANGED <<asked, hidden, disturbed>>

deleteProductFlyer(c, f) ==
  /\ f \in There
  /\ Begins(c, [route |-> "delete", step |-> "remove", flyer |-> f])
  /\ UNCHANGED <<flyers, asked, hidden>>

RemoveFlyer(c) ==
  LET f == calls[c].flyer IN
  /\ At(c, "delete", "remove")
  /\ flyers' = IF f \in There THEN [flyers EXCEPT ![f].there = FALSE] ELSE flyers
  /\ Ends(c)
  /\ UNCHANGED <<asked, hidden, disturbed>>

-----------------------------------------------------------------------------
(* reorderProductFlyers: as many flyers as ids, so that an unknown id or one *)
(* given twice is refused; a flyer left out keeps its number.                *)
reorderProductFlyers(c, order) ==
  /\ order # <<>> /\ ToSet(order) \subseteq There
  /\ Cardinality(ToSet(order)) = Len(order)
  /\ Begins(c, [route |-> "reorder", step |-> "place", order |-> order, rest |-> ToSet(order)])
  /\ UNCHANGED <<flyers, asked, hidden>>

(* One of the updates, which run side by side.                               *)
PlaceFlyer(c, f) ==
  LET order == calls[c].order  rest == calls[c].rest \ {f} IN
  /\ At(c, "reorder", "place") /\ f \in calls[c].rest
  /\ flyers' = IF f \in There
               THEN [flyers EXCEPT ![f].sortOrder = (CHOOSE i \in DOMAIN order : order[i] = f) - 1]
               ELSE flyers
  /\ asked' = IF rest = {} THEN order ELSE asked
  /\ Moves(c, IF rest = {} THEN Idle ELSE [calls[c] EXCEPT !.rest = rest])
  /\ UNCHANGED <<hidden, disturbed>>

FlyerDies(c) ==
  /\ ~IsIdle(c)
  /\ Ends(c)
  /\ disturbed' = TRUE
  /\ UNCHANGED <<flyers, asked, hidden>>

FlyerNext ==
  \E c \in Calls :
    \/ createProductFlyer(c) \/ CreateFlyer(c) \/ UpdateFlyer(c) \/ RemoveFlyer(c) \/ FlyerDies(c)
    \/ \E f \in Flyer :
         \/ \E text \in Texts \cup {None}, active \in {"shown", "hidden", None} :
              updateProductFlyer(c, f, text, active)
         \/ deleteProductFlyer(c, f) \/ PlaceFlyer(c, f)
    \/ \E order \in FlyerOrder : reorderProductFlyers(c, order)

FlyerSpec == FlyerInit /\ [][FlyerNext]_flyerVars

-----------------------------------------------------------------------------
(* As long as no two handlers of the list overlapped and none died: the      *)
(* flyers of the last reorder come in its order with every newer one after   *)
(* them, and a flyer is shown unless it was hidden.  (Two that overlap can   *)
(* mix two orders, or show again what was hidden.)                           *)
FlyersAsAsked ==
  (~disturbed /\ \A c \in Calls : IsIdle(c)) =>
    /\ \A i, j \in DOMAIN asked :
         i < j /\ {asked[i], asked[j]} \subseteq There =>
           flyers[asked[i]].sortOrder < flyers[asked[j]].sortOrder
    /\ \A f \in There : flyers[f].isActive <=> f \notin hidden
=============================================================================
