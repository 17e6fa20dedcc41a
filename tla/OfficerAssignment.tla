-------------------------- MODULE OfficerAssignment --------------------------
(***************************************************************************)
(* Which account officer holds which customer, and which staff accounts    *)
(* are active (modules/admin/admin.service.ts, modules/erp/                *)
(* default-officer*.ts).  The assignment is kept twice: the pointer on the *)
(* customer, which lists and counts read, and the CustomerOfficer rows,    *)
(* which chat and tickets read.  Every route SELECTs, decides and then     *)
(* writes both in one transaction; a transaction is one action, taken when *)
(* it commits.                                                             *)
(*                                                                         *)
(* Left out: regions (all officers here are posted to the customers'       *)
(* region), the columns of a profile, and the refresh tokens a retirement  *)
(* revokes, which belong to the sessions.                                  *)
(***************************************************************************)
EXTENDS FiniteSetsExt

CONSTANTS
  Customers,
  Ids,              \* the customer ids clients send, some of nobody
  Parkable,         \* the customers of the default officer's region
  Officers,
  DefaultOfficer,
  Admins,
  Calls,            \* handler invocations in flight
  None              \* null

ASSUME StaffAssumption ==
  /\ DefaultOfficer \in Officers
  /\ Parkable \subseteq Customers /\ Customers \subseteq Ids
  /\ Officers \cap Admins = {}
  /\ None \notin Customers \cup Officers \cup Admins

VARIABLES
  assigned,    \* Customer.assignedOfficerId
  joins,       \* the CustomerOfficer rows: none, secondary or primary
  isActive,    \* the staff accounts that are active
  retiredBy,   \* Staff.deactivatedById
  calls,       \* the handlers in flight
  settled,     \* history: customers whose present officer has been told of
               \* them, or would have been had the handler not died
  raced        \* history: customers written to on a SELECT that was outdated

vars == <<assigned, joins, isActive, retiredBy, calls, settled, raced>>

Staff == Officers \cup Admins

Call == [route : {"none", "reassign", "all", "park", "retire"},
         step : {"idle", "next", "officer", "list", "count", "write", "tell"},
         customers : SUBSET Customers,     \* the customers it is working on
         rest : SUBSET Ids,                \* what is left of a bulk call
         from : Officers \cup {None}, to : Staff \cup {None},
         saw : BOOLEAN, by : Admins \cup {None}]

Idle == [route |-> "none", step |-> "idle", customers |-> {}, rest |-> {},
         from |-> None, to |-> None, saw |-> FALSE, by |-> None]

TypeOK ==
  /\ assigned \in [Customers -> Officers \cup {None}]
  /\ joins \in [Customers -> [Officers -> {"none", "secondary", "primary"}]]
  /\ isActive \subseteq Staff
  /\ retiredBy \in [Staff -> Admins \cup {None}]
  /\ calls \in [Calls -> Call]
  /\ settled \subseteq Customers
  /\ raced \subseteq Customers

(* Customers come from the ERP without an officer; secondary officers are    *)
(* seeded.                                                                   *)
Init ==
  /\ assigned = [k \in Customers |-> None]
  /\ joins \in [Customers -> [Officers -> {"none", "secondary"}]]
  /\ isActive = Staff
  /\ retiredBy = [s \in Staff |-> None]
  /\ calls = [c \in Calls |-> Idle]
  /\ settled = {}
  /\ raced = {}

-----------------------------------------------------------------------------
(* Handlers.                                                                 *)

Moves(c, call) == calls' = [calls EXCEPT ![c] = call]
At(c, route, step) == calls[c].route = route /\ calls[c].step = step

HeldBy(ks, o) == {k \in ks : assigned[k] = o}

(* On to the next customer of a bulk call, or done.  A single reassignment   *)
(* is a bulk call of one.                                                    *)
NextItem(call) ==
  IF call.rest = {} THEN Idle
  ELSE [Idle EXCEPT !.route = "reassign", !.step = "next",
                    !.rest = call.rest, !.to = call.to]

(* Mutants: whatever row the outgoing officer has is deleted; an existing    *)
(* row is left as it is.                                                     *)
MovedAnyRow(row, from, to) ==
  [o \in Officers |-> IF o = to THEN "primary" ELSE IF o = from THEN "none" ELSE row[o]]
MovedUnpromoted(row, from, to) ==
  [o \in Officers |->
     IF o = to THEN (IF row[o] = "none" THEN "primary" ELSE row[o])
     ELSE IF o = from /\ row[o] = "primary" THEN "none" ELSE row[o]]

movePrimaryAssignment(row, from, to) ==
  [o \in Officers |->
     IF o = to THEN "primary"
     ELSE IF o = from /\ row[o] = "primary" THEN "none" ELSE row[o]]

-----------------------------------------------------------------------------
(* PATCH customers/:id/reassign and customers/bulk-reassign.                 *)

ReassignStart(c, ks, o) ==
  /\ calls[c].step = "idle" /\ ks # {}
  /\ Moves(c, [Idle EXCEPT !.route = "reassign", !.step = "next",
                           !.rest = ks, !.to = o])
  /\ UNCHANGED <<assigned, joins, isActive, retiredBy, settled, raced>>

(* The SELECT of the customer: the officer it has is remembered.             *)
ReassignRead(c) ==
  /\ At(c, "reassign", "next")
  /\ \E k \in calls[c].rest \cap Customers :
       Moves(c, [calls[c] EXCEPT !.step = "officer", !.customers = {k},
                                 !.rest = @ \ {k}, !.from = assigned[k]])
  /\ UNCHANGED <<assigned, joins, isActive, retiredBy, settled, raced>>

(* It is not found, not the actor's to move, or the SELECT throws.           *)
ReassignSkip(c) ==
  /\ At(c, "reassign", "next")
  /\ \E k \in calls[c].rest :
       Moves(c, NextItem([calls[c] EXCEPT !.rest = @ \ {k}]))
  /\ UNCHANGED <<assigned, joins, isActive, retiredBy, settled, raced>>

(* The SELECT of the officer, and the refusals.                              *)
ReassignCheck(c) ==
  /\ At(c, "reassign", "officer")
  /\ Moves(c, IF calls[c].to \in isActive /\ calls[c].from # calls[c].to
              THEN [calls[c] EXCEPT !.step = "write"]
              ELSE NextItem(calls[c]))
  /\ UNCHANGED <<assigned, joins, isActive, retiredBy, settled, raced>>

(* repointAssignment.                                                        *)
ReassignWrite(c) ==
  LET ks == calls[c].customers  from == calls[c].from  to == calls[c].to IN
  /\ At(c, "reassign", "write")
  /\ assigned' = [k \in Customers |-> IF k \in ks THEN to ELSE assigned[k]]
  /\ joins' = [k \in Customers |-> IF k \in ks
                 THEN movePrimaryAssignment(joins[k], from, to) ELSE joins[k]]
  /\ raced' = raced \cup {k \in ks : assigned[k] # from}
  /\ Moves(c, [calls[c] EXCEPT !.step = "tell"])
  /\ settled' = settled \ ks
  /\ UNCHANGED <<isActive, retiredBy>>

-----------------------------------------------------------------------------
(* PATCH officers/:id/reassign-customers.                                    *)

AllCheck(c, from, to) ==
  /\ calls[c].step = "idle"
  /\ from # to /\ to \in isActive
  /\ Moves(c, [Idle EXCEPT !.route = "all", !.step = "list",
                           !.from = from, !.to = to])
  /\ UNCHANGED <<assigned, joins, isActive, retiredBy, settled, raced>>

(* The customers to move, read before the transaction.                       *)
AllList(c) ==
  /\ At(c, "all", "list")
  /\ Moves(c, [calls[c] EXCEPT !.step = "write",
         !.customers = HeldBy(Customers, calls[c].from)])
  /\ UNCHANGED <<assigned, joins, isActive, retiredBy, settled, raced>>

(* The pointers move by the officer they name now, the rows by the list.     *)
AllWrite(c) ==
  LET moving == calls[c].customers  from == calls[c].from  to == calls[c].to
      updated == HeldBy(Customers, from) IN
  /\ At(c, "all", "write")
  /\ assigned' = [k \in Customers |-> IF k \in updated THEN to ELSE assigned[k]]
  /\ joins' = [k \in Customers |-> IF k \in moving
                 THEN movePrimaryAssignment(joins[k], from, to) ELSE joins[k]]
  /\ raced' = raced \cup SymDiff(moving, updated)
  /\ Moves(c, IF updated = {} THEN Idle
              ELSE [calls[c] EXCEPT !.step = "tell", !.customers = updated])
  /\ settled' = settled \ updated
  /\ UNCHANGED <<isActive, retiredBy>>

(* Mutant: the summary of a bulk move goes to the officer who gave it.       *)
GiverOf(call) == IF call.route = "all" THEN call.from ELSE call.to
ReceiverOf(call) == call.to

(* The one notice of either route, to the officer who receives.              *)
Tell(c) ==
  /\ calls[c].step = "tell"
  /\ settled' = settled \cup HeldBy(calls[c].customers, ReceiverOf(calls[c]))
  /\ Moves(c, NextItem(calls[c]))
  /\ UNCHANGED <<assigned, joins, isActive, retiredBy, raced>>

-----------------------------------------------------------------------------
(* The default officer: the timer's pass over its region, and a customer     *)
(* just created.                                                             *)

ParkRead(c, ks) ==
  /\ calls[c].step = "idle"
  /\ DefaultOfficer \in isActive
  /\ Moves(c, [Idle EXCEPT !.route = "park", !.step = "write", !.customers = ks])
  /\ UNCHANGED <<assigned, joins, isActive, retiredBy, settled, raced>>

(* Mutant: the conditions on the customer are only read, not in the WHERE.   *)
AnyCustomer(ks) == ks
Unassigned(ks) == HeldBy(ks, None)

ParkWrite(c) ==
  LET claimed == Unassigned(calls[c].customers) IN
  /\ At(c, "park", "write")
  /\ assigned' = [k \in Customers |->
                    IF k \in claimed THEN DefaultOfficer ELSE assigned[k]]
  /\ joins' = [k \in Customers |-> IF k \in claimed
                 THEN [joins[k] EXCEPT ![DefaultOfficer] = "primary"] ELSE joins[k]]
  /\ Moves(c, Idle)
  /\ UNCHANGED <<isActive, retiredBy, settled, raced>>

-----------------------------------------------------------------------------
(* setOfficerActive.                                                         *)

RetireRead(c, s, by) ==
  /\ calls[c].step = "idle"
  /\ by \in isActive /\ by # s
  /\ Moves(c, [Idle EXCEPT !.route = "retire", !.step = "count", !.to = s,
                           !.saw = s \in Admins \cap isActive, !.by = by])
  /\ UNCHANGED <<assigned, joins, isActive, retiredBy, settled, raced>>

(* LAST_ACTIVE_ADMIN and OFFICER_HAS_CUSTOMERS.                              *)
MayRetire(s, saw) ==
  /\ saw => Cardinality(Admins \cap isActive) > 1
  /\ s \in Officers => \A k \in Customers : assigned[k] # s

RetireCount(c) ==
  /\ At(c, "retire", "count")
  /\ Moves(c, IF MayRetire(calls[c].to, calls[c].saw)
              THEN [calls[c] EXCEPT !.step = "write"] ELSE Idle)
  /\ UNCHANGED <<assigned, joins, isActive, retiredBy, settled, raced>>

(* Mutants: the update is not conditional on the status; the actor and the   *)
(* account are swapped.                                                      *)
RestampedBy(s, by) == [retiredBy EXCEPT ![s] = by]
StampedSwapped(s, by) == [retiredBy EXCEPT ![by] = s]
StampedBy(s, by) == IF s \in isActive THEN [retiredBy EXCEPT ![s] = by] ELSE retiredBy

RetireWrite(c) ==
  /\ At(c, "retire", "write")
  /\ isActive' = isActive \ {calls[c].to}
  /\ retiredBy' = StampedBy(calls[c].to, calls[c].by)
  /\ Moves(c, Idle)
  /\ UNCHANGED <<assigned, joins, settled, raced>>

(* Reactivation decides on nothing it read: the conditional UPDATE is all.   *)
Restore(s, by) ==
  /\ by \in isActive /\ s \notin isActive
  /\ isActive' = isActive \cup {s}
  /\ UNCHANGED <<assigned, joins, retiredBy, calls, settled, raced>>

-----------------------------------------------------------------------------
(* A statement throws: the route ends; a bulk call goes on with the next     *)
(* customer.                                                                 *)
Fail(c) ==
  /\ calls[c].step \notin {"idle", "next"}
  /\ settled' = IF calls[c].step = "tell"
                THEN settled \cup HeldBy(calls[c].customers, calls[c].to) ELSE settled
  /\ Moves(c, NextItem(calls[c]))
  /\ UNCHANGED <<assigned, joins, isActive, retiredBy, raced>>

(* The process dies: the rest of a bulk call goes with it.                   *)
Die(c) ==
  /\ calls[c].step # "idle"
  /\ settled' = IF calls[c].step = "tell"
                THEN settled \cup HeldBy(calls[c].customers, calls[c].to) ELSE settled
  /\ Moves(c, Idle)
  /\ UNCHANGED <<assigned, joins, isActive, retiredBy, raced>>

Start(c) ==
  \/ \E ks \in SUBSET Ids, o \in Officers : ReassignStart(c, ks, o)
  \/ \E from, to \in Officers : AllCheck(c, from, to)
  \/ ParkRead(c, Parkable)
  \/ \E k \in Parkable : ParkRead(c, {k})
  \/ \E s \in Staff, by \in Admins : RetireRead(c, s, by)

Continue(c) ==
  \/ ReassignRead(c) \/ ReassignSkip(c) \/ ReassignCheck(c) \/ ReassignWrite(c)
  \/ AllList(c) \/ AllWrite(c) \/ Tell(c)
  \/ ParkWrite(c) \/ RetireCount(c) \/ RetireWrite(c)

Next ==
  \/ \E c \in Calls : Start(c) \/ Continue(c) \/ Fail(c) \/ Die(c)
  \/ \E s \in Staff, by \in Admins : Restore(s, by)

Spec == Init /\ [][Next]_vars

-----------------------------------------------------------------------------
PrimaryOf(k) == {o \in Officers : joins[k][o] = "primary"}
HolderOf(k)  == {assigned[k]} \ {None}

(* The officer who holds a customer and the officers who answer its chat and *)
(* tickets as primary are the same, for every customer no handler has        *)
(* written to on an outdated SELECT - whatever else ran in between, and      *)
(* whatever failed.                                                          *)
InStepUnlessRaced ==
  \A k \in Customers \ raced : PrimaryOf(k) = HolderOf(k)

(* What the documents promise without that exception: the new officer gets   *)
(* the thread and the tickets, the previous one loses them.                  *)
OneHolder == \A k \in Customers : PrimaryOf(k) = HolderOf(k)

(* A secondary officer never loses a customer: secondary rows are at most    *)
(* promoted, even by a handler that takes the wrong officer for the holder.  *)
SecondariesStay ==
  [][\A k \in Customers, o \in Officers :
       joins[k][o] = "secondary" => joins'[k][o] # "none"]_vars

(* Parking takes no customer from an officer, however long ago the pass      *)
(* looked.                                                                   *)
ManualAssignmentStands ==
  [][\A c \in Calls : At(c, "park", "write") =>
       \A k \in Customers :
         (assigned'[k] # assigned[k] /\ calls'[c] # calls[c]) => assigned[k] = None]_vars

(* Of several retirements of one account that overlap, one is on record.     *)
RetirementIsStampedOnce ==
  [][\A s \in Staff :
       (s \notin isActive /\ s \notin isActive') => retiredBy'[s] = retiredBy[s]]_vars

(* An officer who holds a customer has been told so, is about to be, or the  *)
(* handler died; the default officer is not told of what is parked on it.    *)
HolderIsTold ==
  \A k \in Customers :
    assigned[k] \notin {None, DefaultOfficer} =>
      \/ k \in settled
      \/ \E c \in Calls : /\ calls[c].step = "tell" /\ k \in calls[c].customers
                          /\ calls[c].to = assigned[k]

(* Some administrator is always left to restore the others.                  *)
AnAdminRemains == Admins \cap isActive # {}
=============================================================================
