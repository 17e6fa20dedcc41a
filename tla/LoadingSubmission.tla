-------------------------- MODULE LoadingSubmission --------------------------
(***************************************************************************)
(* How a distributor's loading request comes to be: the terms accepted in  *)
(* the last hour, the check against what the ERP still owes, the reference *)
(* allocated by retrying on the unique index, the notices to the region's  *)
(* admins, and the edits allowed until somebody acts on it.  Rows are kept *)
(* by their reference, so the unique index on it is the shape of rows.  The*)
(* model is of one day: the date is part of every reference, so those of   *)
(* different days never meet.                                              *)
(***************************************************************************)
EXTENDS LoadForm, FiniteSets

CONSTANTS
  Customers,
  Calls,                   \* handler invocations the process can have in flight
  Admins,                  \* regional admins of the customers' region
  Forms,                   \* the products arrays clients send
  Capacities,              \* the loadingCapacity values a submission sends
  Feeds,                   \* the outstanding-product lists the ERP may report
  MAX_REFERENCE_ATTEMPTS

ASSUME AttemptsAssumption == MAX_REFERENCE_ATTEMPTS \in Nat \ {0}
ASSUME NullAssumption == None \notin Customers /\ None \notin Nat
(* The DTO refuses negative quantities; the ERP's list has only products of  *)
(* which something is left.                                                  *)
ASSUME FormsAssumption ==
  \A lines \in Forms : IsFiniteSet(DOMAIN lines) /\ \A i \in DOMAIN lines : lines[i].quantity \in Nat
ASSUME FeedsAssumption ==
  \A owed \in Feeds : IsFiniteSet(owed) /\ \A p \in owed : p.quantityLeft \in Nat \ {0}

VARIABLES
  fresh,     \* customers who accepted the terms within the last hour
  rows,      \* the LoadingRequest table, by reference
  calls,     \* the handlers in flight
  active,    \* the admins whose account is active
  told,      \* admins told of each reference
  lost,      \* references whose handler died before its notices
  refused    \* customers a submission of whom ran out of references

vars == <<fresh, rows, calls, active, told, lost, refused>>

(* attempt 1 is the bare LR-<erpId>-<date>, attempt n > 1 carries -0n.       *)
Reference == [customer : Customers, attempt : 1..MAX_REFERENCE_ATTEMPTS]

Row == [lines : Forms, cartons : Nat, capacity : Capacities, pending : BOOLEAN]

ASSUME RowAssumption == None \notin Row

(* lines is <<>> and capacity None where an edit does not send them.  owed   *)
(* is the ERP's answer.                                                      *)
Call == [step : {"idle", "check", "insert", "admins", "tell", "update"},
         customer : Customers \cup {None}, ref : Reference \cup {None},
         lines : Forms \cup {<<>>}, capacity : Capacities \cup {None},
         owed : Feeds \cup {{}}, tell : SUBSET Admins]

Idle == [step |-> "idle", customer |-> None, ref |-> None, lines |-> <<>>,
         capacity |-> None, owed |-> {}, tell |-> {}]

TypeOK ==
  /\ fresh \subseteq Customers
  /\ rows \in [Reference -> Row \cup {None}]
  /\ calls \in [Calls -> Call]
  /\ active \subseteq Admins
  /\ told \in [Reference -> SUBSET Admins]
  /\ lost \subseteq Reference
  /\ refused \subseteq Customers

Init ==
  /\ fresh = {}
  /\ rows = [ref \in Reference |-> None]
  /\ calls = [c \in Calls |-> Idle]
  /\ active = Admins
  /\ told = [ref \in Reference |-> {}]
  /\ lost = {}
  /\ refused = {}

-----------------------------------------------------------------------------
(* Submission, one awaited statement at a time.                              *)

Taken(ref) == rows[ref] # None
Moves(c, call) == calls' = [calls EXCEPT ![c] = call]
Ends(c) == Moves(c, Idle)

(* POST accept-terms: one INSERT.                                            *)
AcceptTerms(k) ==
  /\ fresh' = fresh \cup {k}
  /\ UNCHANGED <<rows, calls, active, told, lost, refused>>

(* The newest acceptance of the last hour, and the checks on the body alone. *)
SubmitRead(c, k, lines, capacity) ==
  /\ calls[c].step = "idle"
  /\ k \in fresh
  /\ Total(lines) > 0
  /\ Moves(c, [Idle EXCEPT !.step = "check", !.customer = k, !.lines = lines,
                           !.capacity = capacity])
  /\ UNCHANGED <<fresh, rows, active, told, lost, refused>>

Accepts(owed, call) ==
  /\ WithinQuantityLeft(owed, call.lines)
  /\ CapacityMatchesLoad(call.capacity, call.lines)

(* Mutant: the references already there are counted first, which is what the *)
(* retry loop is there to avoid, and the count is one too high.              *)
CountedAttempt(k) ==
  Min({MAX_REFERENCE_ATTEMPTS,
       2 + Cardinality({ref \in Reference : ref.customer = k /\ Taken(ref)})})

(* Where the retry loop starts.                                              *)
FirstAttempt(k) == 1

(* The answer of the ERP: a 400, or on to the INSERT with today's base.      *)
CheckLoad(c) ==
  LET call == calls[c] IN
  /\ call.step = "check"
  /\ \E owed \in Feeds :
       IF Accepts(owed, call)
       THEN Moves(c, [call EXCEPT !.step = "insert", !.owed = owed,
              !.ref = [customer |-> call.customer,
                       attempt |-> FirstAttempt(call.customer)]])
       ELSE Ends(c)
  /\ UNCHANGED <<fresh, rows, active, told, lost, refused>>

(* The row as created.                                                       *)
Created(call) ==
  [lines |-> call.lines, cartons |-> Total(call.lines),
   capacity |-> call.capacity, pending |-> TRUE]

Insert(c) ==
  LET call == calls[c] IN
  /\ call.step = "insert" /\ ~Taken(call.ref)
  /\ rows' = [rows EXCEPT ![call.ref] = Created(call)]
  /\ Moves(c, [Idle EXCEPT !.step = "admins", !.ref = call.ref])
  /\ UNCHANGED <<fresh, active, told, lost, refused>>

(* Mutants: the loop gives up one attempt early, or one too late.            *)
GivesUpEarly(attempt) == attempt >= MAX_REFERENCE_ATTEMPTS - 1
GivesUpLate(attempt)  == attempt > MAX_REFERENCE_ATTEMPTS
GivesUp(attempt) == attempt = MAX_REFERENCE_ATTEMPTS

(* P2002: the reference exists.  The next suffix, or the error after the     *)
(* last.                                                                     *)
Duplicate(c) ==
  LET call == calls[c]  n == call.ref.attempt IN
  /\ call.step = "insert" /\ Taken(call.ref)
  /\ IF GivesUp(n)
     THEN /\ Ends(c)
          /\ refused' = refused \cup {call.customer}
     ELSE /\ Moves(c, [call EXCEPT !.ref.attempt = n + 1])
          /\ UNCHANGED refused
  /\ UNCHANGED <<fresh, rows, active, told, lost>>

Telling(call, left) ==
  IF left = {} THEN Idle ELSE [call EXCEPT !.step = "tell", !.tell = left]

(* Mutant: one regional admin is enough.                                     *)
FirstRecipient(admins) == IF admins = {} THEN {} ELSE {CHOOSE a \in admins : TRUE}
Recipients(admins) == admins

(* The SELECT of the region's active admins, after the row is committed.     *)
FindAdmins(c) ==
  /\ calls[c].step = "admins"
  /\ Moves(c, Telling(calls[c], Recipients(active)))
  /\ UNCHANGED <<fresh, rows, active, told, lost, refused>>

TellAdmin(c) ==
  /\ calls[c].step = "tell"
  /\ \E a \in calls[c].tell :
       /\ told' = [told EXCEPT ![calls[c].ref] = @ \cup {a}]
       /\ Moves(c, Telling(calls[c], calls[c].tell \ {a}))
  /\ UNCHANGED <<fresh, rows, active, lost, refused>>

-----------------------------------------------------------------------------
(* PATCH :id by the request's owner, two statements.  An edit sends new      *)
(* lines, a new capacity, or both; None stands for a field not sent.         *)

OrElse(sent, stored) == IF sent # None THEN sent ELSE stored

EditRead(c, ref, lines, capacity) ==
  /\ calls[c].step = "idle"
  /\ Taken(ref) /\ rows[ref].pending
  /\ lines # None => Total(lines) > 0
  /\ CapacityMatchesLoad(OrElse(capacity, rows[ref].capacity),
                         OrElse(lines, rows[ref].lines))
  /\ Moves(c, [Idle EXCEPT !.step = "update", !.customer = ref.customer,
         !.ref = ref, !.lines = OrElse(lines, <<>>), !.capacity = capacity])
  /\ UNCHANGED <<fresh, rows, active, told, lost, refused>>

(* Mutant: the lines are replaced, quantityCartons is not.                   *)
EditedStale(row, call) ==
  [row EXCEPT !.lines = IF call.lines = <<>> THEN @ ELSE call.lines,
              !.capacity = OrElse(call.capacity, @)]

(* Fields that were not sent stay as the row has them by now.                *)
Edited(row, call) ==
  [row EXCEPT !.lines = IF call.lines = <<>> THEN @ ELSE call.lines,
              !.cartons = IF call.lines = <<>> THEN @ ELSE Total(call.lines),
              !.capacity = OrElse(call.capacity, @)]

EditWrite(c) ==
  LET call == calls[c] IN
  /\ call.step = "update"
  /\ rows' = [rows EXCEPT ![call.ref] = Edited(@, call)]
  /\ Ends(c)
  /\ UNCHANGED <<fresh, active, told, lost, refused>>

-----------------------------------------------------------------------------
(* A statement throws or the process dies: the row, once there, stays.       *)
Crash(c) ==
  /\ calls[c].step # "idle"
  /\ lost' = IF calls[c].step \in {"admins", "tell"} THEN lost \cup {calls[c].ref}
             ELSE lost
  /\ Ends(c)
  /\ UNCHANGED <<fresh, rows, active, told, refused>>

(* What goes on around the handlers: time, staff administration,            *)
(* and any route of LoadingLifecycle that takes a load out of PENDING.       *)
TermsAge(k) ==
  /\ fresh' = fresh \ {k}
  /\ UNCHANGED <<rows, calls, active, told, lost, refused>>

Deactivate(a) ==
  /\ a \in active
  /\ active' = active \ {a}
  /\ UNCHANGED <<fresh, rows, calls, told, lost, refused>>

ActedOn(ref) ==
  /\ Taken(ref) /\ rows[ref].pending
  /\ rows' = [rows EXCEPT ![ref].pending = FALSE]
  /\ UNCHANGED <<fresh, calls, active, told, lost, refused>>

Continue(c) ==
  \/ CheckLoad(c) \/ Insert(c) \/ Duplicate(c) \/ FindAdmins(c) \/ TellAdmin(c)
  \/ EditWrite(c)

Start(c) ==
  \/ \E k \in Customers, lines \in Forms, capacity \in Capacities :
       SubmitRead(c, k, lines, capacity)
  \/ \E ref \in Reference, lines \in Forms \cup {None},
       capacity \in Capacities \cup {None} :
         EditRead(c, ref, lines, capacity)

Environment ==
  \/ \E k \in Customers : AcceptTerms(k) \/ TermsAge(k)
  \/ \E a \in Admins : Deactivate(a)
  \/ \E ref \in Reference : ActedOn(ref)

Next ==
  \/ \E c \in Calls : Start(c) \/ Continue(c) \/ Crash(c)
  \/ Environment

Spec == Init /\ [][Next]_vars

-----------------------------------------------------------------------------
(* The suffixes of one customer's day are handed out without gaps, however   *)
(* many submissions race for them: -03 exists only beside -02 and the bare   *)
(* reference.                                                                *)
ReferencesHaveNoGaps ==
  \A ref \in Reference :
    (Taken(ref) /\ ref.attempt > 1)
      => Taken([ref EXCEPT !.attempt = ref.attempt - 1])

(* A submission is turned away for want of a reference only when every one   *)
(* of that day's references exists: no loser of a race is refused early.     *)
RefusedOnlyWhenFull ==
  \A ref \in Reference : ref.customer \in refused => Taken(ref)

(* A request is only created for a load that, product by product, the ERP    *)
(* said was still to collect, summed over all its lines.                     *)
CreatedWithinOwed ==
  [][\A c \in Calls :
       (calls[c].step = "insert" /\ calls'[c].step = "admins")
         => WithinOwed(calls[c].owed, calls[c].lines)]_vars

(* quantityCartons mirrors the lines through any race of edits.              *)
CartonsMirrorLines ==
  \A ref \in Reference : Taken(ref) => rows[ref].cartons = Total(rows[ref].lines)

(* No handler is between creating the request and its last notice.           *)
Announced(ref) ==
  ref \notin lost /\ \A c \in Calls : calls[c].ref # ref

(* Every admin still active has been told of every request in the queue,     *)
(* unless the handler died on the way (an account opened later is no admin   *)
(* of this model).                                                           *)
AdminsHearOfRequest ==
  \A ref \in Reference :
    (Taken(ref) /\ Announced(ref)) => active \subseteq told[ref]
=============================================================================
