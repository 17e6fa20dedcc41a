-------------------------- MODULE LoadingLifecycle --------------------------
(***************************************************************************)
(* One row of LoadingRequest per id, and the route handlers that change    *)
(* it.  Every handler is two statements and some notices: it SELECTs the   *)
(* row and decides (...Read), then UPDATEs the row by id alone (...Write), then*)
(* awaits its notices one by one (Notify).  No transaction or row lock     *)
(* joins the two statements, so any step of any other handler can fall     *)
(* between them; what a write takes from the SELECT is in calls[c].seen.   *)
(* A refused call (403, 404, 409, 400) changes nothing and is no step.     *)
(***************************************************************************)
EXTENDS LoadingStatus, Sequences

CONSTANTS
  Requests,        \* ids of loading requests
  Officers,        \* loading / warehouse officers of the region
  Desk,            \* regional admins and account officers with the load in scope
  Calls,           \* handler invocations the process can have in flight
  Cartons,         \* quantities
  Notes,           \* texts an officer may leave on a load
  LegacyTargets,   \* bodies sent to PATCH /regional/loading-requests/:id/status
  Distributor, RegionalAdmins,  \* recipients of notices besides the officers
  None             \* SQL NULL

ASSUME NoneAssumption == None \notin Requests \cup Officers \cup Desk
ASSUME TargetsAssumption == LegacyTargets \subseteq LoadingRequestStatus

VARIABLES
  rows,    \* the LoadingRequest table
  calls,   \* the handlers in flight
  told,    \* notices recorded so far, per request
  lost     \* requests on which a handler died between its write and a notice

vars == <<rows, calls, told, lost>>

Status == LoadingRequestStatus \cup {NOT_RAISED}
Staff  == Officers \cup Desk
Quantity == Cartons \cup {None}
Notice == [to : Officers \cup {Distributor, RegionalAdmins},
           about : LoadingRequestStatus]

(* The columns the routes decide on or overwrite; time stamps are set or     *)
(* null.  lines is the sum of the item quantities, cartons the column        *)
(* quantityCartons that mirrors it, note the officer's description.          *)
Row == [status : Status, officer : Officers \cup {None},
        started : BOOLEAN, completed : BOOLEAN, cancelled : BOOLEAN,
        canceller : Staff \cup {None}, note : Notes \cup {None},
        cartons : Quantity, lines : Quantity]

(* What a handler's later statements still take from the row it read.        *)
Seen == [officer : Officers \cup {None}, started : BOOLEAN,
         completed : BOOLEAN]

Routes == {"none", "assign", "cancel", "advance", "waybill", "legacy", "note",
           "edit"}

Call == [step : {"idle", "write", "tell"}, route : Routes,
         req : Requests \cup {None}, by : Staff \cup {None, Distributor},
         to : Status, pick : Officers \cup {None}, quantity : Quantity,
         seen : Seen, tell : Seq(Notice)]

SawNothing      == [officer |-> None, started |-> FALSE, completed |-> FALSE]
SawOfficer(row) == [SawNothing EXCEPT !.officer = row.officer]
SawStamps(row)  == [SawNothing EXCEPT !.started = row.started,
                                      !.completed = row.completed]

NoRow == [status |-> NOT_RAISED, officer |-> None, started |-> FALSE,
          completed |-> FALSE, cancelled |-> FALSE, canceller |-> None,
          note |-> None, cartons |-> None, lines |-> None]
Idle == [step |-> "idle", route |-> "none", req |-> None, by |-> None,
         to |-> NOT_RAISED, pick |-> None, quantity |-> None,
         seen |-> SawNothing, tell |-> <<>>]

TypeOK ==
  /\ rows \in [Requests -> Row]
  /\ calls \in [Calls -> Call]
  /\ told \in [Requests -> SUBSET Notice]
  /\ lost \subseteq Requests

Init ==
  /\ rows = [r \in Requests |-> NoRow]
  /\ calls = [c \in Calls |-> Idle]
  /\ told = [r \in Requests |-> {}]
  /\ lost = {}

-----------------------------------------------------------------------------
(* The first statement of a handler: the SELECT, its checks, and the state   *)
(* the rest of the handler runs on.                                          *)

Begin(c, r, route, by, to, pick, n, seen) ==
  /\ calls[c].step = "idle"
  /\ rows[r].status # NOT_RAISED
  /\ calls' = [calls EXCEPT ![c] =
       [step |-> "write", route |-> route, req |-> r, by |-> by, to |-> to,
        pick |-> pick, quantity |-> n, seen |-> seen,
        tell |-> <<>>]]
  /\ UNCHANGED <<rows, told, lost>>

(* The gate of every loading-officer route: 403 unless the load is theirs.   *)
ensureOwnAssignment(r, o) == rows[r].officer = o

(* The gate of assigning (400) and of editing (409).                         *)
StillPending(r) == rows[r].status = "PENDING_ASSIGNMENT"

(* Assigning also SELECTs the picked officer (active, of the region, of a    *)
(* loading role); Officers holds those it can find.                          *)
AssignRead(c, r, a, o) ==
  /\ StillPending(r)
  /\ Begin(c, r, "assign", a, "ASSIGNED", o, None, SawNothing)

CancelRead(c, r, a) ==
  /\ assertCancellable(rows[r].status)
  /\ Begin(c, r, "cancel", a, "CANCELLED", None, None, SawOfficer(rows[r]))

AdvanceRead(c, r, o, to) ==
  /\ ensureOwnAssignment(r, o)
  /\ assertLoadingTransition(rows[r].status, to)
  /\ Begin(c, r, "advance", o, to, None, None, SawStamps(rows[r]))

WaybillRead(c, r, o, n) ==
  /\ ensureOwnAssignment(r, o)
  /\ assertLoadingTransition(rows[r].status, "COMPLETED")
  /\ Begin(c, r, "waybill", o, "COMPLETED", None, n, SawNothing)

(* The body's status is only validated as a string.  A COMPLETED without a   *)
(* waybillDocumentUrl is a 400, so such a body is not enumerated.            *)
LegacyRead(c, r, o, to) ==
  /\ ensureOwnAssignment(r, o)
  /\ assertLoadingTransition(rows[r].status, to)
  /\ Begin(c, r, "legacy", o, to, None, None, SawStamps(rows[r]))

NoteRead(c, r, o) ==
  /\ ensureOwnAssignment(r, o)
  /\ Begin(c, r, "note", o, NOT_RAISED, None, None, SawNothing)

(* An edit that sends lines; one that sends none leaves what is modelled     *)
(* here as it was.                                                           *)
EditRead(c, r, n) ==
  /\ StillPending(r)
  /\ Begin(c, r, "edit", Distributor, NOT_RAISED, None, n, SawNothing)

-----------------------------------------------------------------------------
(* The UPDATE of a handler, WHERE id alone: the columns it names take values *)
(* from the body and from the row read earlier, the others stay.             *)

(* After its UPDATE a handler only has its notices left.                     *)
Then(c, r, notices) ==
  calls' = [calls EXCEPT ![c] =
    IF notices = <<>> THEN Idle
    ELSE [Idle EXCEPT !.step = "tell", !.req = r, !.tell = notices]]

Commit(c, route, row, notices) ==
  /\ calls[c].step = "write" /\ calls[c].route = route
  /\ rows' = [rows EXCEPT ![calls[c].req] = row]
  /\ Then(c, calls[c].req, notices)
  /\ UNCHANGED <<told, lost>>

Row0(c) == rows[calls[c].req]
ToDistributor(status) == [to |-> Distributor, about |-> status]
ToOfficer(o, status)  == [to |-> o, about |-> status]

(* The columns of a row just created.                                        *)
Raised(n) == [NoRow EXCEPT !.status = "PENDING_ASSIGNMENT",
                           !.cartons = n, !.lines = n]

(* The whole submit handler up to its notices: it creates a row, and reads   *)
(* none.                                                                     *)
Submit(c, r, n) ==
  /\ calls[c].step = "idle"
  /\ rows[r].status = NOT_RAISED
  /\ rows' = [rows EXCEPT ![r] = Raised(n)]
  /\ Then(c, r, <<[to |-> RegionalAdmins, about |-> "PENDING_ASSIGNMENT"]>>)
  /\ UNCHANGED <<told, lost>>

Assigned(row, o) == [row EXCEPT !.status = "ASSIGNED", !.officer = o]

(* Mutant: the officer is never told of the load.                            *)
AssignNoticesShort(o) == <<ToDistributor("ASSIGNED")>>

AssignNotices(o) == <<ToOfficer(o, "ASSIGNED"), ToDistributor("ASSIGNED")>>

AssignWrite(c) ==
  Commit(c, "assign", Assigned(Row0(c), calls[c].pick),
         AssignNotices(calls[c].pick))

CalledOff(row, by) ==
  [row EXCEPT !.status = "CANCELLED", !.cancelled = TRUE, !.canceller = by]

(* Mutants: nobody checks that an officer is assigned; calling a load off    *)
(* only tells the officer who has it.                                        *)
CancelNoticesUnguarded(seen) ==
  <<ToDistributor("CANCELLED"), ToOfficer(seen.officer, "CANCELLED")>>
CancelNoticesShort(seen) ==
  IF seen.officer = None THEN <<>> ELSE <<ToOfficer(seen.officer, "CANCELLED")>>

(* The officer to tell is the one the SELECT showed.                         *)
CancelNotices(seen) ==
  <<ToDistributor("CANCELLED")>> \o
    (IF seen.officer = None THEN <<>>
     ELSE <<ToOfficer(seen.officer, "CANCELLED")>>)

CancelWrite(c) ==
  Commit(c, "cancel", CalledOff(Row0(c), calls[c].by),
         CancelNotices(calls[c].seen))

(* Mutant: completedAt taken from the old row even when completing.          *)
MovedUnstamped(row, seen, to) ==
  [row EXCEPT !.status = to,
              !.started = (to = "LOADING_IN_PROGRESS") \/ seen.started,
              !.completed = seen.completed]

(* Status, loadingStartedAt and completedAt as PATCH .../status sets them.     *)
Moved(row, seen, to) ==
  [row EXCEPT !.status = to,
              !.started = (to = "LOADING_IN_PROGRESS") \/ seen.started,
              !.completed = (to = "COMPLETED") \/ seen.completed]

AdvanceNotices(to) == <<ToDistributor(to)>>

AdvanceWrite(c) ==
  LET to == calls[c].to
      moved == Moved(Row0(c), calls[c].seen, to)
  IN Commit(c, "advance",
            IF to = "CANCELLED" THEN CalledOff(moved, calls[c].by) ELSE moved,
            AdvanceNotices(to))

(* The completed load as recorded: the quantity comes from the body, the     *)
(* item lines stay as they were.                                             *)
Recorded(row, n) ==
  [row EXCEPT !.status = "COMPLETED", !.completed = TRUE, !.started = TRUE,
              !.cartons = n]

WaybillWrite(c) ==
  Commit(c, "waybill", Recorded(Row0(c), calls[c].quantity),
         <<ToDistributor("COMPLETED")>>)

(* The legacy route clears completedAt on any move but a completion, never   *)
(* stamps a cancellation, and words anything but a completion as loading in  *)
(* progress.                                                                 *)
LegacyMoved(row, seen, to) ==
  [row EXCEPT !.status = to,
              !.started = (to = "LOADING_IN_PROGRESS") \/ seen.started,
              !.completed = (to = "COMPLETED")]

LegacyWrite(c) ==
  LET to == calls[c].to IN
  Commit(c, "legacy", LegacyMoved(Row0(c), calls[c].seen, to),
         <<ToDistributor(IF to = "COMPLETED" THEN to
                         ELSE "LOADING_IN_PROGRESS")>>)

(* The note is written or, by an empty body, cleared; no notice is sent.     *)
NoteWrite(c) ==
  \E text \in Notes \cup {None} :
    Commit(c, "note", [Row0(c) EXCEPT !.note = text], <<>>)

(* Mutants: an edit that forgets to mirror the lines on quantityCartons, and  *)
(* one that saves the whole row it read.                                     *)
EditedLinesOnly(row, n) == [row EXCEPT !.lines = n]
EditedWhole(row, n) ==
  [row EXCEPT !.cartons = n, !.lines = n, !.status = "PENDING_ASSIGNMENT"]

(* The lines are replaced and quantityCartons mirrors their sum, in one      *)
(* statement.                                                                *)
Edited(row, n) == [row EXCEPT !.cartons = n, !.lines = n]

EditWrite(c) ==
  Commit(c, "edit", Edited(Row0(c), calls[c].quantity), <<>>)

-----------------------------------------------------------------------------
(* One notice awaited: its row is inserted before the next one is tried.     *)
Notify(c) ==
  LET r == calls[c].req  rest == Tail(calls[c].tell) IN
  /\ calls[c].step = "tell"
  /\ told' = [told EXCEPT ![r] = @ \cup {Head(calls[c].tell)}]
  /\ Then(c, r, rest)
  /\ UNCHANGED <<rows, lost>>

(* A statement throws, or the process dies: what was committed stays, the    *)
(* rest of the handler never runs.                                           *)
Abandon(c) ==
  /\ calls[c].step # "idle"
  /\ lost' = IF calls[c].step = "tell" THEN lost \cup {calls[c].req} ELSE lost
  /\ calls' = [calls EXCEPT ![c] = Idle]
  /\ UNCHANGED <<rows, told>>

-----------------------------------------------------------------------------

Read(c, r) ==
  \/ \E a \in Desk, o \in Officers : AssignRead(c, r, a, o)
  \/ \E a \in Desk : CancelRead(c, r, a)
  \/ \E o \in Officers, to \in QUEUE_STATUS_TRANSITIONS : AdvanceRead(c, r, o, to)
  \/ \E o \in Officers, n \in Cartons : WaybillRead(c, r, o, n)
  \/ \E o \in Officers, to \in LegacyTargets : LegacyRead(c, r, o, to)
  \/ \E o \in Officers : NoteRead(c, r, o)
  \/ \E n \in Cartons : EditRead(c, r, n)

Write(c) ==
  \/ AssignWrite(c) \/ CancelWrite(c) \/ AdvanceWrite(c) \/ WaybillWrite(c)
  \/ LegacyWrite(c) \/ NoteWrite(c) \/ EditWrite(c)

Next ==
  \E c \in Calls :
    \/ \E r \in Requests, n \in Cartons : Submit(c, r, n)
    \/ \E r \in Requests : Read(c, r)
    \/ Write(c)
    \/ Notify(c)
    \/ Abandon(c)

Spec == Init /\ [][Next]_vars

(* The event loop resumes a handler whose statement or notice has answered;  *)
(* nobody is obliged to call a route.                                        *)
Fairness == \A c \in Calls : WF_vars(Write(c)) /\ WF_vars(Notify(c))

FairSpec == Spec /\ Fairness

-----------------------------------------------------------------------------
(* What holds of the table whatever the interleaving of the handlers.        *)

(* A load that still waits for an officer shows no trace of any later route: *)
(* no officer, no stamp, and quantityCartons equal to its lines.             *)
PendingIsUntouched ==
  \A r \in Requests : rows[r].status = "PENDING_ASSIGNMENT" =>
    /\ rows[r].officer = None /\ rows[r].canceller = None
    /\ ~rows[r].started /\ ~rows[r].completed /\ ~rows[r].cancelled
    /\ rows[r].cartons = rows[r].lines

(* A load that is assigned, being loaded or completed has an officer, and a  *)
(* stale write never leaves one in progress without loadingStartedAt or      *)
(* completed without completedAt.                                            *)
WorkIsAttributed ==
  \A r \in Requests :
    /\ rows[r].status \in {"ASSIGNED", "LOADING_IN_PROGRESS", "COMPLETED"}
         => rows[r].officer # None
    /\ rows[r].status = "LOADING_IN_PROGRESS" => rows[r].started
    /\ rows[r].status = "COMPLETED" => rows[r].completed

(* Once a load has left PENDING_ASSIGNMENT no route brings it back, so it    *)
(* can never be picked up again by the assign and edit gates.                *)
NeverPendingAgain ==
  [][\A r \in Requests :
       rows[r].status \notin {NOT_RAISED, "PENDING_ASSIGNMENT"}
         => rows'[r].status \notin {NOT_RAISED, "PENDING_ASSIGNMENT"}]_vars

(* L-1: a load called off says when and by whom.                             *)
CancelIsStamped ==
  \A r \in Requests : rows[r].status = "CANCELLED" =>
    rows[r].cancelled /\ rows[r].canceller # None

(* No handler is running on the load and none died before its notices.       *)
Settled(r) == r \notin lost /\ \A c \in Calls : calls[c].req # r

(* PRD §6: once every handler on a load has finished, the distributor has    *)
(* been told of the status it is in, and the officer it is with has been     *)
(* told that it is theirs, in whatever order the writes and notices fell.    *)
OutcomeIsAnnounced ==
  \A r \in Requests : Settled(r) =>
    /\ rows[r].status \notin {NOT_RAISED, "PENDING_ASSIGNMENT"}
         => ToDistributor(rows[r].status) \in told[r]
    /\ rows[r].officer # None => ToOfficer(rows[r].officer, "ASSIGNED") \in told[r]

(* Every status a load reaches is in time announced to the distributor,      *)
(* unless a handler died after its write.                                    *)
StatusReachesDistributor ==
  \A r \in Requests, s \in LoadingRequestStatus \ {"PENDING_ASSIGNMENT"} :
    rows[r].status = s ~> (ToDistributor(s) \in told[r] \/ r \in lost)

-----------------------------------------------------------------------------
(* The move a handler has been let through to make and has not written yet.  *)
PermitOf(call) ==
  [req |-> IF call.to = NOT_RAISED THEN None ELSE call.req, to |-> call.to,
   officer |-> call.pick]

Promise == INSTANCE LoadingPromise
  WITH Handlers <- Calls,
       status   <- [r \in Requests |-> rows[r].status],
       officer  <- [r \in Requests |-> rows[r].officer],
       permit   <- [c \in Calls |-> PermitOf(calls[c])]

(* However the handlers overlap, the status and the officer of a load only   *)
(* change by a move its route had been let through to make, each made once,  *)
(* and no other column's route disturbs them.                                *)
ImplementsPromise == Promise!Spec

-----------------------------------------------------------------------------
(* What the docs and comments say, and the code does not keep.               *)

(* LC-1: goods that are being loaded are never called off.                   *)
NoCancelOnceLoading ==
  [][\A r \in Requests : rows[r].status = "LOADING_IN_PROGRESS"
       => rows'[r].status # "CANCELLED"]_vars

(* LO-04: a load cannot skip straight to completed without having been       *)
(* started.                                                                  *)
StartedBeforeCompleted ==
  [][\A r \in Requests :
       rows[r].status # "COMPLETED" /\ rows'[r].status = "COMPLETED"
         => rows[r].started]_vars

(* The waybill route's docs: recording on a completed load is a 409, so what *)
(* was recorded stays.                                                       *)
RecordedOnce ==
  [][\A r \in Requests : rows[r].status = "COMPLETED"
       => rows'[r].cartons = rows[r].cartons]_vars
=============================================================================
