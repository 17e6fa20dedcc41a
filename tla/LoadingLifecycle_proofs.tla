----------------------- MODULE LoadingLifecycle_proofs -----------------------
(***************************************************************************)
(* What holds of the loading routes for every set of requests, officers,   *)
(* desk staff, concurrent handlers and quantities.                         *)
(***************************************************************************)
EXTENDS LoadingLifecycle, Integers, TLAPS

(* What a handler between its SELECT and its UPDATE may rely on although     *)
(* every other handler runs in between: the row is still there, and a route  *)
(* an officer passed the ownership gate of still has an officer and never    *)
(* moves the load back to PENDING_ASSIGNMENT.                                *)
HandlerInv ==
  \A c \in Calls :
    /\ calls[c].step # "idle" =>
         calls[c].req \in Requests /\ rows[calls[c].req].status # NOT_RAISED
    /\ calls[c].step = "tell" => calls[c].tell # <<>>
    /\ calls[c].step = "write" =>
         /\ calls[c].route = "assign" => calls[c].pick \in Officers
         /\ calls[c].route = "cancel" => calls[c].by \in Staff
         /\ calls[c].route = "advance" => calls[c].by \in Staff
         /\ calls[c].route \in {"advance", "waybill", "legacy"} =>
              /\ rows[calls[c].req].officer # None
              /\ calls[c].to \in LoadingRequestStatus \ {"PENDING_ASSIGNMENT"}
         /\ calls[c].route = "legacy" => calls[c].to \in LegacyTargets

(* An id without a row has nothing left of an earlier one.                   *)
UnraisedIsEmpty ==
  \A r \in Requests : rows[r].status = NOT_RAISED => rows[r].officer = None

IndInv ==
  /\ TypeOK /\ PendingIsUntouched /\ WorkIsAttributed
  /\ HandlerInv /\ UnraisedIsEmpty

-----------------------------------------------------------------------------
(* The records the routes build have the types of their tables.              *)

LEMMA NoQuantity == None \in Quantity
  BY DEF Quantity

LEMMA IdleType == /\ Idle \in Call /\ NoRow \in Row /\ SawNothing \in Seen
                  /\ Idle.step = "idle" /\ Idle.route = "none" /\ Idle.req = None
  BY NoQuantity DEF Idle, NoRow, SawNothing, Call, Row, Seen, Routes, Status

LEMMA SawTypes ==
  ASSUME NEW row \in Row
  PROVE  SawOfficer(row) \in Seen /\ SawStamps(row) \in Seen
  BY DEF SawOfficer, SawStamps, SawNothing, Row, Seen

LEMMA RaisedType ==
  ASSUME NEW n \in Cartons
  PROVE  /\ Raised(n) \in Row
         /\ Raised(n).status = "PENDING_ASSIGNMENT"
         /\ Raised(n).officer = None /\ Raised(n).canceller = None
         /\ ~Raised(n).started /\ ~Raised(n).completed /\ ~Raised(n).cancelled
         /\ Raised(n).cartons = Raised(n).lines
  BY NoQuantity DEF Raised, NoRow, Row, Quantity, Status, LoadingRequestStatus

LEMMA AssignedType ==
  ASSUME NEW row \in Row, NEW o \in Officers
  PROVE  /\ Assigned(row, o) \in Row
         /\ Assigned(row, o).status = "ASSIGNED" /\ Assigned(row, o).officer = o
  BY DEF Assigned, Row, Status, LoadingRequestStatus

LEMMA CalledOffType ==
  ASSUME NEW row \in Row, NEW s \in Staff
  PROVE  /\ CalledOff(row, s) \in Row
         /\ CalledOff(row, s).status = "CANCELLED"
         /\ CalledOff(row, s).cancelled /\ CalledOff(row, s).canceller = s
         /\ CalledOff(row, s).officer = row.officer
  BY DEF CalledOff, Row, Status, LoadingRequestStatus

LEMMA MovedType ==
  ASSUME NEW row \in Row, NEW seen \in Seen, NEW to \in LoadingRequestStatus
  PROVE  /\ Moved(row, seen, to) \in Row
         /\ Moved(row, seen, to).status = to
         /\ Moved(row, seen, to).officer = row.officer
         /\ Moved(row, seen, to).canceller = row.canceller
         /\ Moved(row, seen, to).cancelled = row.cancelled
         /\ to = "LOADING_IN_PROGRESS" => Moved(row, seen, to).started
         /\ to = "COMPLETED" => Moved(row, seen, to).completed
  BY DEF Moved, Row, Seen, Status

LEMMA LegacyMovedType ==
  ASSUME NEW row \in Row, NEW seen \in Seen, NEW to \in LoadingRequestStatus
  PROVE  /\ LegacyMoved(row, seen, to) \in Row
         /\ LegacyMoved(row, seen, to).status = to
         /\ LegacyMoved(row, seen, to).officer = row.officer
         /\ LegacyMoved(row, seen, to).canceller = row.canceller
         /\ LegacyMoved(row, seen, to).cancelled = row.cancelled
         /\ to = "LOADING_IN_PROGRESS" => LegacyMoved(row, seen, to).started
         /\ to = "COMPLETED" => LegacyMoved(row, seen, to).completed
  BY DEF LegacyMoved, Row, Seen, Status

LEMMA RecordedType ==
  ASSUME NEW row \in Row, NEW n \in Quantity
  PROVE  /\ Recorded(row, n) \in Row
         /\ Recorded(row, n).status = "COMPLETED"
         /\ Recorded(row, n).completed
         /\ Recorded(row, n).officer = row.officer
  BY DEF Recorded, Row, Status, LoadingRequestStatus

LEMMA EditedType ==
  ASSUME NEW row \in Row, NEW n \in Quantity
  PROVE  /\ Edited(row, n) \in Row
         /\ Edited(row, n).cartons = Edited(row, n).lines
         /\ Edited(row, n).status = row.status
         /\ Edited(row, n).officer = row.officer
         /\ Edited(row, n).canceller = row.canceller
         /\ Edited(row, n).started = row.started
         /\ Edited(row, n).completed = row.completed
         /\ Edited(row, n).cancelled = row.cancelled
  BY DEF Edited, Row

LEMMA NotedType ==
  ASSUME NEW row \in Row, NEW text \in Notes \cup {None},
         NEW noted, noted = [row EXCEPT !.note = text]
  PROVE  /\ noted \in Row
         /\ noted.status = row.status /\ noted.officer = row.officer
         /\ noted.canceller = row.canceller
         /\ noted.started = row.started /\ noted.completed = row.completed
         /\ noted.cancelled = row.cancelled
         /\ noted.cartons = row.cartons /\ noted.lines = row.lines
  BY DEF Row

-----------------------------------------------------------------------------
(* What a row may become, whichever handler's UPDATE lands on it.            *)

Untouched(row) ==
  row.status = "PENDING_ASSIGNMENT" =>
    /\ row.officer = None /\ row.canceller = None
    /\ ~row.started /\ ~row.completed /\ ~row.cancelled
    /\ row.cartons = row.lines

Attributed(row) ==
  /\ row.status \in {"ASSIGNED", "LOADING_IN_PROGRESS", "COMPLETED"}
       => row.officer # None
  /\ row.status = "LOADING_IN_PROGRESS" => row.started
  /\ row.status = "COMPLETED" => row.completed

Successor(old, new) ==
  /\ new \in Row /\ Untouched(new) /\ Attributed(new)
  /\ new.status # NOT_RAISED
  /\ old.officer # None => new.officer # None
  /\ old.status # "PENDING_ASSIGNMENT" => new.status # "PENDING_ASSIGNMENT"

(* The call and the row a handler holds are of their types.                  *)
LEMMA WritingCall ==
  ASSUME IndInv, NEW c \in Calls, calls[c].step = "write"
  PROVE  /\ calls[c] \in Call /\ calls[c].req \in Requests
         /\ Row0(c) \in Row /\ Row0(c) = rows[calls[c].req]
         /\ Row0(c).status # NOT_RAISED
         /\ Untouched(Row0(c)) /\ Attributed(Row0(c))
<1>1. calls[c] \in Call /\ calls[c].req \in Requests
  BY DEF IndInv, TypeOK, HandlerInv
<1> QED
  BY <1>1 DEF IndInv, TypeOK, HandlerInv, Row0, PendingIsUntouched,
              WorkIsAttributed, Untouched, Attributed

LEMMA NoticeType ==
  /\ \A s \in LoadingRequestStatus : ToDistributor(s) \in Notice
  /\ \A s \in LoadingRequestStatus, o \in Officers : ToOfficer(o, s) \in Notice
  BY DEF ToDistributor, ToOfficer, Notice

(* Every UPDATE of every route replaces the row by a successor of it.        *)
LEMMA WriteIsSuccessor ==
  ASSUME IndInv, NEW c \in Calls, Write(c)
  PROVE  \E row, notices :
           /\ notices \in Seq(Notice)
           /\ Commit(c, calls[c].route, row, notices)
           /\ Successor(rows[calls[c].req], row)
<1> DEFINE r == calls[c].req
<1>1. calls[c].step = "write"
  BY DEF Write, AssignWrite, CancelWrite, AdvanceWrite, WaybillWrite,
         LegacyWrite, NoteWrite, EditWrite, Commit
<1>2. /\ calls[c] \in Call /\ r \in Requests
      /\ Row0(c) \in Row /\ Row0(c) = rows[r] /\ Row0(c).status # NOT_RAISED
      /\ Untouched(Row0(c)) /\ Attributed(Row0(c))
  BY <1>1, WritingCall
<1>3. CASE AssignWrite(c)
  <2>1. calls[c].pick \in Officers
    BY <1>1, <1>3 DEF AssignWrite, Commit, IndInv, HandlerInv
  <2>2. AssignNotices(calls[c].pick) \in Seq(Notice)
    BY <2>1, NoticeType DEF AssignNotices, LoadingRequestStatus
  <2>3. Successor(Row0(c), Assigned(Row0(c), calls[c].pick))
    BY <1>2, <2>1, AssignedType, NoneAssumption
       DEF Successor, Untouched, Attributed, NOT_RAISED
  <2> QED
    BY <1>2, <1>3, <2>2, <2>3 DEF AssignWrite, Commit
<1>4. CASE CancelWrite(c)
  <2>1. calls[c].by \in Staff
    BY <1>1, <1>4 DEF CancelWrite, Commit, IndInv, HandlerInv
  <2>2. CancelNotices(calls[c].seen) \in Seq(Notice)
    BY <1>2, NoticeType
       DEF CancelNotices, LoadingRequestStatus, Call, Seen
  <2>3. Successor(Row0(c), CalledOff(Row0(c), calls[c].by))
    BY <1>2, <2>1, CalledOffType DEF Successor, Untouched, Attributed, NOT_RAISED
  <2> QED
    BY <1>2, <1>4, <2>2, <2>3 DEF CancelWrite, Commit
<1>5. CASE AdvanceWrite(c)
  <2> DEFINE to == calls[c].to
             moved == Moved(Row0(c), calls[c].seen, to)
             row == IF to = "CANCELLED" THEN CalledOff(moved, calls[c].by)
                    ELSE moved
  <2>1. /\ calls[c].by \in Staff /\ Row0(c).officer # None
        /\ to \in LoadingRequestStatus \ {"PENDING_ASSIGNMENT"}
    BY <1>1, <1>2, <1>5 DEF AdvanceWrite, Commit, IndInv, HandlerInv
  <2>2. AdvanceNotices(to) \in Seq(Notice)
    BY <2>1, NoticeType DEF AdvanceNotices
  <2>3. calls[c].seen \in Seen
    BY <1>2 DEF Call
  <2>4. Successor(Row0(c), moved)
    <3>1. /\ moved \in Row /\ moved.status = to
          /\ moved.officer = Row0(c).officer
          /\ to = "LOADING_IN_PROGRESS" => moved.started
          /\ to = "COMPLETED" => moved.completed
      BY <1>2, <2>1, <2>3, MovedType
    <3> HIDE DEF moved
    <3>2. to # NOT_RAISED /\ to # "PENDING_ASSIGNMENT"
      BY <2>1 DEF NOT_RAISED, LoadingRequestStatus
    <3> QED
      BY <2>1, <3>1, <3>2 DEF Successor, Untouched, Attributed
  <2>5. Successor(Row0(c), row)
    <3>1. CASE to = "CANCELLED"
      <4>1. moved \in Row /\ moved.officer = Row0(c).officer
        BY <1>2, <2>1, <2>3, MovedType
      <4>2. /\ row \in Row /\ row.status = "CANCELLED"
            /\ row.officer = Row0(c).officer
        BY <2>1, <3>1, <4>1, CalledOffType
      <4> QED
        BY <4>2 DEF Successor, Untouched, Attributed, NOT_RAISED
    <3>2. CASE to # "CANCELLED"
      BY <2>4, <3>2
    <3> QED
      BY <3>1, <3>2
  <2>6. Commit(c, calls[c].route, row, AdvanceNotices(to))
    BY <1>5 DEF AdvanceWrite, Commit
  <2> QED
    BY <1>2, <2>2, <2>5, <2>6
<1>6. CASE WaybillWrite(c)
  <2> DEFINE row == Recorded(Row0(c), calls[c].quantity)
             notices == <<ToDistributor("COMPLETED")>>
  <2>1. calls[c].quantity \in Quantity /\ Row0(c).officer # None
    BY <1>1, <1>2, <1>6 DEF WaybillWrite, Commit, IndInv, HandlerInv, Call
  <2>2. notices \in Seq(Notice)
    BY NoticeType DEF LoadingRequestStatus
  <2>3. Successor(Row0(c), row)
    BY <1>2, <2>1, RecordedType DEF Successor, Untouched, Attributed, NOT_RAISED
  <2>4. Commit(c, calls[c].route, row, notices)
    BY <1>6 DEF WaybillWrite, Commit
  <2> QED
    BY <1>2, <2>2, <2>3, <2>4
<1>7. CASE LegacyWrite(c)
  <2> DEFINE to == calls[c].to
             row == LegacyMoved(Row0(c), calls[c].seen, to)
             notices == <<ToDistributor(IF to = "COMPLETED" THEN to
                                        ELSE "LOADING_IN_PROGRESS")>>
  <2>1. /\ Row0(c).officer # None
        /\ to \in LoadingRequestStatus \ {"PENDING_ASSIGNMENT"}
    BY <1>1, <1>2, <1>7 DEF LegacyWrite, Commit, IndInv, HandlerInv
  <2>2. notices \in Seq(Notice)
    BY <2>1, NoticeType DEF LoadingRequestStatus
  <2>3. calls[c].seen \in Seen
    BY <1>2 DEF Call
  <2>4. Successor(Row0(c), row)
    <3>1. /\ row \in Row /\ row.status = to
          /\ row.officer = Row0(c).officer
          /\ to = "LOADING_IN_PROGRESS" => row.started
          /\ to = "COMPLETED" => row.completed
      BY <1>2, <2>1, <2>3, LegacyMovedType
    <3> HIDE DEF row
    <3>2. to # NOT_RAISED /\ to # "PENDING_ASSIGNMENT"
      BY <2>1 DEF NOT_RAISED, LoadingRequestStatus
    <3> QED
      BY <2>1, <3>1, <3>2 DEF Successor, Untouched, Attributed
  <2>5. Commit(c, calls[c].route, row, notices)
    BY <1>7 DEF LegacyWrite, Commit
  <2> QED
    BY <1>2, <2>2, <2>4, <2>5
<1>8. CASE NoteWrite(c)
  <2>1. PICK text \in Notes \cup {None} :
          Commit(c, "note", [Row0(c) EXCEPT !.note = text], <<>>)
    BY <1>8 DEF NoteWrite
  <2> DEFINE row == [Row0(c) EXCEPT !.note = text]
             notices == <<>>
  <2>2. Successor(Row0(c), row)
    BY <1>2, NotedType DEF Successor, Untouched, Attributed
  <2>3. notices \in Seq(Notice)
    OBVIOUS
  <2>4. Commit(c, calls[c].route, row, notices)
    BY <2>1 DEF Commit
  <2> HIDE DEF row, notices
  <2> QED
    BY <1>2, <2>2, <2>3, <2>4
<1>9. CASE EditWrite(c)
  <2>1. calls[c].quantity \in Quantity
    BY <1>2 DEF Call
  <2> DEFINE row == Edited(Row0(c), calls[c].quantity)
             notices == <<>>
  <2>2. Successor(Row0(c), row)
    BY <1>2, <2>1, EditedType DEF Successor, Untouched, Attributed
  <2>3. notices \in Seq(Notice)
    OBVIOUS
  <2>4. Commit(c, calls[c].route, row, notices)
    BY <1>9 DEF EditWrite, Commit
  <2> HIDE DEF row, notices
  <2> QED
    BY <1>2, <2>2, <2>3, <2>4
<1> QED
  BY <1>3, <1>4, <1>5, <1>6, <1>7, <1>8, <1>9 DEF Write

-----------------------------------------------------------------------------
(* What an UPDATE, a notice, a SELECT and a crash do to the handlers.        *)

(* A handler after its UPDATE is done, or about to send what is left.        *)
Finishing(call, r) ==
  /\ call \in Call
  /\ call.step # "write"
  /\ call.step # "idle" => call.req = r
  /\ call.step = "tell" => call.tell # <<>>

LEMMA ThenFinishes ==
  ASSUME TypeOK, NEW c \in Calls, NEW r \in Requests, NEW notices \in Seq(Notice),
         Then(c, r, notices)
  PROVE  /\ calls' \in [Calls -> Call]
         /\ Finishing(calls'[c], r)
         /\ \A d \in Calls \ {c} : calls'[d] = calls[d]
<1> DEFINE new == IF notices = <<>> THEN Idle
                  ELSE [Idle EXCEPT !.step = "tell", !.req = r, !.tell = notices]
<1>1. new \in Call
  <2>1. CASE notices = <<>>
    BY <2>1, IdleType
  <2>2. CASE notices # <<>>
    BY <2>2, IdleType DEF Call
  <2> QED
    BY <2>1, <2>2
<1>2. Finishing(new, r)
  <2>1. CASE notices = <<>>
    BY <2>1, IdleType DEF Finishing
  <2>2. CASE notices # <<>>
    BY <1>1, <2>2 DEF Finishing, Idle
  <2> QED
    BY <2>1, <2>2
<1>3. calls \in [Calls -> Call] /\ calls' = [calls EXCEPT ![c] = new]
  BY DEF TypeOK, Then
<1> HIDE DEF new
<1> QED
  BY <1>1, <1>2, <1>3

(* Replacing one row by a successor and finishing one handler keeps the      *)
(* inductive invariant: what the other handlers rely on survives.            *)
LEMMA UpdateKeeps ==
  ASSUME IndInv, NEW c \in Calls, NEW r \in Requests, NEW row,
         NEW notices \in Seq(Notice),
         Successor(rows[r], row),
         rows' = [rows EXCEPT ![r] = row],
         Then(c, r, notices),
         UNCHANGED <<told, lost>>
  PROVE  IndInv'
<1>1. /\ calls' \in [Calls -> Call] /\ Finishing(calls'[c], r)
      /\ \A d \in Calls \ {c} : calls'[d] = calls[d]
  BY ThenFinishes DEF IndInv
<1>2. rows' \in [Requests -> Row]
  BY DEF IndInv, TypeOK, Successor
<1>3. TypeOK'
  BY <1>1, <1>2 DEF IndInv, TypeOK
<1>4. rows'[r] = row /\ \A q \in Requests \ {r} : rows'[q] = rows[q]
  BY DEF IndInv, TypeOK
<1>5. PendingIsUntouched'
  BY <1>4 DEF IndInv, PendingIsUntouched, Successor, Untouched
<1>6. WorkIsAttributed' /\ UnraisedIsEmpty'
  BY <1>4 DEF IndInv, WorkIsAttributed, UnraisedIsEmpty, Successor, Attributed
<1>7. \A q \in Requests :
        /\ rows[q].status # NOT_RAISED => rows'[q].status # NOT_RAISED
        /\ rows[q].officer # None => rows'[q].officer # None
  BY <1>4 DEF Successor
<1>8. HandlerInv'
  <2> SUFFICES ASSUME NEW d \in Calls
               PROVE  HandlerInv!(d)'
    BY DEF HandlerInv
  <2>1. CASE d = c
    BY <1>1, <1>4, <2>1 DEF Finishing, Successor
  <2>2. CASE d # c
    <3>1. calls'[d] = calls[d] /\ HandlerInv!(d)
      BY <1>1, <2>2 DEF IndInv, HandlerInv
    <3> QED
      BY <1>7, <3>1
  <2> QED
    BY <2>1, <2>2
<1> QED
  BY <1>3, <1>5, <1>6, <1>8 DEF IndInv

LEMMA SubmitKeeps ==
  ASSUME IndInv, NEW c \in Calls, NEW r \in Requests, NEW n \in Cartons,
         Submit(c, r, n)
  PROVE  IndInv'
<1> DEFINE notices == <<[to |-> RegionalAdmins, about |-> "PENDING_ASSIGNMENT"]>>
<1>1. notices \in Seq(Notice)
  BY DEF Notice, LoadingRequestStatus
<1>2. rows' = [rows EXCEPT ![r] = Raised(n)] /\ Then(c, r, notices)
  BY DEF Submit
<1>3. UNCHANGED <<told, lost>>
  BY DEF Submit
<1>4. calls' \in [Calls -> Call] /\ Finishing(calls'[c], r)
      /\ \A d \in Calls \ {c} : calls'[d] = calls[d]
  BY <1>1, <1>2, ThenFinishes DEF IndInv
<1> HIDE DEF notices
<1>5. /\ Raised(n) \in Row /\ Untouched(Raised(n)) /\ Attributed(Raised(n))
      /\ Raised(n).status = "PENDING_ASSIGNMENT"
  BY RaisedType DEF Untouched, Attributed
<1>6. rows'[r] = Raised(n) /\ \A q \in Requests \ {r} : rows'[q] = rows[q]
  BY <1>2 DEF IndInv, TypeOK
<1>7. TypeOK'
  BY <1>2, <1>3, <1>4, <1>5 DEF IndInv, TypeOK
<1>8. PendingIsUntouched' /\ WorkIsAttributed' /\ UnraisedIsEmpty'
  BY <1>5, <1>6
     DEF IndInv, PendingIsUntouched, WorkIsAttributed, UnraisedIsEmpty,
         Untouched, Attributed, NOT_RAISED
<1>9. rows[r].status = NOT_RAISED
  BY DEF Submit
<1>10. HandlerInv'
  <2> SUFFICES ASSUME NEW d \in Calls
               PROVE  HandlerInv!(d)'
    BY DEF HandlerInv
  <2>1. CASE d = c
    BY <1>4, <1>5, <1>6, <2>1 DEF Finishing, NOT_RAISED
  <2>2. CASE d # c
    <3>1. calls'[d] = calls[d] /\ HandlerInv!(d)
      BY <1>4, <2>2 DEF IndInv, HandlerInv
    <3>2. calls[d].step # "idle" => rows'[calls[d].req] = rows[calls[d].req]
      BY <1>6, <1>9, <3>1
    <3>3. calls[d].step # "tell" /\ calls[d].step # "write" => calls[d].step = "idle"
      BY DEF IndInv, TypeOK, Call
    <3> QED
      BY <3>1, <3>2, <3>3
  <2> QED
    BY <2>1, <2>2
<1> QED
  BY <1>7, <1>8, <1>10 DEF IndInv

(* A handler that only moves itself leaves every other handler's facts.      *)
LEMMA CallStepKeeps ==
  ASSUME IndInv, NEW c \in Calls, NEW call \in Call,
         calls' = [calls EXCEPT ![c] = call],
         UNCHANGED rows,
         told' \in [Requests -> SUBSET Notice], lost' \subseteq Requests,
         /\ call.step # "idle" =>
              call.req \in Requests /\ rows[call.req].status # NOT_RAISED
         /\ call.step = "tell" => call.tell # <<>>
         /\ call.step = "write" =>
              /\ call.route = "assign" => call.pick \in Officers
              /\ call.route = "cancel" => call.by \in Staff
              /\ call.route = "advance" => call.by \in Staff
              /\ call.route \in {"advance", "waybill", "legacy"} =>
                   /\ rows[call.req].officer # None
                   /\ call.to \in LoadingRequestStatus \ {"PENDING_ASSIGNMENT"}
              /\ call.route = "legacy" => call.to \in LegacyTargets
  PROVE  IndInv'
<1>1. calls'[c] = call /\ \A d \in Calls \ {c} : calls'[d] = calls[d]
  BY DEF IndInv, TypeOK
<1>2. TypeOK'
  BY DEF IndInv, TypeOK
<1>3. PendingIsUntouched' /\ WorkIsAttributed' /\ UnraisedIsEmpty'
  BY DEF IndInv, PendingIsUntouched, WorkIsAttributed, UnraisedIsEmpty
<1>4. HandlerInv'
  <2> SUFFICES ASSUME NEW d \in Calls
               PROVE  HandlerInv!(d)'
    BY DEF HandlerInv
  <2>1. CASE d = c
    BY <1>1, <2>1
  <2>2. CASE d # c
    BY <1>1, <2>2 DEF IndInv, HandlerInv
  <2> QED
    BY <2>1, <2>2
<1> QED
  BY <1>2, <1>3, <1>4 DEF IndInv

(* An officer who passes the ownership gate does so on a load that has an    *)
(* officer, hence on one that is not waiting for one.                        *)
LEMMA OwnedIsNotPending ==
  ASSUME IndInv, NEW r \in Requests, NEW o \in Officers, ensureOwnAssignment(r, o)
  PROVE  rows[r].officer # None /\ rows[r].status # "PENDING_ASSIGNMENT"
  BY NoneAssumption DEF ensureOwnAssignment, IndInv, PendingIsUntouched

LEMMA TransitionsAvoidPending ==
  ASSUME NEW from, NEW to, assertLoadingTransition(from, to),
         from # "PENDING_ASSIGNMENT"
  PROVE  to # "PENDING_ASSIGNMENT"
  BY DEF assertLoadingTransition, ALLOWED_TRANSITIONS

LEMMA BeginKeeps ==
  ASSUME IndInv, NEW c \in Calls, NEW r \in Requests,
         NEW route \in Routes, NEW by \in Staff \cup {Distributor},
         NEW to \in Status, NEW pick \in Officers \cup {None},
         NEW n \in Quantity, NEW seen \in Seen,
         Begin(c, r, route, by, to, pick, n, seen),
         /\ route = "assign" => pick \in Officers
         /\ route = "cancel" => by \in Staff
         /\ route = "advance" => by \in Staff
         /\ route \in {"advance", "waybill", "legacy"} =>
              /\ rows[r].officer # None
              /\ to \in LoadingRequestStatus \ {"PENDING_ASSIGNMENT"}
         /\ route = "legacy" => to \in LegacyTargets
  PROVE  IndInv'
<1> DEFINE call == [step |-> "write", route |-> route, req |-> r, by |-> by,
                    to |-> to, pick |-> pick, quantity |-> n, seen |-> seen,
                    tell |-> <<>>]
<1>1. call \in Call
  BY DEF Call
<1>2. calls' = [calls EXCEPT ![c] = call] /\ UNCHANGED <<rows, told, lost>>
  BY DEF Begin
<1>3. rows[r].status # NOT_RAISED
  BY DEF Begin
<1>4. /\ call.step = "write" /\ call.route = route /\ call.req = r
      /\ call.by = by /\ call.to = to /\ call.pick = pick
  OBVIOUS
<1>5. told' \in [Requests -> SUBSET Notice] /\ lost' \subseteq Requests
  BY <1>2 DEF IndInv, TypeOK
<1> HIDE DEF call
<1> QED
  BY <1>1, <1>2, <1>3, <1>4, <1>5, CallStepKeeps

LEMMA ReadKeeps ==
  ASSUME IndInv, NEW c \in Calls, NEW r \in Requests, Read(c, r)
  PROVE  IndInv'
<1>1. rows[r] \in Row /\ rows[r].status \in Status
  BY DEF IndInv, TypeOK, Row
<1>2. SawNothing \in Seen /\ SawOfficer(rows[r]) \in Seen
      /\ SawStamps(rows[r]) \in Seen
  BY <1>1, IdleType, SawTypes
<1>3. Desk \subseteq Staff /\ Officers \subseteq Staff
      /\ LoadingRequestStatus \subseteq Status
  BY DEF Staff, Status
<1>4. /\ {"assign", "cancel", "advance", "waybill", "legacy", "note", "edit"}
           \subseteq Routes
      /\ {"ASSIGNED", "CANCELLED", "COMPLETED", NOT_RAISED} \subseteq Status
  BY DEF Routes, Status, LoadingRequestStatus
<1>5. ASSUME NEW a \in Desk, NEW o \in Officers, AssignRead(c, r, a, o)
      PROVE  IndInv'
  BY <1>2, <1>3, <1>4, <1>5, NoQuantity, BeginKeeps DEF AssignRead
<1>6. ASSUME NEW a \in Desk, CancelRead(c, r, a)
      PROVE  IndInv'
  BY <1>2, <1>3, <1>4, <1>6, NoQuantity, BeginKeeps DEF CancelRead
<1>7. ASSUME NEW o \in Officers, NEW to \in QUEUE_STATUS_TRANSITIONS,
             AdvanceRead(c, r, o, to)
      PROVE  IndInv'
  <2>1. rows[r].officer # None
    BY <1>7, OwnedIsNotPending DEF AdvanceRead
  <2>2. to \in LoadingRequestStatus \ {"PENDING_ASSIGNMENT"}
    BY DEF QUEUE_STATUS_TRANSITIONS, LoadingRequestStatus
  <2> QED
    BY <1>2, <1>3, <1>4, <1>7, <2>1, <2>2, NoQuantity, BeginKeeps DEF AdvanceRead
<1>8. ASSUME NEW o \in Officers, NEW n \in Cartons, WaybillRead(c, r, o, n)
      PROVE  IndInv'
  <2>1. rows[r].officer # None
    BY <1>8, OwnedIsNotPending DEF WaybillRead
  <2>2. "COMPLETED" \in LoadingRequestStatus \ {"PENDING_ASSIGNMENT"}
    BY DEF LoadingRequestStatus
  <2> QED
    BY <1>2, <1>3, <1>4, <1>8, <2>1, <2>2, BeginKeeps DEF WaybillRead, Quantity
<1>9. ASSUME NEW o \in Officers, NEW to \in LegacyTargets, LegacyRead(c, r, o, to)
      PROVE  IndInv'
  <2>1. rows[r].officer # None /\ rows[r].status # "PENDING_ASSIGNMENT"
    BY <1>9, OwnedIsNotPending DEF LegacyRead
  <2>2. to # "PENDING_ASSIGNMENT"
    BY <1>9, <2>1, TransitionsAvoidPending DEF LegacyRead
  <2>3. to \in LoadingRequestStatus \ {"PENDING_ASSIGNMENT"}
    BY <2>2, TargetsAssumption
  <2> QED
    BY <1>2, <1>3, <1>4, <1>9, <2>1, <2>3, NoQuantity, BeginKeeps DEF LegacyRead
<1>10. ASSUME NEW o \in Officers, NoteRead(c, r, o)
       PROVE  IndInv'
  BY <1>2, <1>3, <1>4, <1>10, NoQuantity, BeginKeeps DEF NoteRead
<1>11. ASSUME NEW n \in Cartons, EditRead(c, r, n)
       PROVE  IndInv'
  BY <1>2, <1>4, <1>11, BeginKeeps DEF EditRead, Quantity
<1> QED
  BY <1>5, <1>6, <1>7, <1>8, <1>9, <1>10, <1>11 DEF Read

LEMMA NotifyKeeps ==
  ASSUME IndInv, NEW c \in Calls, Notify(c)
  PROVE  IndInv'
<1> DEFINE r == calls[c].req
           rest == Tail(calls[c].tell)
           call == IF rest = <<>> THEN Idle
                   ELSE [Idle EXCEPT !.step = "tell", !.req = r, !.tell = rest]
<1>1. /\ r \in Requests /\ rows[r].status # NOT_RAISED
      /\ calls[c].tell \in Seq(Notice) /\ calls[c].tell # <<>>
  BY DEF Notify, IndInv, TypeOK, HandlerInv, Call
<1>2. rest \in Seq(Notice) /\ Head(calls[c].tell) \in Notice
  BY <1>1
<1>3. Then(c, r, rest) /\ calls' = [calls EXCEPT ![c] = call]
  BY DEF Notify, Then
<1>4. told' \in [Requests -> SUBSET Notice] /\ UNCHANGED <<rows, lost>>
  BY <1>1, <1>2 DEF Notify, IndInv, TypeOK
<1>5. call \in Call /\ Finishing(call, r)
  <2>1. calls'[c] = call
    BY <1>3 DEF IndInv, TypeOK
  <2> QED
    BY <1>1, <1>2, <1>3, <2>1, ThenFinishes DEF IndInv
<1>6. lost' \subseteq Requests
  BY <1>4 DEF IndInv, TypeOK
<1> HIDE DEF call, r, rest
<1> QED
  BY <1>1, <1>3, <1>4, <1>5, <1>6, CallStepKeeps DEF Finishing

LEMMA AbandonKeeps ==
  ASSUME IndInv, NEW c \in Calls, Abandon(c)
  PROVE  IndInv'
<1>1. calls[c].req \in Requests
  BY DEF Abandon, IndInv, HandlerInv
<1>2. lost' \subseteq Requests
  BY <1>1 DEF Abandon, IndInv, TypeOK
<1>3. told' \in [Requests -> SUBSET Notice]
  BY DEF Abandon, IndInv, TypeOK
<1> QED
  BY <1>2, <1>3, IdleType, CallStepKeeps DEF Abandon

-----------------------------------------------------------------------------
(* The inductive invariant and what follows from it.                         *)

LEMMA InitEstablishes == Init => IndInv
<1> SUFFICES ASSUME Init PROVE IndInv
  OBVIOUS
<1>1. NoRow.status = NOT_RAISED /\ NoRow.officer = None
  BY DEF NoRow
<1>2. TypeOK
  BY IdleType DEF Init, TypeOK
<1>3. PendingIsUntouched /\ WorkIsAttributed /\ UnraisedIsEmpty
  BY <1>1 DEF Init, PendingIsUntouched, WorkIsAttributed, UnraisedIsEmpty, NOT_RAISED
<1>4. HandlerInv
  BY IdleType DEF Init, HandlerInv
<1> QED
  BY <1>2, <1>3, <1>4 DEF IndInv

LEMMA WriteKeeps ==
  ASSUME IndInv, NEW c \in Calls, Write(c)
  PROVE  /\ IndInv'
         /\ \A r \in Requests : rows[r].status \notin {NOT_RAISED, "PENDING_ASSIGNMENT"}
              => rows'[r].status \notin {NOT_RAISED, "PENDING_ASSIGNMENT"}
<1> DEFINE r == calls[c].req
<1>1. PICK row, notices :
        /\ notices \in Seq(Notice)
        /\ Commit(c, calls[c].route, row, notices)
        /\ Successor(rows[r], row)
  BY WriteIsSuccessor
<1>2. /\ calls[c].step = "write"
      /\ rows' = [rows EXCEPT ![r] = row] /\ Then(c, r, notices)
      /\ UNCHANGED <<told, lost>>
  BY <1>1 DEF Commit
<1>3. r \in Requests
  BY <1>2, WritingCall
<1> HIDE DEF r
<1>4. IndInv'
  BY <1>1, <1>2, <1>3, UpdateKeeps
<1>5. rows'[r] = row /\ \A q \in Requests \ {r} : rows'[q] = rows[q]
  BY <1>2, <1>3 DEF IndInv, TypeOK
<1> QED
  BY <1>1, <1>4, <1>5 DEF Successor

LEMMA StepKeeps ==
  ASSUME IndInv, [Next]_vars
  PROVE  IndInv'
<1>1. CASE UNCHANGED vars
  BY <1>1 DEF vars, IndInv, TypeOK, PendingIsUntouched, WorkIsAttributed,
              HandlerInv, UnraisedIsEmpty
<1>2. ASSUME NEW c \in Calls, NEW r \in Requests, NEW n \in Cartons, Submit(c, r, n)
      PROVE  IndInv'
  BY <1>2, SubmitKeeps
<1>3. ASSUME NEW c \in Calls, NEW r \in Requests, Read(c, r)
      PROVE  IndInv'
  BY <1>3, ReadKeeps
<1>4. ASSUME NEW c \in Calls, Write(c)
      PROVE  IndInv'
  BY <1>4, WriteKeeps
<1>5. ASSUME NEW c \in Calls, Notify(c)
      PROVE  IndInv'
  BY <1>5, NotifyKeeps
<1>6. ASSUME NEW c \in Calls, Abandon(c)
      PROVE  IndInv'
  BY <1>6, AbandonKeeps
<1> QED
  BY <1>1, <1>2, <1>3, <1>4, <1>5, <1>6 DEF Next

(* A SELECT, a notice and a crash leave the table alone.                     *)
LEMMA OthersLeaveRows ==
  ASSUME NEW c \in Calls, (\E r \in Requests : Read(c, r)) \/ Notify(c) \/ Abandon(c)
  PROVE  UNCHANGED rows
  BY DEF Read, AssignRead, CancelRead, AdvanceRead, WaybillRead, LegacyRead,
         NoteRead, EditRead, Begin, Notify, Abandon

(* The inductive invariant holds of every reachable state, however many      *)
(* handlers of the routes are in flight.                                     *)
THEOREM Invariance == Spec => []IndInv
<1>1. Init => IndInv
  BY InitEstablishes
<1>2. IndInv /\ [Next]_vars => IndInv'
  BY StepKeeps
<1> QED
  BY <1>1, <1>2, PTL DEF Spec

(* Every column of every row, every handler and every notice keeps its type; *)
(* in particular a notice to an officer always has an officer to go to.      *)
THEOREM TypeCorrect == Spec => []TypeOK
<1>1. IndInv => TypeOK
  BY DEF IndInv
<1> QED
  BY <1>1, Invariance, PTL

(* A load in the regional queue shows no trace of any later route, whatever  *)
(* stale handler's UPDATE lands on it.                                       *)
THEOREM PendingUntouched == Spec => []PendingIsUntouched
<1>1. IndInv => PendingIsUntouched
  BY DEF IndInv
<1> QED
  BY <1>1, Invariance, PTL

(* No interleaving leaves a load assigned, in progress or completed without  *)
(* an officer, nor in progress or completed without its time stamp.          *)
THEOREM WorkAttributed == Spec => []WorkIsAttributed
<1>1. IndInv => WorkIsAttributed
  BY DEF IndInv
<1> QED
  BY <1>1, Invariance, PTL

(* No handler, however stale its SELECT, returns a load to the regional      *)
(* queue.                                                                    *)
THEOREM PendingIsLeftOnce == Spec => NeverPendingAgain
<1> DEFINE Kept == \A r \in Requests :
             rows[r].status \notin {NOT_RAISED, "PENDING_ASSIGNMENT"}
               => rows'[r].status \notin {NOT_RAISED, "PENDING_ASSIGNMENT"}
<1>1. ASSUME IndInv, [Next]_vars
      PROVE  [Kept]_vars
  <2>1. CASE UNCHANGED vars
    BY <2>1
  <2>2. ASSUME NEW c \in Calls, NEW r \in Requests, NEW n \in Cartons, Submit(c, r, n)
        PROVE  Kept
    BY <2>2 DEF Submit, IndInv, TypeOK
  <2>3. ASSUME NEW c \in Calls, Write(c)
        PROVE  Kept
    BY <1>1, <2>3, WriteKeeps
  <2>4. UNCHANGED rows => Kept
    OBVIOUS
  <2> QED
    BY <1>1, <2>1, <2>2, <2>3, <2>4, OthersLeaveRows DEF Next
<1> QED
  BY <1>1, Invariance, PTL DEF Spec, NeverPendingAgain

-----------------------------------------------------------------------------
(* L-1, as long as the legacy route is only sent the statuses its docs name. *)

Stamped(row) == row.status = "CANCELLED" => row.cancelled /\ row.canceller # None

LEMMA WriteStamps ==
  ASSUME IndInv, "CANCELLED" \notin LegacyTargets, CancelIsStamped,
         NEW c \in Calls, Write(c)
  PROVE  CancelIsStamped'
<1> DEFINE r == calls[c].req
<1>1. calls[c].step = "write"
  BY DEF Write, AssignWrite, CancelWrite, AdvanceWrite, WaybillWrite,
         LegacyWrite, NoteWrite, EditWrite, Commit
<1>2. /\ calls[c] \in Call /\ calls[c].seen \in Seen /\ calls[c].quantity \in Quantity
      /\ r \in Requests /\ Row0(c) \in Row /\ Row0(c) = rows[r]
  BY <1>1, WritingCall DEF Call
<1>3. Stamped(Row0(c))
  BY <1>2 DEF CancelIsStamped, Stamped
<1>4. SUFFICES ASSUME NEW row, rows' = [rows EXCEPT ![r] = row], Stamped(row)
               PROVE  CancelIsStamped'
  <2>1. SUFFICES \E row : rows' = [rows EXCEPT ![r] = row] /\ Stamped(row)
    BY <1>4
  <2>2. CASE AssignWrite(c)
    <3>1. Stamped(Assigned(Row0(c), calls[c].pick))
      BY <1>1, <1>2, <2>2, AssignedType
         DEF Stamped, AssignWrite, Commit, IndInv, HandlerInv
    <3> QED
      BY <2>2, <3>1 DEF AssignWrite, Commit
  <2>3. ASSUME NEW old \in Row, calls[c].by \in Staff
        PROVE  Stamped(CalledOff(old, calls[c].by))
    BY <2>3, CalledOffType, NoneAssumption DEF Stamped, Staff
  <2>4. CASE CancelWrite(c)
    <3>1. Stamped(CalledOff(Row0(c), calls[c].by))
      BY <1>1, <1>2, <2>3, <2>4 DEF CancelWrite, Commit, IndInv, HandlerInv
    <3> QED
      BY <2>4, <3>1 DEF CancelWrite, Commit
  <2>5. CASE AdvanceWrite(c)
    <3> DEFINE to == calls[c].to
               moved == Moved(Row0(c), calls[c].seen, to)
               row == IF to = "CANCELLED" THEN CalledOff(moved, calls[c].by)
                      ELSE moved
    <3>1. calls[c].by \in Staff /\ to \in LoadingRequestStatus
      BY <1>1, <1>2, <2>5 DEF AdvanceWrite, Commit, IndInv, HandlerInv
    <3>2. moved \in Row /\ moved.status = to
      BY <1>2, <3>1, MovedType
    <3>3. rows' = [rows EXCEPT ![r] = row]
      BY <2>5 DEF AdvanceWrite, Commit
    <3> HIDE DEF moved
    <3>4. Stamped(row)
      <4>1. CASE to = "CANCELLED"
        BY <2>3, <3>1, <3>2, <4>1
      <4>2. CASE to # "CANCELLED"
        BY <3>2, <4>2 DEF Stamped
      <4> QED
        BY <4>1, <4>2
    <3> QED
      BY <3>3, <3>4
  <2>6. CASE WaybillWrite(c)
    <3>1. Stamped(Recorded(Row0(c), calls[c].quantity))
      BY <1>2, RecordedType DEF Stamped
    <3> QED
      BY <2>6, <3>1 DEF WaybillWrite, Commit
  <2>7. CASE LegacyWrite(c)
    <3> DEFINE to == calls[c].to
               row == LegacyMoved(Row0(c), calls[c].seen, to)
    <3>1. to \in LoadingRequestStatus /\ to # "CANCELLED"
      BY <1>1, <1>2, <2>7 DEF LegacyWrite, Commit, IndInv, HandlerInv
    <3>2. row.status = to
      BY <1>2, <3>1, LegacyMovedType
    <3>3. rows' = [rows EXCEPT ![r] = row]
      BY <2>7 DEF LegacyWrite, Commit
    <3> HIDE DEF row
    <3> QED
      BY <3>1, <3>2, <3>3 DEF Stamped
  <2>8. CASE NoteWrite(c)
    <3>1. PICK text \in Notes \cup {None} :
            rows' = [rows EXCEPT ![r] = [Row0(c) EXCEPT !.note = text]]
      BY <2>8 DEF NoteWrite, Commit
    <3>2. Stamped([Row0(c) EXCEPT !.note = text])
      BY <1>2, <1>3, NotedType DEF Stamped
    <3> QED
      BY <3>1, <3>2
  <2>9. CASE EditWrite(c)
    <3>1. Stamped(Edited(Row0(c), calls[c].quantity))
      BY <1>2, <1>3, EditedType DEF Stamped
    <3> QED
      BY <2>9, <3>1 DEF EditWrite, Commit
  <2> QED
    BY <2>2, <2>4, <2>5, <2>6, <2>7, <2>8, <2>9 DEF Write
<1>5. rows'[r] = row /\ \A q \in Requests \ {r} : rows'[q] = rows[q]
  BY <1>2, <1>4 DEF IndInv, TypeOK
<1> QED
  BY <1>4, <1>5 DEF CancelIsStamped, Stamped

(* If the legacy route is only ever sent statuses other than CANCELLED, a    *)
(* load called off always says when and by whom: no stale write of another   *)
(* route wipes the stamp while the status stays.                             *)
THEOREM CancelStamped ==
  ASSUME "CANCELLED" \notin LegacyTargets
  PROVE  Spec => []CancelIsStamped
<1>1. Init => CancelIsStamped
  <2>1. NoRow.status # "CANCELLED"
    BY DEF NoRow, NOT_RAISED
  <2> QED
    BY <2>1 DEF Init, CancelIsStamped
<1>2. ASSUME IndInv, CancelIsStamped, [Next]_vars
      PROVE  CancelIsStamped'
  <2>1. UNCHANGED rows => CancelIsStamped'
    BY <1>2 DEF CancelIsStamped
  <2>2. CASE UNCHANGED vars
    BY <2>1, <2>2 DEF vars
  <2>3. ASSUME NEW c \in Calls, NEW r \in Requests, NEW n \in Cartons, Submit(c, r, n)
        PROVE  CancelIsStamped'
    <3>1. rows'[r] = Raised(n) /\ \A q \in Requests \ {r} : rows'[q] = rows[q]
      BY <1>2, <2>3 DEF Submit, IndInv, TypeOK
    <3> QED
      BY <1>2, <3>1, RaisedType DEF CancelIsStamped
  <2>4. ASSUME NEW c \in Calls, Write(c)
        PROVE  CancelIsStamped'
    BY <1>2, <2>4, WriteStamps
  <2> QED
    BY <1>2, <2>1, <2>2, <2>3, <2>4, OthersLeaveRows DEF Next
<1> QED
  BY <1>1, <1>2, Invariance, PTL DEF Spec

-----------------------------------------------------------------------------
(* The permit of a handler: what each route was let through to make.  One    *)
(* that has nothing to write, or writes no status, holds none.               *)

Permitted(call) ==
  /\ call.step # "write" \/ call.route \in {"note", "edit"}
       => call.to = NOT_RAISED /\ call.pick = None
  /\ call.step = "write" =>
       /\ call.route = "assign" => call.to = "ASSIGNED" /\ call.pick \in Officers
       /\ call.route # "assign" => call.pick = None
       /\ call.route = "cancel" => call.to = "CANCELLED"
       /\ call.route = "waybill" => call.to = "COMPLETED"
       /\ call.route \in {"advance", "legacy"} => call.to \in LoadingRequestStatus

PermitInv == \A c \in Calls : Permitted(calls[c])

LEMMA IdlePermit ==
  /\ Permitted(Idle) /\ PermitOf(Idle) = Promise!NoPermit
  /\ \A call : call.to = NOT_RAISED /\ call.pick = None
       => PermitOf(call) = Promise!NoPermit
  BY DEF Permitted, Idle, PermitOf, Promise!NoPermit, Promise!NOT_RAISED, NOT_RAISED

(* Changing one handler changes one permit.                                  *)
LEMMA MapCall ==
  ASSUME TypeOK, NEW c \in Calls, NEW call, calls' = [calls EXCEPT ![c] = call]
  PROVE  [d \in Calls |-> PermitOf(calls[d])]'
           = [[d \in Calls |-> PermitOf(calls[d])] EXCEPT ![c] = PermitOf(call)]
  BY DEF TypeOK

LEMMA OneCall ==
  ASSUME TypeOK, PermitInv, NEW c \in Calls, NEW call, Permitted(call),
         calls' = [calls EXCEPT ![c] = call]
  PROVE  PermitInv'
  BY DEF PermitInv, TypeOK

(* After its UPDATE a handler holds no permit.                               *)
LEMMA ThenPermit ==
  ASSUME TypeOK, PermitInv, NEW c \in Calls, NEW r, NEW notices, Then(c, r, notices)
  PROVE  /\ PermitInv'
         /\ [d \in Calls |-> PermitOf(calls[d])]'
              = [[d \in Calls |-> PermitOf(calls[d])] EXCEPT ![c] = Promise!NoPermit]
<1> DEFINE call == IF notices = <<>> THEN Idle
                   ELSE [Idle EXCEPT !.step = "tell", !.req = r, !.tell = notices]
<1>1. calls' = [calls EXCEPT ![c] = call]
  BY DEF Then
<1>2. /\ call.step # "write" /\ call.to = NOT_RAISED /\ call.pick = None
  BY DEF Idle
<1> HIDE DEF call
<1>3. Permitted(call)
  BY <1>2 DEF Permitted
<1>4. PermitOf(call) = Promise!NoPermit
  BY <1>2, IdlePermit
<1>5. PermitInv'
  BY <1>1, <1>3, OneCall
<1>6. [d \in Calls |-> PermitOf(calls[d])]'
        = [[d \in Calls |-> PermitOf(calls[d])] EXCEPT ![c] = PermitOf(call)]
  BY <1>1, MapCall
<1> QED
  BY <1>4, <1>5, <1>6

(* A SELECT and its checks grant a move of the promise, or none.             *)
LEMMA ReadGrants ==
  ASSUME IndInv, PermitInv, NEW c \in Calls, NEW r \in Requests, Read(c, r)
  PROVE  PermitInv' /\ [Promise!Next]_(Promise!promiseVars)
<1> DEFINE stat == [q \in Requests |-> rows[q].status]
           offi == [q \in Requests |-> rows[q].officer]
           perm == [d \in Calls |-> PermitOf(calls[d])]
<1>1. TypeOK
  BY DEF IndInv
<1>2. UNCHANGED rows
  BY OthersLeaveRows
<1>3. stat' = stat /\ offi' = offi
  BY <1>2
<1>4. stat[r] = rows[r].status /\ offi[r] = rows[r].officer
  OBVIOUS
<1>5. ASSUME NEW route, NEW by, NEW to, NEW pick, NEW n, NEW seen,
             Begin(c, r, route, by, to, pick, n, seen),
             Permitted([step |-> "write", route |-> route, req |-> r, by |-> by,
                        to |-> to, pick |-> pick, quantity |-> n, seen |-> seen,
                        tell |-> <<>>]),
             \/ to = NOT_RAISED /\ pick = None
             \/ /\ to \in LoadingRequestStatus /\ pick \in Officers \cup {None}
                /\ Promise!Grantable(r, to, pick)
      PROVE  PermitInv' /\ [Promise!Next]_(Promise!promiseVars)
  <2> DEFINE call == [step |-> "write", route |-> route, req |-> r, by |-> by,
                      to |-> to, pick |-> pick, quantity |-> n, seen |-> seen,
                      tell |-> <<>>]
  <2>1. calls' = [calls EXCEPT ![c] = call] /\ calls[c].step = "idle" /\ stat[r] # NOT_RAISED
    BY <1>5 DEF Begin
  <2>2. call.req = r /\ call.to = to /\ call.pick = pick
    OBVIOUS
  <2>3. Permitted(call)
    BY <1>5
  <2> HIDE DEF call
  <2>4. PermitInv'
    BY <1>1, <2>1, <2>3, OneCall
  <2>5. perm' = [perm EXCEPT ![c] = PermitOf(call)]
    BY <1>1, <2>1, MapCall
  <2>6. perm[c] = Promise!NoPermit
    BY <2>1, IdlePermit DEF PermitInv, Permitted
  <2>7. CASE to = NOT_RAISED /\ pick = None
    <3>1. PermitOf(call) = Promise!NoPermit
      BY <2>2, <2>7, IdlePermit
    <3>2. perm' = perm
      BY <2>5, <2>6, <3>1
    <3> QED
      BY <1>3, <2>4, <3>2 DEF Promise!promiseVars
  <2>8. CASE /\ to \in LoadingRequestStatus /\ pick \in Officers \cup {None}
             /\ Promise!Grantable(r, to, pick)
    <3>1. to # NOT_RAISED
      BY <2>8 DEF LoadingRequestStatus, NOT_RAISED
    <3>2. PermitOf(call) = [req |-> r, to |-> to, officer |-> pick]
      BY <2>2, <3>1 DEF PermitOf
    <3>3. to \in Promise!LoadingRequestStatus
      BY <2>8 DEF Promise!LoadingRequestStatus, LoadingRequestStatus
    <3>4. perm' = [perm EXCEPT ![c] = [req |-> r, to |-> to, officer |-> pick]]
      BY <2>5, <3>2
    <3>5. stat[r] # Promise!NOT_RAISED
      BY <2>1 DEF Promise!NOT_RAISED, NOT_RAISED
    <3>6. Promise!Grant(c, r)
      BY <1>3, <2>6, <2>8, <3>3, <3>4, <3>5, Zenon DEF Promise!Grant
    <3>7. Promise!Next
      BY <3>6, Zenon DEF Promise!Next
    <3> QED
      BY <2>4, <3>7
  <2> QED
    BY <1>5, <2>7, <2>8
<1>6. ASSUME NEW o \in Officers, ensureOwnAssignment(r, o)
      PROVE  rows[r].officer # None
  BY <1>6, NoneAssumption DEF ensureOwnAssignment
<1>7. ASSUME NEW to, rows[r].officer # None \/ to = "CANCELLED",
             assertLoadingTransition(rows[r].status, to)
      PROVE  Promise!Grantable(r, to, None)
  BY <1>4, <1>7 DEF Promise!Grantable, assertLoadingTransition,
     Promise!assertLoadingTransition, ALLOWED_TRANSITIONS, Promise!ALLOWED_TRANSITIONS
<1>8. ASSUME NEW a \in Desk, NEW o \in Officers, AssignRead(c, r, a, o)
      PROVE  PermitInv' /\ [Promise!Next]_(Promise!promiseVars)
  <2>1. Begin(c, r, "assign", a, "ASSIGNED", o, None, SawNothing)
    BY <1>8 DEF AssignRead
  <2>2. Promise!Grantable(r, "ASSIGNED", o)
    BY <1>4, <1>8 DEF AssignRead, StillPending, Promise!Grantable
  <2>3. "ASSIGNED" \in LoadingRequestStatus
    BY DEF LoadingRequestStatus
  <2> QED
    BY <1>5, <2>1, <2>2, <2>3 DEF Permitted
<1>9. ASSUME NEW a \in Desk, CancelRead(c, r, a)
      PROVE  PermitInv' /\ [Promise!Next]_(Promise!promiseVars)
  <2>1. Begin(c, r, "cancel", a, "CANCELLED", None, None, SawOfficer(rows[r]))
    BY <1>9 DEF CancelRead
  <2>2. Promise!Grantable(r, "CANCELLED", None)
    BY <1>7, <1>9 DEF CancelRead, assertCancellable
  <2>3. "CANCELLED" \in LoadingRequestStatus
    BY DEF LoadingRequestStatus
  <2> QED
    BY <1>5, <2>1, <2>2, <2>3 DEF Permitted
<1>10. ASSUME NEW o \in Officers, NEW to \in QUEUE_STATUS_TRANSITIONS, AdvanceRead(c, r, o, to)
       PROVE  PermitInv' /\ [Promise!Next]_(Promise!promiseVars)
  <2>1. Begin(c, r, "advance", o, to, None, None, SawStamps(rows[r]))
    BY <1>10 DEF AdvanceRead
  <2>2. Promise!Grantable(r, to, None)
    BY <1>6, <1>7, <1>10 DEF AdvanceRead
  <2>3. to \in LoadingRequestStatus
    BY DEF LoadingRequestStatus, QUEUE_STATUS_TRANSITIONS
  <2> QED
    BY <1>5, <2>1, <2>2, <2>3 DEF Permitted
<1>11. ASSUME NEW o \in Officers, NEW n \in Cartons, WaybillRead(c, r, o, n)
       PROVE  PermitInv' /\ [Promise!Next]_(Promise!promiseVars)
  <2>1. Begin(c, r, "waybill", o, "COMPLETED", None, n, SawNothing)
    BY <1>11 DEF WaybillRead
  <2>2. Promise!Grantable(r, "COMPLETED", None)
    BY <1>6, <1>7, <1>11 DEF WaybillRead
  <2>3. "COMPLETED" \in LoadingRequestStatus
    BY DEF LoadingRequestStatus
  <2> QED
    BY <1>5, <2>1, <2>2, <2>3 DEF Permitted
<1>12. ASSUME NEW o \in Officers, NEW to \in LegacyTargets, LegacyRead(c, r, o, to)
       PROVE  PermitInv' /\ [Promise!Next]_(Promise!promiseVars)
  <2>1. Begin(c, r, "legacy", o, to, None, None, SawStamps(rows[r]))
    BY <1>12 DEF LegacyRead
  <2>2. Promise!Grantable(r, to, None)
    BY <1>6, <1>7, <1>12 DEF LegacyRead
  <2>3. to \in LoadingRequestStatus
    BY TargetsAssumption
  <2> QED
    BY <1>5, <2>1, <2>2, <2>3 DEF Permitted
<1>13. ASSUME NEW o \in Officers, NoteRead(c, r, o)
       PROVE  PermitInv' /\ [Promise!Next]_(Promise!promiseVars)
  <2>1. Begin(c, r, "note", o, NOT_RAISED, None, None, SawNothing)
    BY <1>13 DEF NoteRead
  <2> QED
    BY <1>5, <2>1 DEF Permitted
<1>14. ASSUME NEW n \in Cartons, EditRead(c, r, n)
       PROVE  PermitInv' /\ [Promise!Next]_(Promise!promiseVars)
  <2>1. Begin(c, r, "edit", Distributor, NOT_RAISED, None, n, SawNothing)
    BY <1>14 DEF EditRead
  <2> QED
    BY <1>5, <2>1 DEF Permitted
<1> QED
  BY <1>8, <1>9, <1>10, <1>11, <1>12, <1>13, <1>14 DEF Read

(* The refinement mapping of one UPDATE.                                     *)
LEMMA MapUpdate ==
  ASSUME TypeOK, NEW r \in Requests, NEW row, rows' = [rows EXCEPT ![r] = row]
  PROVE  /\ [q \in Requests |-> rows[q].status]'
              = [[q \in Requests |-> rows[q].status] EXCEPT ![r] = row.status]
         /\ [q \in Requests |-> rows[q].officer]'
              = [[q \in Requests |-> rows[q].officer] EXCEPT ![r] = row.officer]
  BY DEF TypeOK

(* An UPDATE writes the status and the officer of its permit, or neither.    *)
Writes(call, old, new) ==
  IF call.to = NOT_RAISED
  THEN new.status = old.status /\ new.officer = old.officer
  ELSE /\ new.status = call.to
       /\ new.officer = IF call.pick = None THEN old.officer ELSE call.pick

LEMMA UpdateMakes ==
  ASSUME IndInv, PermitInv, NEW c \in Calls, calls[c].step = "write",
         NEW row, NEW notices, rows' = [rows EXCEPT ![calls[c].req] = row],
         Then(c, calls[c].req, notices), Writes(calls[c], rows[calls[c].req], row)
  PROVE  PermitInv' /\ [Promise!Next]_(Promise!promiseVars)
<1> DEFINE r == calls[c].req
           stat == [q \in Requests |-> rows[q].status]
           offi == [q \in Requests |-> rows[q].officer]
           perm == [d \in Calls |-> PermitOf(calls[d])]
<1>1. TypeOK /\ r \in Requests
  BY WritingCall DEF IndInv
<1>2. PermitInv' /\ perm' = [perm EXCEPT ![c] = Promise!NoPermit]
  BY <1>1, ThenPermit
<1>3. stat' = [stat EXCEPT ![r] = row.status] /\ offi' = [offi EXCEPT ![r] = row.officer]
  BY <1>1, MapUpdate
<1>4. stat[r] = rows[r].status /\ offi[r] = rows[r].officer /\ perm[c] = PermitOf(calls[c])
  BY <1>1
<1>5. CASE calls[c].to = NOT_RAISED
  <2>1. calls[c].pick = None
    BY <1>5, NoneAssumption DEF PermitInv, Permitted, LoadingRequestStatus, NOT_RAISED
  <2>2. perm[c] = Promise!NoPermit
    BY <1>4, <1>5, <2>1, IdlePermit
  <2>3. stat' = stat /\ offi' = offi /\ perm' = perm
    BY <1>2, <1>3, <1>4, <1>5, <2>2 DEF Writes
  <2> QED
    BY <1>2, <2>3 DEF Promise!promiseVars
<1>6. CASE calls[c].to # NOT_RAISED
  <2>1. perm[c] = [req |-> r, to |-> calls[c].to, officer |-> calls[c].pick]
    BY <1>4, <1>6 DEF PermitOf
  <2>2. perm[c] # Promise!NoPermit
    BY <1>6, <2>1 DEF Promise!NoPermit, Promise!NOT_RAISED, NOT_RAISED
  <2>3. /\ row.status = perm[c].to
        /\ row.officer = IF perm[c].officer = None THEN offi[r] ELSE perm[c].officer
        /\ perm[c].req = r
    BY <1>4, <1>6, <2>1 DEF Writes
  <2> HIDE DEF stat, offi, perm
  <2>4. /\ stat' = [stat EXCEPT ![r] = perm[c].to]
        /\ offi' = [offi EXCEPT ![r] = IF perm[c].officer = None THEN @ ELSE perm[c].officer]
    BY <1>3, <2>3
  <2>5. PICK q \in Requests : q = r
    BY <1>1
  <2>6. Promise!Make(c, q)
    BY <1>2, <2>2, <2>3, <2>4, <2>5 DEF Promise!Make, stat, offi, perm
  <2>7. Promise!Next
    BY <2>6, Zenon DEF Promise!Next
  <2> QED
    BY <1>2, <2>7
<1> QED
  BY <1>5, <1>6

LEMMA WriteMakes ==
  ASSUME IndInv, PermitInv, NEW c \in Calls, Write(c)
  PROVE  PermitInv' /\ [Promise!Next]_(Promise!promiseVars)
<1> DEFINE r == calls[c].req
<1>1. calls[c].step = "write"
  BY DEF Write, AssignWrite, CancelWrite, AdvanceWrite, WaybillWrite,
         LegacyWrite, NoteWrite, EditWrite, Commit
<1>2. /\ calls[c] \in Call /\ calls[c].seen \in Seen /\ calls[c].quantity \in Quantity
      /\ r \in Requests /\ Row0(c) \in Row /\ Row0(c) = rows[r]
  BY <1>1, WritingCall DEF Call
<1>3. Permitted(calls[c])
  BY DEF PermitInv
<1>4. ASSUME NEW route, NEW row, NEW notices, Commit(c, route, row, notices),
             Writes(calls[c], rows[r], row)
      PROVE  PermitInv' /\ [Promise!Next]_(Promise!promiseVars)
  <2>1. rows' = [rows EXCEPT ![r] = row] /\ Then(c, r, notices)
    BY <1>4 DEF Commit
  <2> QED
    BY <1>1, <1>4, <2>1, UpdateMakes
<1>5. CASE AssignWrite(c)
  <2> DEFINE o == calls[c].pick
             row == Assigned(Row0(c), o)
  <2>1. /\ Commit(c, "assign", row, AssignNotices(o)) /\ calls[c].route = "assign"
    BY <1>5 DEF AssignWrite, Commit
  <2>2. o \in Officers /\ o # None /\ calls[c].to = "ASSIGNED"
    BY <1>1, <1>3, <2>1, NoneAssumption DEF Permitted
  <2>3. row.status = "ASSIGNED" /\ row.officer = o
    BY <1>2, <2>2, AssignedType
  <2> HIDE DEF row
  <2>4. Writes(calls[c], rows[r], row)
    BY <2>2, <2>3 DEF Writes, NOT_RAISED
  <2> QED
    BY <1>4, <2>1, <2>4
<1>6. CASE CancelWrite(c)
  <2> DEFINE row == CalledOff(Row0(c), calls[c].by)
  <2>1. Commit(c, "cancel", row, CancelNotices(calls[c].seen)) /\ calls[c].route = "cancel"
    BY <1>6 DEF CancelWrite, Commit
  <2>2. calls[c].by \in Staff /\ calls[c].to = "CANCELLED" /\ calls[c].pick = None
    BY <1>1, <1>3, <2>1 DEF Permitted, IndInv, HandlerInv
  <2>3. row.officer = rows[r].officer /\ row.status = "CANCELLED"
    BY <1>2, <2>2, CalledOffType
  <2> HIDE DEF row
  <2>4. Writes(calls[c], rows[r], row)
    BY <2>2, <2>3 DEF Writes, NOT_RAISED
  <2> QED
    BY <1>4, <2>1, <2>4
<1>7. CASE AdvanceWrite(c)
  <2> DEFINE to == calls[c].to
             moved == Moved(Row0(c), calls[c].seen, to)
             row == IF to = "CANCELLED" THEN CalledOff(moved, calls[c].by)
                    ELSE moved
  <2>1. Commit(c, "advance", row, AdvanceNotices(to)) /\ calls[c].route = "advance"
    BY <1>7 DEF AdvanceWrite, Commit
  <2>2. /\ calls[c].by \in Staff /\ to \in LoadingRequestStatus /\ calls[c].pick = None
    BY <1>1, <1>3, <2>1 DEF Permitted, IndInv, HandlerInv
  <2>3. moved \in Row /\ moved.status = to /\ moved.officer = rows[r].officer
    BY <1>2, <2>2, MovedType
  <2> HIDE DEF moved
  <2>4. row.officer = rows[r].officer /\ row.status = to
    <3>1. CASE to = "CANCELLED"
      BY <2>2, <2>3, <3>1, CalledOffType
    <3>2. CASE to # "CANCELLED"
      BY <2>3, <3>2
    <3> QED
      BY <3>1, <3>2
  <2> HIDE DEF row
  <2>5. Writes(calls[c], rows[r], row)
    BY <2>2, <2>4 DEF Writes, LoadingRequestStatus, NOT_RAISED
  <2> QED
    BY <1>4, <2>1, <2>5
<1>8. CASE WaybillWrite(c)
  <2> DEFINE row == Recorded(Row0(c), calls[c].quantity)
  <2>1. Commit(c, "waybill", row, <<ToDistributor("COMPLETED")>>) /\ calls[c].route = "waybill"
    BY <1>8 DEF WaybillWrite, Commit
  <2>2. calls[c].to = "COMPLETED" /\ calls[c].pick = None
    BY <1>1, <1>3, <2>1 DEF Permitted
  <2>3. row.officer = rows[r].officer /\ row.status = "COMPLETED"
    BY <1>2, RecordedType
  <2> HIDE DEF row
  <2>4. Writes(calls[c], rows[r], row)
    BY <2>2, <2>3 DEF Writes, NOT_RAISED
  <2> QED
    BY <1>4, <2>1, <2>4
<1>9. CASE LegacyWrite(c)
  <2> DEFINE to == calls[c].to
             row == LegacyMoved(Row0(c), calls[c].seen, to)
             notices == <<ToDistributor(IF to = "COMPLETED" THEN to
                                        ELSE "LOADING_IN_PROGRESS")>>
  <2>1. Commit(c, "legacy", row, notices) /\ calls[c].route = "legacy"
    BY <1>9 DEF LegacyWrite, Commit
  <2>2. to \in LoadingRequestStatus /\ calls[c].pick = None
    BY <1>1, <1>3, <2>1 DEF Permitted
  <2>3. row.officer = rows[r].officer /\ row.status = to
    BY <1>2, <2>2, LegacyMovedType
  <2> HIDE DEF row
  <2>4. Writes(calls[c], rows[r], row)
    BY <2>2, <2>3 DEF Writes, LoadingRequestStatus, NOT_RAISED
  <2> QED
    BY <1>4, <2>1, <2>4
<1>10. CASE NoteWrite(c)
  <2>1. PICK text \in Notes \cup {None} :
          Commit(c, "note", [Row0(c) EXCEPT !.note = text], <<>>)
    BY <1>10 DEF NoteWrite
  <2> DEFINE row == [Row0(c) EXCEPT !.note = text]
  <2>2. calls[c].to = NOT_RAISED
    BY <1>3, <2>1 DEF Commit, Permitted
  <2>3. row.officer = rows[r].officer /\ row.status = rows[r].status
    BY <1>2, NotedType
  <2>4. Commit(c, "note", row, <<>>)
    BY <2>1
  <2> HIDE DEF row
  <2>5. Writes(calls[c], rows[r], row)
    BY <2>2, <2>3 DEF Writes
  <2> QED
    BY <1>4, <2>4, <2>5
<1>11. CASE EditWrite(c)
  <2> DEFINE row == Edited(Row0(c), calls[c].quantity)
  <2>1. Commit(c, "edit", row, <<>>) /\ calls[c].route = "edit"
    BY <1>11 DEF EditWrite, Commit
  <2>2. calls[c].to = NOT_RAISED
    BY <1>3, <2>1 DEF Permitted
  <2>3. row.officer = rows[r].officer /\ row.status = rows[r].status
    BY <1>2, EditedType
  <2> HIDE DEF row
  <2>4. Writes(calls[c], rows[r], row)
    BY <2>2, <2>3 DEF Writes
  <2> QED
    BY <1>4, <2>1, <2>4
<1> QED
  BY <1>5, <1>6, <1>7, <1>8, <1>9, <1>10, <1>11 DEF Write

LEMMA SubmitIsRaise ==
  ASSUME IndInv, PermitInv, NEW c \in Calls, NEW r \in Requests, NEW n \in Cartons,
         Submit(c, r, n)
  PROVE  PermitInv' /\ Promise!Raise(r)
<1>1. /\ rows' = [rows EXCEPT ![r] = Raised(n)] /\ rows[r].status = NOT_RAISED
      /\ calls[c].step = "idle"
      /\ Then(c, r, <<[to |-> RegionalAdmins, about |-> "PENDING_ASSIGNMENT"]>>)
  BY DEF Submit
<1>2. Raised(n).status = "PENDING_ASSIGNMENT" /\ Raised(n).officer = None
  BY RaisedType
<1>3. /\ [q \in Requests |-> rows[q].status]'
           = [[q \in Requests |-> rows[q].status] EXCEPT ![r] = "PENDING_ASSIGNMENT"]
      /\ [q \in Requests |-> rows[q].officer]'
           = [[q \in Requests |-> rows[q].officer] EXCEPT ![r] = None]
  <2>1. TypeOK /\ rows' = [rows EXCEPT ![r] = Raised(n)]
    BY <1>1 DEF IndInv
  <2>2. /\ [q \in Requests |-> rows[q].status]'
             = [[q \in Requests |-> rows[q].status] EXCEPT ![r] = Raised(n).status]
        /\ [q \in Requests |-> rows[q].officer]'
             = [[q \in Requests |-> rows[q].officer] EXCEPT ![r] = Raised(n).officer]
    BY <2>1, MapUpdate
  <2> QED
    BY <1>2, <2>2
<1>4. rows[r].officer = None
  BY <1>1 DEF IndInv, UnraisedIsEmpty
<1> DEFINE perm == [d \in Calls |-> PermitOf(calls[d])]
<1>5. PermitInv' /\ perm' = [perm EXCEPT ![c] = Promise!NoPermit]
  BY <1>1, ThenPermit DEF IndInv
<1>6. perm[c] = Promise!NoPermit
  BY <1>1, IdlePermit DEF PermitInv, Permitted
<1>7. perm' = perm
  BY <1>5, <1>6
<1> QED
  BY <1>1, <1>3, <1>4, <1>5, <1>7 DEF Promise!Raise, Promise!NOT_RAISED, NOT_RAISED

LEMMA NotifyKeepsPermits ==
  ASSUME IndInv, PermitInv, NEW c \in Calls, Notify(c)
  PROVE  PermitInv' /\ UNCHANGED Promise!promiseVars
<1> DEFINE perm == [d \in Calls |-> PermitOf(calls[d])]
<1>1. /\ calls[c].step = "tell" /\ UNCHANGED rows
      /\ Then(c, calls[c].req, Tail(calls[c].tell))
  BY DEF Notify
<1>2. PermitInv' /\ perm' = [perm EXCEPT ![c] = Promise!NoPermit]
  BY <1>1, ThenPermit DEF IndInv
<1>3. perm[c] = Promise!NoPermit
  BY <1>1, IdlePermit DEF PermitInv, Permitted
<1>4. perm' = perm
  BY <1>2, <1>3
<1> QED
  BY <1>1, <1>2, <1>4 DEF Promise!promiseVars

LEMMA AbandonLapses ==
  ASSUME IndInv, PermitInv, NEW c \in Calls, Abandon(c)
  PROVE  PermitInv' /\ Promise!Lapse(c)
<1>1. calls' = [calls EXCEPT ![c] = Idle] /\ UNCHANGED rows
  BY DEF Abandon
<1>2. [d \in Calls |-> PermitOf(calls[d])]'
        = [[d \in Calls |-> PermitOf(calls[d])] EXCEPT ![c] = PermitOf(Idle)]
  BY <1>1, MapCall DEF IndInv
<1>3. PermitInv'
  BY <1>1, IdlePermit, OneCall DEF IndInv
<1> QED
  BY <1>1, <1>2, <1>3, IdlePermit DEF Promise!Lapse

(* However many handlers overlap, the routes implement LoadingPromise: for   *)
(* any number of requests, officers and handlers, and any body the legacy    *)
(* route may be sent, the status and the officer of a load change only by a  *)
(* move the table allowed when its route looked, made once.                  *)
THEOREM RoutesKeepThePromise == Spec => ImplementsPromise
<1>1. Init => PermitInv /\ Promise!Init
  <2>1. NoRow.status = NOT_RAISED /\ NoRow.officer = None
    BY DEF NoRow
  <2>2. Init => Promise!Init
    BY <2>1, IdlePermit DEF Init, Promise!Init, Promise!NOT_RAISED, NOT_RAISED
  <2>3. Init => PermitInv
    BY IdlePermit DEF Init, PermitInv
  <2> QED
    BY <2>2, <2>3
<1>2. ASSUME IndInv, PermitInv, [Next]_vars
      PROVE  PermitInv' /\ [Promise!Next]_(Promise!promiseVars)
  <2>1. CASE UNCHANGED vars
    BY <1>2, <2>1 DEF vars, PermitInv, Promise!promiseVars
  <2>2. ASSUME NEW c \in Calls, NEW r \in Requests, NEW n \in Cartons, Submit(c, r, n)
        PROVE  PermitInv' /\ Promise!Next
    BY <1>2, <2>2, SubmitIsRaise DEF Promise!Next
  <2>3. ASSUME NEW c \in Calls, NEW r \in Requests, Read(c, r)
        PROVE  PermitInv' /\ [Promise!Next]_(Promise!promiseVars)
    BY <1>2, <2>3, ReadGrants
  <2>4. ASSUME NEW c \in Calls, Write(c)
        PROVE  PermitInv' /\ [Promise!Next]_(Promise!promiseVars)
    BY <1>2, <2>4, WriteMakes
  <2>5. ASSUME NEW c \in Calls, Notify(c)
        PROVE  PermitInv' /\ UNCHANGED Promise!promiseVars
    BY <1>2, <2>5, NotifyKeepsPermits
  <2>6. ASSUME NEW c \in Calls, Abandon(c)
        PROVE  PermitInv' /\ Promise!Next
    BY <1>2, <2>6, AbandonLapses DEF Promise!Next
  <2> QED
    BY <1>2, <2>1, <2>2, <2>3, <2>4, <2>5, <2>6 DEF Next
<1> QED
  BY <1>1, <1>2, Invariance, PTL DEF Spec, ImplementsPromise, Promise!Spec

-----------------------------------------------------------------------------
(* What has been said of a load: a notice was recorded, or a handler is      *)
(* still to record it, or one died that had to.                              *)
Among(notice, notices) == \E i \in DOMAIN notices : notices[i] = notice

Owes(c, r, notice) ==
  calls[c].step = "tell" /\ calls[c].req = r /\ Among(notice, calls[c].tell)

Announced(r, notice) ==
  notice \in told[r] \/ r \in lost \/ \E c \in Calls : Owes(c, r, notice)

LEMMA AmongTail ==
  ASSUME NEW S, NEW notices \in Seq(S), notices # <<>>, NEW notice, Among(notice, notices)
  PROVE  notice = Head(notices) \/ (Among(notice, Tail(notices)) /\ Tail(notices) # <<>>)
<1>1. PICK i \in DOMAIN notices : notices[i] = notice
  BY DEF Among
<1>2. /\ i \in 1..Len(notices) /\ Len(notices) \in Nat \ {0} /\ Head(notices) = notices[1]
      /\ Tail(notices) \in Seq(S) /\ Len(Tail(notices)) = Len(notices) - 1
  BY <1>1
<1>3. CASE i = 1
  <2>1. notices[1] = notice
    BY <1>1, <1>3
  <2>2. Head(notices) = notices[1]
    BY <1>2
  <2> QED
    BY <2>1, <2>2
<1>4. CASE i # 1
  <2>1. i - 1 \in 1..Len(Tail(notices)) /\ Tail(notices)[i - 1] = notices[i]
    BY <1>2, <1>4
  <2>2. i - 1 \in DOMAIN Tail(notices)
    BY <1>2, <2>1
  <2>3. Tail(notices) # <<>>
    BY <2>2
  <2> QED
    BY <1>1, <2>1, <2>2, <2>3 DEF Among
<1> QED
  BY <1>3, <1>4

(* What a handler is left with after its UPDATE or a notice.                 *)
LEMMA ThenOwes ==
  ASSUME TypeOK, NEW c \in Calls, NEW r \in Requests, NEW notices, Then(c, r, notices),
         NEW notice, Among(notice, notices), notices # <<>>
  PROVE  Owes(c, r, notice)'
<1>1. calls'[c] = [Idle EXCEPT !.step = "tell", !.req = r, !.tell = notices]
  BY DEF Then, TypeOK
<1>2. calls'[c].step = "tell" /\ calls'[c].req = r /\ calls'[c].tell = notices
  BY <1>1 DEF Idle
<1> QED
  BY <1>2 DEF Owes

(* What was announced stays so, whatever happens next.                       *)
LEMMA AnnouncedStays ==
  ASSUME IndInv, [Next]_vars, NEW r \in Requests, NEW notice, Announced(r, notice)
  PROVE  Announced(r, notice)'
<1>1. (\A q \in Requests : told[q] \subseteq told'[q]) /\ lost \subseteq lost'
  <2>1. ASSUME NEW c \in Calls, Notify(c)
        PROVE  (\A q \in Requests : told[q] \subseteq told'[q]) /\ lost \subseteq lost'
    BY <2>1 DEF Notify, IndInv, TypeOK
  <2>2. ASSUME NEW c \in Calls, Abandon(c)
        PROVE  told' = told /\ lost \subseteq lost'
    BY <2>2 DEF Abandon
  <2>3. ASSUME NEW c \in Calls, NEW q \in Requests, Read(c, q)
        PROVE  told' = told /\ lost' = lost
    BY <2>3 DEF Read, AssignRead, CancelRead, AdvanceRead, WaybillRead, LegacyRead, NoteRead, EditRead, Begin
  <2>4. ASSUME NEW c \in Calls, Write(c)
        PROVE  told' = told /\ lost' = lost
    BY <2>4, WriteIsSuccessor DEF Commit
  <2>5. ASSUME NEW c \in Calls, NEW q \in Requests, NEW n \in Cartons, Submit(c, q, n)
        PROVE  told' = told /\ lost' = lost
    BY <2>5 DEF Submit
  <2> QED
    BY <2>1, <2>2, <2>3, <2>4, <2>5 DEF Next, vars
<1>2. CASE notice \in told[r] \/ r \in lost
  BY <1>1, <1>2 DEF Announced
<1>3. ASSUME NEW d \in Calls, Owes(d, r, notice)
      PROVE  Announced(r, notice)'
  <2>1. calls[d].step = "tell" /\ calls[d].req = r /\ Among(notice, calls[d].tell)
    BY <1>3 DEF Owes
  <2>2. CASE calls'[d] = calls[d]
    BY <2>1, <2>2 DEF Owes, Announced
  <2>3. CASE Notify(d)
    <3>1. calls[d].tell \in Seq(Notice) /\ calls[d].tell # <<>>
      BY <2>1 DEF IndInv, TypeOK, HandlerInv, Call
    <3>2. CASE notice = Head(calls[d].tell)
      <4>1. notice \in told'[r]
        BY <2>1, <2>3, <3>2 DEF Notify, IndInv, TypeOK
      <4> QED
        BY <4>1 DEF Announced
    <3>3. CASE Among(notice, Tail(calls[d].tell)) /\ Tail(calls[d].tell) # <<>>
      <4>1. Then(d, r, Tail(calls[d].tell))
        BY <2>1, <2>3 DEF Notify
      <4>2. Owes(d, r, notice)'
        BY <3>3, <4>1, ThenOwes DEF IndInv
      <4> QED
        BY <4>2 DEF Announced
    <3> QED
      BY <2>1, <3>1, <3>2, <3>3, AmongTail
  <2>4. CASE Abandon(d)
    BY <2>1, <2>4 DEF Abandon, Announced
  <2>5. \/ calls'[d] = calls[d] \/ Notify(d) \/ Abandon(d)
    <3>1. CASE UNCHANGED vars
      BY <3>1 DEF vars
    <3>2. ASSUME NEW c \in Calls, c # d, Notify(c) \/ Abandon(c)
          PROVE  calls'[d] = calls[d]
      BY <3>2 DEF Notify, Abandon, Then, IndInv, TypeOK
    <3>3. ASSUME NEW c \in Calls, NEW q \in Requests, NEW n \in Cartons, Submit(c, q, n)
          PROVE  calls'[d] = calls[d]
      BY <2>1, <3>3 DEF Submit, Then, IndInv, TypeOK
    <3>4. ASSUME NEW c \in Calls, NEW q \in Requests, Read(c, q)
          PROVE  calls'[d] = calls[d]
      BY <2>1, <3>4 DEF Read, AssignRead, CancelRead, AdvanceRead, WaybillRead, LegacyRead, NoteRead,
                       EditRead, Begin, IndInv, TypeOK
    <3>5. ASSUME NEW c \in Calls, Write(c)
          PROVE  calls'[d] = calls[d]
      <4>1. PICK row, notices : Commit(c, calls[c].route, row, notices)
        BY <3>5, WriteIsSuccessor
      <4> QED
        BY <2>1, <4>1 DEF Commit, Then, IndInv, TypeOK
    <3> QED
      BY <3>1, <3>2, <3>3, <3>4, <3>5 DEF Next
  <2> QED
    BY <2>2, <2>3, <2>4, <2>5
<1> QED
  BY <1>2, <1>3 DEF Announced

(* An UPDATE that changes the status, or the officer, has the notice of it   *)
(* among those the handler then awaits.                                      *)
Says(row, old, notices) ==
  /\ row.status = old.status \/ Among(ToDistributor(row.status), notices)
  /\ row.officer = old.officer \/ Among(ToOfficer(row.officer, "ASSIGNED"), notices)

LEMMA WriteSays ==
  ASSUME IndInv, LegacyTargets \subseteq {"LOADING_IN_PROGRESS", "COMPLETED"},
         NEW c \in Calls, Write(c)
  PROVE  \E row, notices :
           /\ rows' = [rows EXCEPT ![calls[c].req] = row]
           /\ Then(c, calls[c].req, notices)
           /\ Says(row, rows[calls[c].req], notices)
<1> DEFINE r == calls[c].req
<1>1. calls[c].step = "write"
  BY DEF Write, AssignWrite, CancelWrite, AdvanceWrite, WaybillWrite,
         LegacyWrite, NoteWrite, EditWrite, Commit
<1>2. /\ calls[c] \in Call /\ calls[c].seen \in Seen /\ calls[c].quantity \in Quantity
      /\ r \in Requests /\ Row0(c) \in Row /\ Row0(c) = rows[r]
  BY <1>1, WritingCall DEF Call
<1>3. \A n : Among(n, <<n>>)
  BY DEF Among
<1>4. CASE AssignWrite(c)
  <2> DEFINE o == calls[c].pick
             row == Assigned(Row0(c), o)
             notices == AssignNotices(o)
  <2>1. row.status = "ASSIGNED" /\ row.officer = o
    BY <1>1, <1>2, <1>4, AssignedType DEF AssignWrite, Commit, IndInv, HandlerInv
  <2>2. Among(ToDistributor("ASSIGNED"), notices) /\ Among(ToOfficer(o, "ASSIGNED"), notices)
    BY DEF Among, AssignNotices
  <2>3. rows' = [rows EXCEPT ![r] = row] /\ Then(c, r, notices)
    BY <1>4 DEF AssignWrite, Commit
  <2> HIDE DEF row, notices
  <2> QED
    BY <2>1, <2>2, <2>3 DEF Says
<1>5. CASE CancelWrite(c)
  <2> DEFINE row == CalledOff(Row0(c), calls[c].by)
             notices == CancelNotices(calls[c].seen)
  <2>1. row.status = "CANCELLED" /\ row.officer = rows[r].officer
    BY <1>1, <1>2, <1>5, CalledOffType DEF CancelWrite, Commit, IndInv, HandlerInv
  <2>2. Among(ToDistributor("CANCELLED"), notices)
    BY DEF Among, CancelNotices
  <2>3. rows' = [rows EXCEPT ![r] = row] /\ Then(c, r, notices)
    BY <1>5 DEF CancelWrite, Commit
  <2> HIDE DEF row, notices
  <2> QED
    BY <2>1, <2>2, <2>3 DEF Says
<1>6. CASE AdvanceWrite(c)
  <2> DEFINE to == calls[c].to
             moved == Moved(Row0(c), calls[c].seen, to)
             row == IF to = "CANCELLED" THEN CalledOff(moved, calls[c].by) ELSE moved
             notices == AdvanceNotices(to)
  <2>1. calls[c].by \in Staff /\ to \in LoadingRequestStatus
    BY <1>1, <1>2, <1>6 DEF AdvanceWrite, Commit, IndInv, HandlerInv
  <2>2. moved \in Row /\ moved.status = to /\ moved.officer = rows[r].officer
    BY <1>2, <2>1, MovedType
  <2>3. rows' = [rows EXCEPT ![r] = row] /\ Then(c, r, notices)
    BY <1>6 DEF AdvanceWrite, Commit
  <2> HIDE DEF moved
  <2>4. row.officer = rows[r].officer /\ row.status = to
    <3>1. CASE to = "CANCELLED"
      BY <2>1, <2>2, <3>1, CalledOffType
    <3>2. CASE to # "CANCELLED"
      BY <2>2, <3>2
    <3> QED
      BY <3>1, <3>2
  <2>5. Among(ToDistributor(to), notices)
    BY <1>3 DEF AdvanceNotices
  <2> HIDE DEF row, notices
  <2> QED
    BY <2>3, <2>4, <2>5 DEF Says
<1>7. CASE WaybillWrite(c)
  <2> DEFINE row == Recorded(Row0(c), calls[c].quantity)
             notices == <<ToDistributor("COMPLETED")>>
  <2>1. row.officer = rows[r].officer /\ row.status = "COMPLETED"
    BY <1>2, RecordedType
  <2>2. rows' = [rows EXCEPT ![r] = row] /\ Then(c, r, notices)
    BY <1>7 DEF WaybillWrite, Commit
  <2>3. Among(ToDistributor("COMPLETED"), notices)
    BY <1>3
  <2> HIDE DEF row, notices
  <2> QED
    BY <2>1, <2>2, <2>3 DEF Says
<1>8. CASE LegacyWrite(c)
  <2> DEFINE to == calls[c].to
             row == LegacyMoved(Row0(c), calls[c].seen, to)
             notices == <<ToDistributor(IF to = "COMPLETED" THEN to ELSE "LOADING_IN_PROGRESS")>>
  <2>1. to \in LoadingRequestStatus /\ to \in {"LOADING_IN_PROGRESS", "COMPLETED"}
    BY <1>1, <1>2, <1>8 DEF LegacyWrite, Commit, IndInv, HandlerInv
  <2>2. row.officer = rows[r].officer /\ row.status = to
    BY <1>2, <2>1, LegacyMovedType
  <2>3. rows' = [rows EXCEPT ![r] = row] /\ Then(c, r, notices)
    BY <1>8 DEF LegacyWrite, Commit
  <2>4. Among(ToDistributor(to), notices)
    BY <1>3, <2>1
  <2> HIDE DEF row, notices
  <2> QED
    BY <2>2, <2>3, <2>4 DEF Says
<1>9. CASE NoteWrite(c)
  <2>1. PICK text \in Notes \cup {None} :
          rows' = [rows EXCEPT ![r] = [Row0(c) EXCEPT !.note = text]] /\ Then(c, r, <<>>)
    BY <1>9 DEF NoteWrite, Commit
  <2> DEFINE row == [Row0(c) EXCEPT !.note = text]
  <2>2. row.officer = rows[r].officer /\ row.status = rows[r].status
    BY <1>2, NotedType
  <2>3. rows' = [rows EXCEPT ![r] = row] /\ Then(c, r, <<>>)
    BY <2>1
  <2> HIDE DEF row
  <2> QED
    BY <2>2, <2>3 DEF Says
<1>10. CASE EditWrite(c)
  <2> DEFINE row == Edited(Row0(c), calls[c].quantity)
  <2>1. row.officer = rows[r].officer /\ row.status = rows[r].status
    BY <1>2, EditedType
  <2>2. rows' = [rows EXCEPT ![r] = row] /\ Then(c, r, <<>>)
    BY <1>10 DEF EditWrite, Commit
  <2> HIDE DEF row
  <2> QED
    BY <2>1, <2>2 DEF Says
<1> QED
  BY <1>4, <1>5, <1>6, <1>7, <1>8, <1>9, <1>10 DEF Write

(* The status a load is in, and the officer it is with, were announced.      *)
StatusIsAnnounced ==
  \A r \in Requests :
    /\ rows[r].status \notin {NOT_RAISED, "PENDING_ASSIGNMENT"} =>
         Announced(r, ToDistributor(rows[r].status))
    /\ rows[r].officer # None => Announced(r, ToOfficer(rows[r].officer, "ASSIGNED"))

LEMMA AnnouncedStep ==
  ASSUME IndInv, StatusIsAnnounced, [Next]_vars,
         LegacyTargets \subseteq {"LOADING_IN_PROGRESS", "COMPLETED"}
  PROVE  StatusIsAnnounced'
<1> SUFFICES ASSUME NEW q \in Requests
             PROVE  /\ rows'[q].status \notin {NOT_RAISED, "PENDING_ASSIGNMENT"} =>
                         Announced(q, ToDistributor(rows[q].status))'
                    /\ rows'[q].officer # None => Announced(q, ToOfficer(rows[q].officer, "ASSIGNED"))'
  BY DEF StatusIsAnnounced
<1>1. \A notice : Announced(q, notice) => Announced(q, notice)'
  BY AnnouncedStays
<1>2. CASE rows'[q] = rows[q]
  <2>1. rows'[q].status = rows[q].status /\ rows'[q].officer = rows[q].officer
    BY <1>2
  <2> QED
    BY <1>1, <2>1 DEF StatusIsAnnounced, Announced, Owes
<1>3. ASSUME NEW c \in Calls, NEW r \in Requests, NEW n \in Cartons, Submit(c, r, n), rows'[q] # rows[q]
      PROVE  rows'[q].status = "PENDING_ASSIGNMENT" /\ rows'[q].officer = None
  BY <1>3, RaisedType DEF Submit, IndInv, TypeOK
<1>4. ASSUME NEW c \in Calls, Write(c), rows'[q] # rows[q]
      PROVE  /\ rows'[q].status \notin {NOT_RAISED, "PENDING_ASSIGNMENT"} =>
                  Announced(q, ToDistributor(rows[q].status))'
             /\ rows'[q].officer # None => Announced(q, ToOfficer(rows[q].officer, "ASSIGNED"))'
  <2>1. PICK row, notices :
          /\ rows' = [rows EXCEPT ![calls[c].req] = row]
          /\ Then(c, calls[c].req, notices)
          /\ Says(row, rows[calls[c].req], notices)
    BY <1>4, WriteSays
  <2>2. calls[c].req = q /\ rows'[q] = row
    BY <1>4, <2>1 DEF IndInv, TypeOK
  <2>3. ASSUME NEW notice, Among(notice, notices)
        PROVE  Announced(q, notice)'
    <3>1. notices # <<>>
      BY <2>3 DEF Among
    <3>2. Owes(c, q, notice)'
      BY <2>1, <2>2, <2>3, <3>1, ThenOwes DEF IndInv
    <3> QED
      BY <3>2 DEF Announced
  <2>4. row.status \notin {NOT_RAISED, "PENDING_ASSIGNMENT"} =>
          Announced(q, ToDistributor(row.status))'
    <3>1. CASE row.status = rows[q].status
      BY <1>1, <3>1 DEF StatusIsAnnounced
    <3>2. CASE Among(ToDistributor(row.status), notices)
      BY <2>3, <3>2
    <3> QED
      BY <2>1, <2>2, <3>1, <3>2 DEF Says
  <2>5. row.officer # None => Announced(q, ToOfficer(row.officer, "ASSIGNED"))'
    <3>1. CASE row.officer = rows[q].officer
      BY <1>1, <3>1 DEF StatusIsAnnounced
    <3>2. CASE Among(ToOfficer(row.officer, "ASSIGNED"), notices)
      BY <2>3, <3>2
    <3> QED
      BY <2>1, <2>2, <3>1, <3>2 DEF Says
  <2> QED
    BY <2>2, <2>4, <2>5
<1> QED
  BY <1>2, <1>3, <1>4, OthersLeaveRows DEF Next, vars

(* A load nobody is at work on: what was announced of it was recorded.       *)
LEMMA SettledIsTold ==
  ASSUME NEW r \in Requests, Settled(r), NEW notice, Announced(r, notice)
  PROVE  notice \in told[r]
  BY DEF Settled, Announced, Owes

(* PRD 6, as long as the legacy route is only sent the statuses its docs     *)
(* name: when the handlers on a load are done, the distributor knows its     *)
(* status and its officer that it is theirs, however their statements and    *)
(* notices interleaved.                                                      *)
THEOREM OutcomesAreAnnounced ==
  ASSUME LegacyTargets \subseteq {"LOADING_IN_PROGRESS", "COMPLETED"}
  PROVE  Spec => []OutcomeIsAnnounced
<1>1. Init => StatusIsAnnounced
  <2>1. NoRow.status = NOT_RAISED /\ NoRow.officer = None
    BY DEF NoRow
  <2> QED
    BY <2>1 DEF Init, StatusIsAnnounced
<1>2. IndInv /\ StatusIsAnnounced /\ [Next]_vars => StatusIsAnnounced'
  BY AnnouncedStep
<1>3. StatusIsAnnounced => OutcomeIsAnnounced
  BY SettledIsTold DEF StatusIsAnnounced, OutcomeIsAnnounced
<1> QED
  BY <1>1, <1>2, <1>3, Invariance, PTL DEF Spec
=============================================================================
