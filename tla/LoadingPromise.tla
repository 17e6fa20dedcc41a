--------------------------- MODULE LoadingPromise ---------------------------
(***************************************************************************)
(* What the loading routes promise about the life of a load although their *)
(* handlers overlap.  A move is granted when the table of loading-status.ts*)
(* allows it, and made later, when other moves may have come between; it   *)
(* is made once or never, it is the move that was granted, and nothing     *)
(* else touches the status or the officer of a load.  So an officer is     *)
(* only ever put on a load that somebody saw waiting for one, and none is  *)
(* taken off.                                                              *)
(*                                                                         *)
(* The table lets ASSIGNED move to COMPLETED; the comment above it says    *)
(* that a load is never completed without having been started.  This       *)
(* promise is the table's: StartedBeforeCompleted is the comment's.        *)
(***************************************************************************)
EXTENDS LoadingStatus

CONSTANTS Requests, Officers, Handlers, None

VARIABLES
  status, officer,   \* of every load
  permit             \* the move each handler has been granted and not made

promiseVars == <<status, officer, permit>>

NoPermit == [req |-> None, to |-> NOT_RAISED, officer |-> None]

Init ==
  /\ status = [r \in Requests |-> NOT_RAISED]
  /\ officer = [r \in Requests |-> None]
  /\ permit = [h \in Handlers |-> NoPermit]

Raise(r) ==
  /\ status[r] = NOT_RAISED
  /\ status' = [status EXCEPT ![r] = "PENDING_ASSIGNMENT"]
  /\ UNCHANGED <<officer, permit>>

(* Granted by what the load is now: an officer for a load that waits for     *)
(* one, or a move of the table, by an officer unless it calls the load off.  *)
Grantable(r, to, o) ==
  \/ status[r] = "PENDING_ASSIGNMENT" /\ to = "ASSIGNED" /\ o \in Officers
  \/ /\ assertLoadingTransition(status[r], to) /\ o = None
     /\ to = "CANCELLED" \/ officer[r] # None

Grant(h, r) ==
  /\ permit[h] = NoPermit /\ status[r] # NOT_RAISED
  /\ UNCHANGED <<status, officer>>
  /\ \E to \in LoadingRequestStatus, o \in Officers \cup {None} :
       /\ Grantable(r, to, o)
       /\ permit' = [permit EXCEPT ![h] = [req |-> r, to |-> to, officer |-> o]]

(* Made on whatever the load has become since.                               *)
Make(h, r) ==
  /\ permit[h] # NoPermit /\ permit[h].req = r
  /\ status' = [status EXCEPT ![r] = permit[h].to]
  /\ officer' = [officer EXCEPT ![r] =
                   IF permit[h].officer = None THEN @ ELSE permit[h].officer]
  /\ permit' = [permit EXCEPT ![h] = NoPermit]

Lapse(h) ==
  /\ UNCHANGED <<status, officer>>
  /\ permit' = [permit EXCEPT ![h] = NoPermit]

Next ==
  \/ \E h \in Handlers : Lapse(h)
  \/ \E r \in Requests : Raise(r)
  \/ \E h \in Handlers, r \in Requests : Grant(h, r) \/ Make(h, r)

Spec == Init /\ [][Next]_promiseVars
=============================================================================
