---------------------------- MODULE LoadingStatus ----------------------------
(***************************************************************************)
(* The status vocabulary of a loading request and the one table of legal   *)
(* moves that every route consults (modules/loading/loading-status.ts).    *)
(***************************************************************************)

(* The enum of prisma/schema/waybill.prisma.  NOT_RAISED is the status of an *)
(* id that has no row yet; no route ever sees it.                            *)
LoadingRequestStatus ==
  {"PENDING_ASSIGNMENT", "ASSIGNED", "LOADING_IN_PROGRESS", "COMPLETED",
   "CANCELLED"}

NOT_RAISED == "NOT_RAISED"

(* The three values PATCH /loading/queue/:id/status lets through.           *)
QUEUE_STATUS_TRANSITIONS == {"LOADING_IN_PROGRESS", "COMPLETED", "CANCELLED"}

ALLOWED_TRANSITIONS ==
  { <<"PENDING_ASSIGNMENT", "CANCELLED">>,
    <<"ASSIGNED", "LOADING_IN_PROGRESS">>,
    <<"ASSIGNED", "COMPLETED">>,
    <<"ASSIGNED", "CANCELLED">>,
    <<"LOADING_IN_PROGRESS", "COMPLETED">> }

(* TRUE when the move is let through, FALSE when the code throws 409.  A     *)
(* move to the status already held is always let through.                   *)
assertLoadingTransition(from, to) ==
  from = to \/ <<from, to>> \in ALLOWED_TRANSITIONS

(* Mutant: the cancel route spells its own rule out, without LC-1.           *)
CancellableByHand(from) == from \notin {"COMPLETED", "CANCELLED"}

assertCancellable(from) == assertLoadingTransition(from, "CANCELLED")
=============================================================================
