--------------------------- MODULE Notifications ---------------------------
(***************************************************************************)
(* The bell and the push tokens: NotificationService.notify                *)
(* (infrastructure/notification), the gateway behind it, the registration  *)
(* of devices (modules/push) and the two feeds (modules/notifications).    *)
(*                                                                         *)
(* Left out: the content of a notification, and realtime frames, which are *)
(* hints that nothing waits for.  External: what Firebase answers, which   *)
(* may be any verdict on the tokens it is sent, or an error.               *)
(***************************************************************************)
EXTENDS Handlers, Naturals, Sequences, FiniteSets

CONSTANTS
  Customers, Staff,
  Devices,            \* device tokens
  MaxRows, MaxVerdicts

ASSUME NotificationAssumption ==
  /\ Customers \cap Staff = {} /\ None \notin Customers \cup Staff
  /\ MaxRows \in Nat /\ MaxVerdicts \in Nat /\ IsFiniteSet(Devices)

People == Customers \cup Staff

VARIABLES
  rows,         \* the Notification rows, oldest first
  pushTokens,   \* the PushToken rows: whose, and whether active
  verdicts,     \* the number of tokens Firebase called invalid
  gone,         \* history: devices unregistered, or called invalid, and not
                \* registered since
  unsettled     \* history: devices registered while a handler was about to write
                \* down a verdict on them

notificationVars == <<calls, rows, pushTokens, verdicts, gone, unsettled>>

Row == 1..MaxRows
NotificationRow == [customerId : Customers \cup {None}, staffId : Staff \cup {None},
                    isChat : BOOLEAN, isRead : BOOLEAN]

NotificationCall ==
  {Idle}
  \cup [route : {"notify"}, step : {"create"}, to : People, about : Customers \cup {None},
        isChat : BOOLEAN]
  \cup [route : {"notify"}, step : {"tokens"}, to : People]
  \cup [route : {"notify"}, step : {"dispatch", "deactivate"}, sent : SUBSET Devices]
  \cup [route : {"markRead"}, step : {"update"}, row : Row, by : People]

NotificationTypes ==
  /\ calls \in [Calls -> NotificationCall]
  /\ rows \in Seq(NotificationRow) /\ Len(rows) <= MaxRows
  /\ pushTokens \in [Devices -> [owner : People, active : BOOLEAN] \cup {None}]
  /\ verdicts \in 0..MaxVerdicts
  /\ gone \subseteq Devices /\ unsettled \subseteq Devices

NotificationInit ==
  /\ calls = [c \in Calls |-> Idle]
  /\ rows = <<>>
  /\ pushTokens = [d \in Devices |-> None]
  /\ verdicts = 0
  /\ gone = {} /\ unsettled = {}

-----------------------------------------------------------------------------
(* The feeds.                                                                *)

(* N-1: a staff row about a distributor is not the distributor's.           *)
InFeed(p, row) ==
  IF p \in Customers THEN row.customerId = p /\ row.staffId = None
  ELSE row.staffId = p /\ ~row.isChat

(* A row a staff member marks need not be one the bell shows.                *)
OwnRow(p, row) ==
  IF p \in Customers THEN row.customerId = p /\ row.staffId = None ELSE row.staffId = p

markRead(c, p, r) ==
  /\ r \in DOMAIN rows /\ OwnRow(p, rows[r])
  /\ Starts(c, [route |-> "markRead", step |-> "update", row |-> r, by |-> p])
  /\ UNCHANGED <<rows, pushTokens, verdicts, gone, unsettled>>

MarkReadWrite(c) ==
  LET r == calls[c].row IN
  /\ At(c, "markRead", "update")
  /\ rows' = [rows EXCEPT ![r].isRead = TRUE]
  /\ Ends(c)
  /\ UNCHANGED <<pushTokens, verdicts, gone, unsettled>>

markAllRead(p) ==
  LET mine == {r \in DOMAIN rows : InFeed(p, rows[r]) /\ ~rows[r].isRead} IN
  /\ mine # {}
  /\ rows' = [r \in DOMAIN rows |-> IF r \in mine THEN [rows[r] EXCEPT !.isRead = TRUE] ELSE rows[r]]
  /\ UNCHANGED <<calls, pushTokens, verdicts, gone, unsettled>>

-----------------------------------------------------------------------------
(* notify: the row, which may throw into the caller; then the push, which    *)
(* may not.                                                                  *)
notify(c, to, about, isChat) ==
  /\ Starts(c, [route |-> "notify", step |-> "create", to |-> to, about |-> about, isChat |-> isChat])
  /\ UNCHANGED <<rows, pushTokens, verdicts, gone, unsettled>>

NotifyCreate(c) ==
  LET to == calls[c].to IN
  /\ At(c, "notify", "create") /\ Len(rows) < MaxRows
  /\ rows' = Append(rows,
       [customerId |-> IF to \in Customers THEN to ELSE calls[c].about,
        staffId |-> IF to \in Staff THEN to ELSE None,
        isChat |-> calls[c].isChat, isRead |-> FALSE])
  /\ Moves(c, [route |-> "notify", step |-> "tokens", to |-> to])
  /\ UNCHANGED <<pushTokens, verdicts, gone, unsettled>>

NotifyTokens(c) ==
  LET sent == {d \in Devices : pushTokens[d] = [owner |-> calls[c].to, active |-> TRUE]} IN
  /\ At(c, "notify", "tokens")
  /\ Moves(c, IF sent = {} THEN Idle ELSE [route |-> "notify", step |-> "dispatch", sent |-> sent])
  /\ UNCHANGED <<rows, pushTokens, verdicts, gone, unsettled>>

(* External: the tokens of the batch that Firebase calls invalid; with none, *)
(* or an error, the handler is through.                                      *)
NotifyDispatch(c, invalid) ==
  /\ At(c, "notify", "dispatch")
  /\ invalid \subseteq calls[c].sent /\ verdicts + Cardinality(invalid) <= MaxVerdicts
  /\ verdicts' = verdicts + Cardinality(invalid)
  /\ Moves(c, IF invalid = {} THEN Idle
              ELSE [route |-> "notify", step |-> "deactivate", sent |-> invalid])
  /\ gone' = gone \cup invalid
  /\ UNCHANGED <<rows, pushTokens, unsettled>>

NotifyDeactivate(c) ==
  /\ At(c, "notify", "deactivate")
  /\ pushTokens' = [d \in Devices |-> IF d \in calls[c].sent /\ pushTokens[d] # None
                                      THEN [pushTokens[d] EXCEPT !.active = FALSE]
                                      ELSE pushTokens[d]]
  /\ Ends(c)
  /\ UNCHANGED <<rows, verdicts, gone, unsettled>>

-----------------------------------------------------------------------------
(* POST /devices: one row per token, whoever had it before.                  *)
(* Mutant: a known token is given to its new owner as it is.                 *)
AsItIs(row, p) == [owner |-> p, active |-> row = None \/ row.active]
Registered(row, p) == [owner |-> p, active |-> TRUE]

Condemned(d) == \E c \in Calls : At(c, "notify", "deactivate") /\ d \in calls[c].sent

register(p, d) ==
  /\ pushTokens' = [pushTokens EXCEPT ![d] = Registered(pushTokens[d], p)]
  /\ gone' = gone \ {d}
  /\ unsettled' = IF Condemned(d) THEN unsettled \cup {d} ELSE unsettled
  /\ UNCHANGED <<calls, rows, verdicts>>

unregister(d) ==
  /\ pushTokens[d] # None
  /\ pushTokens' = [pushTokens EXCEPT ![d].active = FALSE]
  /\ gone' = gone \cup {d}
  /\ UNCHANGED <<calls, rows, verdicts, unsettled>>

NotificationDies(c) ==
  /\ ~IsIdle(c)
  /\ Ends(c)
  /\ UNCHANGED <<rows, pushTokens, verdicts, gone, unsettled>>

NotificationNext ==
  \/ \E c \in Calls :
       \/ \E to \in People, about \in Customers \cup {None}, isChat \in BOOLEAN :
            notify(c, to, about, isChat)
       \/ NotifyCreate(c) \/ NotifyTokens(c) \/ NotifyDeactivate(c) \/ NotificationDies(c)
       \/ \E invalid \in SUBSET Devices : NotifyDispatch(c, invalid)
       \/ \E p \in People, r \in Row : markRead(c, p, r)
       \/ MarkReadWrite(c)
  \/ \E p \in People : markAllRead(p) \/ \E d \in Devices : register(p, d)
  \/ \E d \in Devices : unregister(d)

NotificationSpec == NotificationInit /\ [][NotificationNext]_notificationVars

-----------------------------------------------------------------------------
(* A device that registered, whatever became of its token before and whoever *)
(* had it, stays reachable until it is taken off or Firebase calls its token *)
(* invalid once more: no verdict on an earlier registration switches it off, *)
(* unless it registered between that verdict and its being written down.     *)
RegisteredIsReached ==
  \A d \in Devices \ (unsettled \cup gone) : pushTokens[d] # None => pushTokens[d].active
=============================================================================
