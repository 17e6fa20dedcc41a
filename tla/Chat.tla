-------------------------------- MODULE Chat --------------------------------
(***************************************************************************)
(* modules/chat/chat.service.ts: one customer's thread.  Officers of the   *)
(* account, admins and regional admins write to the customer; the customer *)
(* writes to one officer, or to whoever the service picks.                 *)
(*                                                                         *)
(* Left out: what is written, and the labels of the senders.               *)
(***************************************************************************)
EXTENDS Team, Naturals, Sequences, FiniteSets

CONSTANTS
  Me,                 \* the customer
  MaxMessages

ASSUME ChatAssumption == Me \notin Speakers \cup {None} /\ MaxMessages \in Nat

VARIABLES
  messages,     \* the Message rows, oldest first
  told,         \* whom a notification and a frame went to, for each message
  silent,       \* history: messages whose handler died before telling
  seen,         \* history: the customer's messages staff were answered
  waved         \* history: those stamped read without being answered: by
                \* PATCH /chat/:id/read, or by a handler that died

chatVars == <<calls, team, messages, told, silent, seen, waved>>

Message == 1..MaxMessages
MessageRow == [senderType : {"CUSTOMER", "STAFF"}, staffId : Speakers, read : BOOLEAN]

ChatCall ==
  {Idle}
  \cup [route : {"open"}, step : {"mark", "show"}]
  \cup [route : {"markread"}, step : {"mark"}]
  \cup [route : {"sendany"}, step : {"pointer"}]
  \cup [route : {"send"}, step : {"create"}, sender : {"CUSTOMER", "STAFF"}, staff : Speakers]
  \cup [route : {"send"}, step : {"tell"}, message : Message]

ChatTypes ==
  /\ calls \in [Calls -> ChatCall]
  /\ team \in Teams
  /\ messages \in Seq(MessageRow) /\ Len(messages) <= MaxMessages
  /\ told \in [Message -> SUBSET (Speakers \cup {Me})]
  /\ silent \subseteq Message /\ seen \subseteq Message /\ waved \subseteq Message

ChatInit ==
  /\ calls = [c \in Calls |-> Idle]
  /\ team = Nobody
  /\ messages = <<>> /\ told = [m \in Message |-> {}]
  /\ silent = {} /\ seen = {} /\ waved = {}

Inbound == {m \in DOMAIN messages : messages[m].senderType = "CUSTOMER"}
ReadIn  == {m \in Inbound : messages[m].read}

-----------------------------------------------------------------------------
(* getMessages for staff: the gate, the stamp, and the rows answered.  (The  *)
(* customer's own view, and the audit of a thread, change nothing.)          *)
(* Mutant: the rows are read before they are stamped.                        *)
ReadFirst == <<"show", "mark">>
OpeningThread == <<"mark", "show">>

OpenGate(c, s) ==
  /\ MayOpen(s)
  /\ Starts(c, [route |-> "open", step |-> OpeningThread[1]])
  /\ UNCHANGED <<team, messages, told, silent, seen, waved>>

AfterOpening(c) ==
  Moves(c, IF calls[c].route = "open" /\ calls[c].step = OpeningThread[1]
           THEN [calls[c] EXCEPT !.step = OpeningThread[2]] ELSE Idle)

markInboundRead(c) ==
  /\ calls[c].step = "mark"
  /\ messages' = [m \in DOMAIN messages |->
       IF m \in Inbound THEN [messages[m] EXCEPT !.read = TRUE] ELSE messages[m]]
  /\ waved' = IF calls[c].route = "markread" THEN waved \cup Inbound ELSE waved
  /\ AfterOpening(c)
  /\ UNCHANGED <<team, told, silent, seen>>

ThreadFor(c) ==
  /\ At(c, "open", "show")
  /\ seen' = seen \cup Inbound
  /\ AfterOpening(c)
  /\ UNCHANGED <<team, messages, told, silent, waved>>

(* markStaffThreadRead has the gate of getMessages.                          *)
MarkGate(c, s) ==
  /\ MayOpen(s)
  /\ Starts(c, [route |-> "markread", step |-> "mark"])
  /\ UNCHANGED <<team, messages, told, silent, seen, waved>>

markCustomerThreadRead ==
  /\ messages' = [m \in DOMAIN messages |->
       IF m \in Inbound THEN messages[m] ELSE [messages[m] EXCEPT !.read = TRUE]]
  /\ messages' # messages
  /\ UNCHANGED <<calls, team, told, silent, seen, waved>>

-----------------------------------------------------------------------------
Creating(sender, s) == [route |-> "send", step |-> "create", sender |-> sender, staff |-> s]

(* sendMessage: staff as themselves, the customer to an officer they name.   *)
SendGate(c, sender, s) ==
  /\ MayOpen(s) /\ (sender = "CUSTOMER" => s \in Officers)
  /\ Starts(c, Creating(sender, s))
  /\ UNCHANGED <<team, messages, told, silent, seen, waved>>

(* sendFromCustomer: the join rows, primary first; the pointer is read when  *)
(* there are none, and nobody at all is refused.                             *)
FirstOf(t) == IF t.primaries # {} THEN t.primaries ELSE t.joins

SendToAny(c) ==
  /\ IF team.joins = {} THEN Starts(c, [route |-> "sendany", step |-> "pointer"])
     ELSE \E s \in FirstOf(team) : Starts(c, Creating("CUSTOMER", s))
  /\ UNCHANGED <<team, messages, told, silent, seen, waved>>

SendToPointer(c) ==
  /\ At(c, "sendany", "pointer")
  /\ Moves(c, IF team.pointer = None THEN Idle ELSE Creating("CUSTOMER", team.pointer))
  /\ UNCHANGED <<team, messages, told, silent, seen, waved>>

CreateMessage(c) ==
  /\ At(c, "send", "create") /\ Len(messages) < MaxMessages
  /\ messages' = Append(messages, [senderType |-> calls[c].sender, staffId |-> calls[c].staff,
                                   read |-> FALSE])
  /\ Moves(c, [route |-> "send", step |-> "tell", message |-> Len(messages) + 1])
  /\ UNCHANGED <<team, told, silent, seen, waved>>

(* Mutant (US-11.8, which N-1 withdrew): every officer of the account hears. *)
FannedOut(m) == IF messages[m].senderType = "STAFF" THEN {Me}
                ELSE {o \in Officers : isAssigned(o)}
HearerOf(m) == IF messages[m].senderType = "STAFF" THEN {Me} ELSE {messages[m].staffId}

(* The notification row and the live frame, which only a throw keeps back.   *)
TellOfMessage(c) ==
  LET m == calls[c].message IN
  /\ At(c, "send", "tell")
  /\ told' = [told EXCEPT ![m] = HearerOf(m)]
  /\ Ends(c)
  /\ UNCHANGED <<team, messages, silent, seen, waved>>

(* External: an assignment, a reassignment, an officer removed.              *)
ChatTeamChanges ==
  /\ \E t \in Teams : t # team /\ team' = t
  /\ UNCHANGED <<calls, messages, told, silent, seen, waved>>

ChatDies(c) ==
  /\ ~IsIdle(c)
  /\ silent' = IF At(c, "send", "tell") THEN silent \cup {calls[c].message} ELSE silent
  /\ waved' = IF At(c, "open", "show") THEN waved \cup ReadIn ELSE waved
  /\ Ends(c)
  /\ UNCHANGED <<team, messages, told, seen>>

ChatNext ==
  \/ \E c \in Calls :
       \/ \E s \in Speakers : OpenGate(c, s) \/ MarkGate(c, s)
       \/ \E s \in Speakers, sender \in {"CUSTOMER", "STAFF"} : SendGate(c, sender, s)
       \/ SendToAny(c) \/ SendToPointer(c) \/ CreateMessage(c) \/ TellOfMessage(c)
       \/ markInboundRead(c) \/ ThreadFor(c) \/ ChatDies(c)
  \/ markCustomerThreadRead \/ ChatTeamChanges

ChatSpec == ChatInit /\ [][ChatNext]_chatVars

-----------------------------------------------------------------------------
(* Nobody hears of a message but the other side of its conversation, and     *)
(* that side does once the handler is through, whoever is on the account by  *)
(* then (N-1).                                                               *)
OneHearer ==
  \A m \in DOMAIN messages :
    LET other == IF messages[m].senderType = "STAFF" THEN Me ELSE messages[m].staffId IN
    \/ told[m] = {other}
    \/ told[m] = {} /\ (m \in silent \/ \E c \in Calls : At(c, "send", "tell") /\ calls[c].message = m)

(* A customer's message counts as read only when a member of staff was, or   *)
(* is about to be, answered it: one that arrives while the thread is being   *)
(* opened cannot be stamped unseen.  (PATCH /chat/:id/read stamps what is    *)
(* there, and so does an opening that dies before its answer.)               *)
ReadMeansShown ==
  (\E c \in Calls : At(c, "open", "show")) \/ ReadIn \subseteq seen \cup waved
=============================================================================
