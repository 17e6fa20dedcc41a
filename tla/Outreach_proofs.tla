--------------------------- MODULE Outreach_proofs --------------------------
(***************************************************************************)
(* What reaches people and what they send: the devices of Notifications,   *)
(* the conversations of Chat, the queue of Tickets, the pages of Flyers    *)
(* and the form of Contact, a part each.                                   *)
(***************************************************************************)
EXTENDS Notifications, Chat, Tickets, Flyers, Contact, Counting, FunctionTheorems

-----------------------------------------------------------------------------
(* What holds of push tokens for every set of people, devices and handlers *)
(* in flight, whatever Firebase answers.                                   *)

PushToken == [owner : People, active : BOOLEAN]

TokenTypes ==
  /\ calls \in [Calls -> NotificationCall]
  /\ pushTokens \in [Devices -> PushToken \cup {None}]
  /\ gone \subseteq Devices /\ unsettled \subseteq Devices

(* A verdict not yet written down is on devices that have not registered     *)
(* since, or are on record as having done so under it.                       *)
VerdictInv ==
  \A c \in Calls : At(c, "notify", "deactivate") => calls[c].sent \subseteq gone \cup unsettled

NoticeIndInv == TokenTypes /\ VerdictInv /\ RegisteredIsReached

-----------------------------------------------------------------------------
(* The types of handlers.                                                    *)

LEMMA NoticeIdleCall == Idle \in NotificationCall /\ Idle.step = "idle"
  BY DEF Idle, NotificationCall

LEMMA NoticeCreateCall ==
  ASSUME NEW call \in NotificationCall, call.step = "create"
  PROVE  call.to \in People
  BY NoticeIdleCall DEF NotificationCall

LEMMA SentCall ==
  ASSUME NEW call \in NotificationCall, call.step \in {"dispatch", "deactivate"}
  PROVE  call.sent \subseteq Devices
  BY NoticeIdleCall DEF NotificationCall

-----------------------------------------------------------------------------
LEMMA NoticeInitially == NotificationInit => NoticeIndInv
  <1>. SUFFICES ASSUME NotificationInit  PROVE NoticeIndInv
    OBVIOUS
  <1>1. TokenTypes
    BY NoticeIdleCall DEF NotificationInit, TokenTypes
  <1>2. VerdictInv
    BY NoticeIdleCall DEF NotificationInit, VerdictInv, At
  <1>3. RegisteredIsReached
    BY DEF NotificationInit, RegisteredIsReached
  <1>. QED  BY <1>1, <1>2, <1>3 DEF NoticeIndInv

(* A handler goes on, and no token or verdict changes.                       *)
LEMMA NoticeCallStep ==
  ASSUME NoticeIndInv, NEW c \in Calls, NEW call \in NotificationCall, call.step # "deactivate",
         Moves(c, call), UNCHANGED <<pushTokens, gone, unsettled>>
  PROVE  NoticeIndInv'
  <1>1. calls' = [calls EXCEPT ![c] = call] /\ calls \in [Calls -> NotificationCall]
    BY DEF Moves, NoticeIndInv, TokenTypes
  <1>2. TokenTypes'
    BY <1>1 DEF NoticeIndInv, TokenTypes
  <1>3. VerdictInv'
    <2>. SUFFICES ASSUME NEW d \in Calls, At(d, "notify", "deactivate")'
                  PROVE  (calls[d].sent \subseteq gone \cup unsettled) /\ calls'[d] = calls[d]
      BY DEF VerdictInv
    <2>1. d # c
      BY <1>1 DEF At
    <2>. QED  BY <1>1, <2>1 DEF NoticeIndInv, VerdictInv, At
  <1>4. RegisteredIsReached'
    BY DEF NoticeIndInv, RegisteredIsReached
  <1>. QED  BY <1>2, <1>3, <1>4 DEF NoticeIndInv

(* A row is inserted, tokens are read, a notice is marked: handlers that     *)
(* change no token.                                                          *)
LEMMA QuietSteps ==
  ASSUME NoticeIndInv, NEW c \in Calls,
         \/ \E to \in People, about \in Customers \cup {None}, isChat \in BOOLEAN :
              notify(c, to, about, isChat)
         \/ NotifyCreate(c) \/ NotifyTokens(c) \/ NotificationDies(c)
         \/ \E p \in People, r \in Row : markRead(c, p, r)
         \/ MarkReadWrite(c)
  PROVE  NoticeIndInv'
  <1>0. calls[c] \in NotificationCall
    BY DEF NoticeIndInv, TokenTypes
  <1>1. ASSUME NEW to \in People, NEW about \in Customers \cup {None}, NEW isChat \in BOOLEAN,
               notify(c, to, about, isChat)
        PROVE  NoticeIndInv'
    <2>. DEFINE call == [route |-> "notify", step |-> "create", to |-> to, about |-> about,
                         isChat |-> isChat]
    <2>1. call \in NotificationCall /\ call.step # "deactivate"
      BY DEF NotificationCall
    <2>. QED  BY <1>1, <2>1, NoticeCallStep DEF notify, Starts
  <1>2. CASE NotifyCreate(c)
    <2>. DEFINE call == [route |-> "notify", step |-> "tokens", to |-> calls[c].to]
    <2>1. calls[c].to \in People
      BY <1>0, <1>2, NoticeCreateCall DEF NotifyCreate, At
    <2>2. call \in NotificationCall /\ call.step # "deactivate"
      BY <2>1 DEF NotificationCall
    <2>. QED  BY <1>2, <2>2, NoticeCallStep DEF NotifyCreate
  <1>3. CASE NotifyTokens(c)
    <2>. DEFINE sent == {d \in Devices : pushTokens[d] = [owner |-> calls[c].to, active |-> TRUE]}
                call == [route |-> "notify", step |-> "dispatch", sent |-> sent]
    <2>1. call \in NotificationCall /\ call.step # "deactivate"
      BY DEF NotificationCall
    <2>2. Moves(c, IF sent = {} THEN Idle ELSE call) /\ UNCHANGED <<pushTokens, gone, unsettled>>
      BY <1>3 DEF NotifyTokens
    <2>3. CASE sent = {}
      BY <2>2, <2>3, NoticeIdleCall, NoticeCallStep
    <2>4. CASE sent # {}
      BY <2>1, <2>2, <2>4, NoticeCallStep
    <2>. QED  BY <2>3, <2>4
  <1>4. CASE NotificationDies(c)
    BY <1>4, NoticeIdleCall, NoticeCallStep DEF NotificationDies, Ends
  <1>5. ASSUME NEW p \in People, NEW r \in Row, markRead(c, p, r)
        PROVE  NoticeIndInv'
    <2>. DEFINE call == [route |-> "markRead", step |-> "update", row |-> r, by |-> p]
    <2>1. call \in NotificationCall /\ call.step # "deactivate"
      BY DEF NotificationCall
    <2>. QED  BY <1>5, <2>1, NoticeCallStep DEF markRead, Starts
  <1>6. CASE MarkReadWrite(c)
    BY <1>6, NoticeIdleCall, NoticeCallStep DEF MarkReadWrite, Ends
  <1>. QED  BY <1>1, <1>2, <1>3, <1>4, <1>5, <1>6

-----------------------------------------------------------------------------
(* A verdict comes: its devices are gone from that moment.                   *)
LEMMA DispatchStep ==
  ASSUME NoticeIndInv, NEW c \in Calls, NEW invalid \in SUBSET Devices, NotifyDispatch(c, invalid)
  PROVE  NoticeIndInv'
  <1>. DEFINE call == IF invalid = {} THEN Idle
                      ELSE [route |-> "notify", step |-> "deactivate", sent |-> invalid]
  <1>1. /\ calls' = [calls EXCEPT ![c] = call] /\ calls \in [Calls -> NotificationCall]
        /\ gone' = gone \cup invalid /\ UNCHANGED <<pushTokens, unsettled>>
    BY DEF NotifyDispatch, Moves, NoticeIndInv, TokenTypes
  <1>2. call \in NotificationCall
    BY NoticeIdleCall DEF NotificationCall
  <1>3. call.step = "deactivate" => call.sent \subseteq gone'
    BY <1>1, NoticeIdleCall
  <1>4. TokenTypes'
    BY <1>1, <1>2 DEF NoticeIndInv, TokenTypes
  <1>5. VerdictInv'
    <2>. SUFFICES ASSUME NEW d \in Calls, At(d, "notify", "deactivate")'
                  PROVE  calls'[d].sent \subseteq gone' \cup unsettled'
      BY DEF VerdictInv
    <2>1. CASE d = c
      BY <1>1, <1>3, <2>1 DEF At
    <2>2. CASE d # c
      BY <1>1, <2>2 DEF NoticeIndInv, VerdictInv, At
    <2>. QED  BY <2>1, <2>2
  <1>6. RegisteredIsReached'
    BY <1>1 DEF NoticeIndInv, RegisteredIsReached
  <1>. QED  BY <1>4, <1>5, <1>6 DEF NoticeIndInv

(* A row switched off keeps its type.                                        *)
LEMMA SwitchedOff ==
  ASSUME NEW row \in PushToken
  PROVE  [row EXCEPT !.active = FALSE] \in PushToken
  <1>1. FALSE \in BOOLEAN
    OBVIOUS
  <1>. QED  BY <1>1, Zenon DEF PushToken

(* It is written down: of its devices, which all are gone or unsettled.      *)
LEMMA DeactivateStep ==
  ASSUME NoticeIndInv, NEW c \in Calls, NotifyDeactivate(c)
  PROVE  NoticeIndInv'
  <1>1. /\ calls' = [calls EXCEPT ![c] = Idle] /\ calls \in [Calls -> NotificationCall]
        /\ UNCHANGED <<gone, unsettled>>
    BY DEF NotifyDeactivate, Ends, Moves, NoticeIndInv, TokenTypes
  <1>2. calls[c].sent \subseteq gone \cup unsettled
    BY DEF NotifyDeactivate, NoticeIndInv, VerdictInv
  <1>3. ASSUME NEW d \in Devices
        PROVE  /\ pushTokens'[d] \in PushToken \cup {None}
               /\ d \notin calls[c].sent => pushTokens'[d] = pushTokens[d]
    <2>1. pushTokens[d] \in PushToken \cup {None}
      BY DEF NoticeIndInv, TokenTypes
    <2>2. pushTokens'[d] = IF d \in calls[c].sent /\ pushTokens[d] # None
                           THEN [pushTokens[d] EXCEPT !.active = FALSE] ELSE pushTokens[d]
      BY DEF NotifyDeactivate
    <2>. QED  BY <2>1, <2>2, SwitchedOff
  <1>4. TokenTypes'
    <2>1. pushTokens' = [d \in Devices |-> pushTokens'[d]]
      BY DEF NotifyDeactivate
    <2>. QED  BY <1>1, <1>3, <2>1, NoticeIdleCall DEF NoticeIndInv, TokenTypes
  <1>5. VerdictInv'
    <2>. SUFFICES ASSUME NEW d \in Calls, At(d, "notify", "deactivate")'
                  PROVE  calls'[d].sent \subseteq gone \cup unsettled
      BY <1>1 DEF VerdictInv
    <2>1. d # c
      BY <1>1, NoticeIdleCall DEF At
    <2>. QED  BY <1>1, <2>1 DEF NoticeIndInv, VerdictInv, At
  <1>6. RegisteredIsReached'
    BY <1>1, <1>2, <1>3 DEF NoticeIndInv, RegisteredIsReached
  <1>. QED  BY <1>4, <1>5, <1>6 DEF NoticeIndInv

-----------------------------------------------------------------------------
(* A device that registers while a verdict on it is on its way is unsettled. *)
LEMMA RegisterStep ==
  ASSUME NoticeIndInv, NEW p \in People, NEW d \in Devices, register(p, d)
  PROVE  NoticeIndInv'
  <1>. DEFINE row == [owner |-> p, active |-> TRUE]
  <1>1. row \in PushToken /\ row.active
    <2>1. TRUE \in BOOLEAN
      OBVIOUS
    <2>. QED  BY <2>1, Zenon DEF PushToken
  <1>2. /\ pushTokens' = [pushTokens EXCEPT ![d] = row] /\ gone' = gone \ {d}
        /\ unsettled \subseteq unsettled' /\ unsettled' \subseteq unsettled \cup {d}
        /\ Condemned(d) => d \in unsettled'
        /\ UNCHANGED calls
    BY DEF register, Registered
  <1>3. TokenTypes'
    BY <1>1, <1>2 DEF NoticeIndInv, TokenTypes
  <1>4. VerdictInv'
    <2>. SUFFICES ASSUME NEW c \in Calls, At(c, "notify", "deactivate"), NEW e \in calls[c].sent
                  PROVE  e \in gone' \cup unsettled'
      BY <1>2 DEF VerdictInv, At
    <2>1. e \in gone \cup unsettled
      BY DEF NoticeIndInv, VerdictInv
    <2>2. e = d => Condemned(d)
      BY DEF Condemned
    <2>. QED  BY <1>2, <2>1, <2>2
  <1>5. RegisteredIsReached'
    <2>. SUFFICES ASSUME NEW e \in Devices \ (unsettled' \cup gone'), pushTokens'[e] # None
                  PROVE  pushTokens'[e].active
      BY DEF RegisteredIsReached
    <2>1. CASE e = d
      BY <1>1, <1>2, <2>1 DEF NoticeIndInv, TokenTypes
    <2>2. CASE e # d
      BY <1>2, <2>2 DEF NoticeIndInv, TokenTypes, RegisteredIsReached
    <2>. QED  BY <2>1, <2>2
  <1>. QED  BY <1>3, <1>4, <1>5 DEF NoticeIndInv

LEMMA UnregisterStep ==
  ASSUME NoticeIndInv, NEW d \in Devices, unregister(d)
  PROVE  NoticeIndInv'
  <1>. DEFINE row == [pushTokens[d] EXCEPT !.active = FALSE]
  <1>1. /\ pushTokens' = [pushTokens EXCEPT ![d] = row] /\ gone' = gone \cup {d}
        /\ pushTokens[d] \in PushToken /\ UNCHANGED <<calls, unsettled>>
    BY DEF unregister, NoticeIndInv, TokenTypes
  <1>2. row \in PushToken
    BY <1>1, SwitchedOff
  <1>3. TokenTypes'
    BY <1>1, <1>2 DEF NoticeIndInv, TokenTypes
  <1>4. VerdictInv'
    BY <1>1 DEF NoticeIndInv, VerdictInv, At
  <1>5. RegisteredIsReached'
    BY <1>1 DEF NoticeIndInv, TokenTypes, RegisteredIsReached
  <1>. QED  BY <1>3, <1>4, <1>5 DEF NoticeIndInv

-----------------------------------------------------------------------------
LEMMA NoticeStep == NoticeIndInv /\ [NotificationNext]_notificationVars => NoticeIndInv'
  <1>. SUFFICES ASSUME NoticeIndInv, [NotificationNext]_notificationVars  PROVE NoticeIndInv'
    OBVIOUS
  <1>1. ASSUME NEW c \in Calls, NEW invalid \in SUBSET Devices, NotifyDispatch(c, invalid)
        PROVE  NoticeIndInv'
    BY <1>1, DispatchStep
  <1>2. ASSUME NEW c \in Calls, NotifyDeactivate(c)  PROVE NoticeIndInv'
    BY <1>2, DeactivateStep
  <1>3. ASSUME NEW p \in People, NEW d \in Devices, register(p, d)  PROVE NoticeIndInv'
    BY <1>3, RegisterStep
  <1>4. ASSUME NEW d \in Devices, unregister(d)  PROVE NoticeIndInv'
    BY <1>4, UnregisterStep
  <1>5. ASSUME NEW p \in People, markAllRead(p)  PROVE NoticeIndInv'
    BY <1>5 DEF markAllRead, NoticeIndInv, TokenTypes, VerdictInv, At, RegisteredIsReached
  <1>6. CASE UNCHANGED notificationVars
    BY <1>6 DEF notificationVars, NoticeIndInv, TokenTypes, VerdictInv, At, RegisteredIsReached
  <1>. QED  BY <1>1, <1>2, <1>3, <1>4, <1>5, <1>6, QuietSteps DEF NotificationNext

(* The inductive invariant: types, and what a handler about to write down a  *)
(* verdict may rely on.                                                      *)
THEOREM NoticeInvariance == NotificationSpec => []NoticeIndInv
  BY NoticeInitially, NoticeStep, PTL DEF NotificationSpec

(* No verdict on an earlier registration of a device switches off a later    *)
(* one, unless the device registered between that verdict and its being      *)
(* written down (push.service.ts, fcm-notification.gateway.ts): for any      *)
(* number of handlers, devices and verdicts.                                 *)
THEOREM DevicesAreReached == NotificationSpec => []RegisteredIsReached
  <1>1. NoticeIndInv => RegisteredIsReached
    BY DEF NoticeIndInv
  <1>. QED  BY <1>1, NoticeInvariance, PTL

(* The bell keeps its types too: its rows and the number of verdicts.        *)
BellTypes ==
  /\ rows \in Seq(NotificationRow) /\ Len(rows) <= MaxRows
  /\ verdicts \in 0..MaxVerdicts

LEMMA RowMarked ==
  ASSUME NEW row \in NotificationRow
  PROVE  [row EXCEPT !.isRead = TRUE] \in NotificationRow
  <1>1. TRUE \in BOOLEAN
    OBVIOUS
  <1>. QED  BY <1>1, Zenon DEF NotificationRow

LEMMA BellStep == NoticeIndInv /\ BellTypes /\ [NotificationNext]_notificationVars => BellTypes'
  <1>. SUFFICES ASSUME NoticeIndInv, BellTypes, [NotificationNext]_notificationVars
                PROVE  BellTypes'
    OBVIOUS
  <1>1. ASSUME NEW c \in Calls, NotifyCreate(c)  PROVE BellTypes'
    <2>. DEFINE to  == calls[c].to
                row == [customerId |-> IF to \in Customers THEN to ELSE calls[c].about,
                        staffId |-> IF to \in Staff THEN to ELSE None,
                        isChat |-> calls[c].isChat, isRead |-> FALSE]
    <2>1. calls[c] \in NotificationCall /\ calls[c].step = "create"
      BY <1>1 DEF NoticeIndInv, TokenTypes, NotifyCreate, At
    <2>2. calls[c].about \in Customers \cup {None} /\ calls[c].isChat \in BOOLEAN
      BY <2>1, NoticeIdleCall DEF NotificationCall
    <2>. HIDE DEF to
    <2>3. row \in NotificationRow
      BY <2>2 DEF NotificationRow
    <2>4. rows' = Append(rows, row) /\ Len(rows) < MaxRows /\ UNCHANGED verdicts
      BY <1>1 DEF NotifyCreate, to
    <2>. HIDE DEF row
    <2>. QED  BY <2>3, <2>4, NotificationAssumption DEF BellTypes
  <1>2. ASSUME NEW c \in Calls, MarkReadWrite(c)  PROVE BellTypes'
    <2>. DEFINE r   == calls[c].row
                row == [rows[r] EXCEPT !.isRead = TRUE]
    <2>1. rows' = [rows EXCEPT ![r] = row] /\ UNCHANGED verdicts
      BY <1>2 DEF MarkReadWrite
    <2>2. CASE r \in DOMAIN rows
      <3>1. rows[r] \in NotificationRow
        BY <2>2 DEF BellTypes
      <3>2. row \in NotificationRow
        BY <3>1, RowMarked
      <3>. HIDE DEF r, row
      <3>. QED  BY <2>1, <2>2, <3>2 DEF BellTypes
    <2>3. CASE r \notin DOMAIN rows
      <3>. HIDE DEF r, row
      <3>1. rows' = rows
        BY <2>1, <2>3 DEF BellTypes
      <3>. QED  BY <2>1, <3>1 DEF BellTypes
    <2>. QED  BY <2>2, <2>3
  <1>3. ASSUME NEW p \in People, markAllRead(p)  PROVE BellTypes'
    <2>1. PICK mine : rows' = [r \in DOMAIN rows |->
                                 IF r \in mine THEN [rows[r] EXCEPT !.isRead = TRUE] ELSE rows[r]]
      BY <1>3 DEF markAllRead
    <2>2. \A r \in DOMAIN rows : rows'[r] \in NotificationRow
      BY <2>1, RowMarked DEF BellTypes
    <2>3. DOMAIN rows' = 1..Len(rows) /\ Len(rows) \in Nat
      BY <2>1 DEF BellTypes
    <2>4. rows' = [r \in 1..Len(rows) |-> rows'[r]]
      BY <2>1 DEF BellTypes
    <2>5. rows' \in [1..Len(rows) -> NotificationRow]
      BY <2>2, <2>3, <2>4
    <2>6. rows' \in Seq(NotificationRow) /\ Len(rows') = Len(rows)
      BY <2>3, <2>5
    <2>. QED  BY <1>3, <2>6 DEF markAllRead, BellTypes
  <1>4. ASSUME NEW c \in Calls, NEW invalid \in SUBSET Devices, NotifyDispatch(c, invalid)
        PROVE  BellTypes'
    <2>1. Cardinality(invalid) \in Nat
      BY NotificationAssumption, FS_Subset, FS_CardinalityType
    <2>2. /\ verdicts' = verdicts + Cardinality(invalid)
          /\ verdicts + Cardinality(invalid) <= MaxVerdicts /\ UNCHANGED rows
      BY <1>4 DEF NotifyDispatch
    <2>. QED  BY <2>1, <2>2, NotificationAssumption DEF BellTypes
  <1>5. CASE UNCHANGED <<rows, verdicts>>
    BY <1>5 DEF BellTypes
  <1>. QED
    BY <1>1, <1>2, <1>3, <1>4, <1>5 DEF NotificationNext, notificationVars, notify, NotifyTokens,
       NotifyDeactivate, NotificationDies, markRead, register, unregister

LEMMA NoticeTypes == NoticeIndInv /\ BellTypes => NotificationTypes
  BY DEF NoticeIndInv, TokenTypes, PushToken, BellTypes, NotificationTypes

-----------------------------------------------------------------------------


(* Only messages there are have been told of, or are about to be.            *)
ChatTold ==
  /\ \A m \in Message : m \notin DOMAIN messages => told[m] = {}
  /\ \A c \in Calls : At(c, "send", "tell") => calls[c].message \in DOMAIN messages

ChatInv == ChatTypes /\ ChatTold /\ OneHearer /\ ReadMeansShown

-----------------------------------------------------------------------------
LEMMA ChatIdleCall ==
  /\ Idle \in ChatCall /\ Idle.route = "none" /\ Idle.step = "idle"
  BY DEF Idle, ChatCall

LEMMA ChatInitially == ChatInit => ChatInv
  <1>. SUFFICES ASSUME ChatInit  PROVE ChatInv
    OBVIOUS
  <1>1. ChatTypes
    BY ChatIdleCall, TeamAssumption, ChatAssumption DEF ChatInit, ChatTypes
  <1>2. ChatTold
    BY ChatIdleCall DEF ChatInit, ChatTold, At
  <1>3. OneHearer /\ ReadMeansShown
    BY DEF ChatInit, OneHearer, ReadMeansShown, ReadIn, Inbound
  <1>. QED  BY <1>1, <1>2, <1>3 DEF ChatInv

(* A handler goes on, with nothing about to be told and no opening left      *)
(* behind, and no message changes.                                           *)
LEMMA ChatCallStep ==
  ASSUME ChatInv, NEW c \in Calls, NEW call \in ChatCall, Moves(c, call),
         ~At(c, "send", "tell"), ~At(c, "open", "show"),
         ~(call.route = "send" /\ call.step = "tell"),
         team' \in Teams, UNCHANGED <<messages, told, silent, seen, waved>>
  PROVE  ChatInv'
  <1>1. calls' = [calls EXCEPT ![c] = call] /\ calls \in [Calls -> ChatCall]
    BY DEF Moves, ChatInv, ChatTypes
  <1>2. \A d \in Calls : At(d, "send", "tell")' <=> At(d, "send", "tell")
    BY <1>1 DEF At
  <1>3. \A d \in Calls : At(d, "send", "tell") => calls'[d] = calls[d]
    BY <1>1
  <1>4. \A d \in Calls : At(d, "open", "show") => At(d, "open", "show")'
    BY <1>1 DEF At
  <1>5. ChatTypes'
    BY <1>1 DEF ChatInv, ChatTypes
  <1>6. ChatTold' /\ OneHearer'
    BY <1>2, <1>3 DEF ChatInv, ChatTold, OneHearer
  <1>7. ReadMeansShown'
    BY <1>4 DEF ChatInv, ReadMeansShown, ReadIn, Inbound
  <1>. QED  BY <1>5, <1>6, <1>7 DEF ChatInv

LEMMA ChatGates ==
  ASSUME ChatInv, NEW c \in Calls,
         \/ \E s \in Speakers : OpenGate(c, s) \/ MarkGate(c, s)
         \/ \E s \in Speakers, sender \in {"CUSTOMER", "STAFF"} : SendGate(c, sender, s)
         \/ SendToAny(c) \/ SendToPointer(c)
  PROVE  ChatInv'
  <1>. DEFINE opening == [route |-> "open", step |-> OpeningThread[1]]
              marking == [route |-> "markread", step |-> "mark"]
              pointing == [route |-> "sendany", step |-> "pointer"]
  <1>1. opening \in ChatCall /\ marking \in ChatCall /\ pointing \in ChatCall
    BY DEF ChatCall, OpeningThread
  <1>2. \A s \in Speakers, sender \in {"CUSTOMER", "STAFF"} : Creating(sender, s) \in ChatCall
    BY DEF ChatCall, Creating
  <1>3. \A s, sender : Creating(sender, s).step = "create"
    BY DEF Creating
  <1>4. /\ opening.step = "mark" /\ marking.step = "mark" /\ pointing.step = "pointer"
        /\ Idle.step = "idle"
    BY ChatIdleCall DEF OpeningThread
  <1>. HIDE DEF opening, marking, pointing
  <1>5. PICK call : /\ Moves(c, call) /\ call \in ChatCall /\ call.step # "tell"
                    /\ UNCHANGED <<team, messages, told, silent, seen, waved>>
                    /\ calls[c] = Idle \/ At(c, "sendany", "pointer")
    <2>1. ASSUME NEW s \in Speakers, OpenGate(c, s) \/ MarkGate(c, s)
          PROVE  \E call \in {opening, marking} :
                   /\ Moves(c, call) /\ calls[c] = Idle
                   /\ UNCHANGED <<team, messages, told, silent, seen, waved>>
      BY <2>1 DEF OpenGate, MarkGate, Starts, IsIdle, opening, marking
    <2>2. ASSUME NEW s \in Speakers, NEW sender \in {"CUSTOMER", "STAFF"}, SendGate(c, sender, s)
          PROVE  /\ Moves(c, Creating(sender, s)) /\ calls[c] = Idle
                 /\ UNCHANGED <<team, messages, told, silent, seen, waved>>
      BY <2>2 DEF SendGate, Starts, IsIdle
    <2>3. CASE SendToAny(c)
      <3>1. FirstOf(team) \subseteq Speakers
        BY TeamAssumption DEF FirstOf, ChatInv, ChatTypes, TeamType, Speakers
      <3>2. CASE team.joins = {}
        BY <1>1, <1>4, <2>3, <3>2 DEF SendToAny, Starts, IsIdle, pointing
      <3>3. CASE team.joins # {}
        <4>1. PICK s \in FirstOf(team) : Starts(c, Creating("CUSTOMER", s))
          BY <2>3, <3>3 DEF SendToAny
        <4>. QED  BY <1>2, <1>3, <2>3, <3>1, <4>1 DEF SendToAny, Starts, IsIdle
      <3>. QED  BY <3>2, <3>3
    <2>4. CASE SendToPointer(c)
      <3>1. team.pointer # None => team.pointer \in Speakers
        BY TeamAssumption DEF ChatInv, ChatTypes, TeamType, Speakers
      <3>. QED  BY <1>2, <1>3, <1>4, <2>4, <3>1, ChatIdleCall DEF SendToPointer
    <2>. QED  BY <1>1, <1>2, <1>3, <1>4, <2>1, <2>2, <2>3, <2>4
  <1>6. ~At(c, "send", "tell") /\ ~At(c, "open", "show")
    BY <1>5, ChatIdleCall DEF At
  <1>7. team' \in Teams
    BY <1>5 DEF ChatInv, ChatTypes
  <1>. QED  BY <1>5, <1>6, <1>7, ChatCallStep

LEMMA CreateMessageStep ==
  ASSUME ChatInv, NEW c \in Calls, CreateMessage(c)
  PROVE  ChatInv'
  <1>. DEFINE n == Len(messages) + 1
              row == [senderType |-> calls[c].sender, staffId |-> calls[c].staff, read |-> FALSE]
              call == [route |-> "send", step |-> "tell", message |-> n]
  <1>1. /\ At(c, "send", "create") /\ Len(messages) < MaxMessages
        /\ messages' = Append(messages, row) /\ Moves(c, call)
        /\ UNCHANGED <<team, told, silent, seen, waved>>
    BY DEF CreateMessage
  <1>2. /\ messages \in Seq(MessageRow) /\ Len(messages) \in Nat
        /\ DOMAIN messages = 1..Len(messages) /\ calls \in [Calls -> ChatCall]
    BY DEF ChatInv, ChatTypes
  <1>3. row \in MessageRow
    <2>1. calls[c] \in [route : {"send"}, step : {"create"}, sender : {"CUSTOMER", "STAFF"},
                        staff : Speakers]
      BY <1>1, <1>2, ChatIdleCall DEF ChatCall, At
    <2>2. calls[c].sender \in {"CUSTOMER", "STAFF"} /\ calls[c].staff \in Speakers /\ FALSE \in BOOLEAN
      BY <2>1
    <2>. QED  BY <2>2, Zenon DEF MessageRow
  <1>4. ~row.read
    BY Zenon
  <1>5. n \in Message /\ call \in ChatCall
    BY <1>1, <1>2, ChatAssumption DEF Message, ChatCall
  <1>6. call.route = "send" /\ call.step = "tell" /\ call.message = n
    OBVIOUS
  <1>. HIDE DEF row, call
  <1>7. /\ messages' \in Seq(MessageRow) /\ Len(messages') = n /\ DOMAIN messages' = 1..n
        /\ messages'[n] = row /\ \A m \in 1..Len(messages) : messages'[m] = messages[m]
    BY <1>1, <1>2, <1>3
  <1>8. calls' = [calls EXCEPT ![c] = call]
    BY <1>1 DEF Moves
  <1>9. ChatTypes'
    BY <1>1, <1>2, <1>5, <1>7, <1>8, ChatAssumption DEF ChatInv, ChatTypes
  <1>10. \A d \in Calls : d # c => calls'[d] = calls[d]
    BY <1>8
  <1>11. calls'[c] = call /\ At(c, "send", "tell")'
    BY <1>2, <1>6, <1>8 DEF At
  <1>12. ChatTold'
    <2>1. \A m \in Message : m \notin DOMAIN messages' => told[m] = {}
      BY <1>2, <1>7 DEF ChatInv, ChatTold
    <2>2. \A d \in Calls : At(d, "send", "tell")' => calls'[d].message \in DOMAIN messages'
      <3>. SUFFICES ASSUME NEW d \in Calls, At(d, "send", "tell")'
                    PROVE  calls'[d].message \in 1..n
        BY <1>7
      <3>1. CASE d = c
        BY <1>2, <1>6, <1>11, <3>1
      <3>2. CASE d # c
        BY <1>2, <1>10, <3>2 DEF At, ChatInv, ChatTold
      <3>. QED  BY <3>1, <3>2
    <2>. QED  BY <1>1, <2>1, <2>2 DEF ChatTold
  <1>13. OneHearer'
    <2>. SUFFICES ASSUME NEW m \in DOMAIN messages'
                  PROVE  \/ told'[m] = {IF messages'[m].senderType = "STAFF" THEN Me
                                        ELSE messages'[m].staffId}
                         \/ told'[m] = {} /\ (m \in silent' \/ \E d \in Calls :
                              At(d, "send", "tell")' /\ calls'[d].message = m)
      BY DEF OneHearer
    <2>1. CASE m = n
      BY <1>1, <1>2, <1>5, <1>6, <1>11, <2>1 DEF ChatInv, ChatTold
    <2>2. CASE m # n
      <3>1. m \in DOMAIN messages /\ messages'[m] = messages[m]
        BY <1>2, <1>7, <2>2
      <3>2. \A d \in Calls : At(d, "send", "tell") => d # c /\ At(d, "send", "tell")'
        BY <1>1, <1>10 DEF At
      <3>. QED  BY <1>1, <1>10, <3>1, <3>2 DEF ChatInv, OneHearer
    <2>. QED  BY <2>1, <2>2
  <1>14. ReadMeansShown'
    <2>1. ReadIn' \subseteq ReadIn
      BY <1>2, <1>4, <1>7 DEF ReadIn, Inbound
    <2>2. \A d \in Calls : At(d, "open", "show") => At(d, "open", "show")'
      BY <1>1, <1>10 DEF At
    <2>. QED  BY <1>1, <2>1, <2>2 DEF ChatInv, ReadMeansShown
  <1>. QED  BY <1>9, <1>12, <1>13, <1>14 DEF ChatInv

LEMMA TellOfMessageStep ==
  ASSUME ChatInv, NEW c \in Calls, TellOfMessage(c)
  PROVE  ChatInv'
  <1>. DEFINE m == calls[c].message
  <1>1. /\ At(c, "send", "tell") /\ told' = [told EXCEPT ![m] = HearerOf(m)]
        /\ calls' = [calls EXCEPT ![c] = Idle]
        /\ UNCHANGED <<team, messages, silent, seen, waved>>
    BY DEF TellOfMessage, Ends, Moves
  <1>2. /\ calls \in [Calls -> ChatCall] /\ told \in [Message -> SUBSET (Speakers \cup {Me})]
        /\ m \in DOMAIN messages /\ DOMAIN messages \subseteq Message
    BY <1>1, ChatAssumption DEF ChatInv, ChatTypes, ChatTold, Message
  <1>3. \A d \in Calls : At(d, "send", "tell")' => d # c /\ calls'[d] = calls[d] /\ At(d, "send", "tell")
    BY <1>1, <1>2, ChatIdleCall DEF At
  <1>4. messages[m] \in MessageRow
    BY <1>2 DEF ChatInv, ChatTypes
  <1>5. HearerOf(m) \subseteq Speakers \cup {Me}
    BY <1>4 DEF HearerOf, MessageRow
  <1>6. told'[m] = HearerOf(m) /\ \A n \in Message : n # m => told'[n] = told[n]
    BY <1>1, <1>2
  <1>7. ChatTypes'
    BY <1>1, <1>2, <1>5, ChatIdleCall DEF ChatInv, ChatTypes
  <1>8. ChatTold'
    BY <1>1, <1>2, <1>3, <1>6 DEF ChatInv, ChatTold
  <1>9. OneHearer'
    <2>. SUFFICES ASSUME NEW n \in DOMAIN messages
                  PROVE  \/ told'[n] = {IF messages[n].senderType = "STAFF" THEN Me
                                        ELSE messages[n].staffId}
                         \/ told'[n] = {} /\ (n \in silent \/ \E d \in Calls :
                              At(d, "send", "tell")' /\ calls'[d].message = n)
      BY <1>1 DEF OneHearer
    <2>1. CASE n = m
      BY <1>6, <2>1 DEF HearerOf
    <2>2. CASE n # m
      <3>1. told'[n] = told[n]
        BY <1>2, <1>6, <2>2
      <3>2. \A d \in Calls : At(d, "send", "tell") /\ calls[d].message = n =>
              At(d, "send", "tell")' /\ calls'[d].message = n
        BY <1>1, <1>2, <2>2 DEF At
      <3>. QED  BY <3>1, <3>2 DEF ChatInv, OneHearer
    <2>. QED  BY <2>1, <2>2
  <1>10. ReadMeansShown'
    <2>1. \A d \in Calls : At(d, "open", "show") => At(d, "open", "show")'
      BY <1>1, <1>2 DEF At
    <2>. QED  BY <1>1, <2>1 DEF ChatInv, ReadMeansShown, ReadIn, Inbound
  <1>. QED  BY <1>7, <1>8, <1>9, <1>10 DEF ChatInv

(* Messages are stamped read, and nothing else of them changes.              *)
LEMMA ChatStamped ==
  ASSUME ChatInv, NEW Those,
         messages' = [m \in DOMAIN messages |->
           IF m \in Those THEN [messages[m] EXCEPT !.read = TRUE] ELSE messages[m]]
  PROVE  /\ messages' \in Seq(MessageRow) /\ Len(messages') = Len(messages)
         /\ DOMAIN messages' = DOMAIN messages /\ Inbound' = Inbound
         /\ ReadIn' \subseteq ReadIn \cup Those
         /\ \A m \in DOMAIN messages : /\ messages'[m].senderType = messages[m].senderType
                                       /\ messages'[m].staffId = messages[m].staffId
  <1>1. /\ messages \in Seq(MessageRow) /\ Len(messages) \in Nat
        /\ DOMAIN messages = 1..Len(messages)
    BY DEF ChatInv, ChatTypes
  <1>2. ASSUME NEW row \in MessageRow
        PROVE  LET r == [row EXCEPT !.read = TRUE] IN
               r \in MessageRow /\ r.senderType = row.senderType /\ r.staffId = row.staffId
    <2>1. TRUE \in BOOLEAN
      OBVIOUS
    <2>. QED  BY <2>1, Zenon DEF MessageRow
  <1>3. ASSUME NEW m \in DOMAIN messages
        PROVE  /\ messages'[m] \in MessageRow
               /\ messages'[m].senderType = messages[m].senderType
               /\ messages'[m].staffId = messages[m].staffId
               /\ m \in Those \/ messages'[m] = messages[m]
    BY <1>1, <1>2
  <1>4. messages' \in [1..Len(messages) -> MessageRow]
    BY <1>1, <1>3
  <1>5. messages' \in Seq(MessageRow) /\ Len(messages') = Len(messages)
    BY <1>1, <1>4
  <1>6. DOMAIN messages' = DOMAIN messages
    BY <1>1, <1>4
  <1>. QED  BY <1>3, <1>5, <1>6 DEF ReadIn, Inbound

(* What stays when messages are stamped and handlers that tell nothing go    *)
(* on.                                                                       *)
LEMMA ChatStampKeeps ==
  ASSUME ChatInv, NEW Those,
         messages' = [m \in DOMAIN messages |->
           IF m \in Those THEN [messages[m] EXCEPT !.read = TRUE] ELSE messages[m]],
         calls' \in [Calls -> ChatCall],
         \A d \in Calls : At(d, "send", "tell") \/ At(d, "send", "tell")' => calls'[d] = calls[d],
         waved' \subseteq Message, UNCHANGED <<team, told, silent, seen>>,
         ReadMeansShown'
  PROVE  ChatInv'
  <1>1. /\ messages' \in Seq(MessageRow) /\ Len(messages') = Len(messages)
        /\ DOMAIN messages' = DOMAIN messages
        /\ \A m \in DOMAIN messages : /\ messages'[m].senderType = messages[m].senderType
                                      /\ messages'[m].staffId = messages[m].staffId
    BY ChatStamped
  <1>2. \A d \in Calls : At(d, "send", "tell")' <=> At(d, "send", "tell")
    BY DEF At
  <1>3. ChatTypes'
    BY <1>1 DEF ChatInv, ChatTypes
  <1>4. ChatTold'
    BY <1>1, <1>2 DEF ChatInv, ChatTold
  <1>5. OneHearer'
    BY <1>1, <1>2 DEF ChatInv, OneHearer
  <1>. QED  BY <1>3, <1>4, <1>5 DEF ChatInv

LEMMA MarkInboundReadStep ==
  ASSUME ChatInv, NEW c \in Calls, markInboundRead(c)
  PROVE  ChatInv'
  <1>. DEFINE next == IF calls[c].route = "open" /\ calls[c].step = OpeningThread[1]
                      THEN [calls[c] EXCEPT !.step = OpeningThread[2]] ELSE Idle
  <1>1. /\ calls[c].step = "mark" /\ calls' = [calls EXCEPT ![c] = next]
        /\ messages' = [m \in DOMAIN messages |->
             IF m \in Inbound THEN [messages[m] EXCEPT !.read = TRUE] ELSE messages[m]]
        /\ waved' = IF calls[c].route = "markread" THEN waved \cup Inbound ELSE waved
        /\ UNCHANGED <<team, told, silent, seen>> /\ calls \in [Calls -> ChatCall]
    BY DEF markInboundRead, AfterOpening, Moves, ChatInv, ChatTypes
  <1>2. \/ calls[c] = [route |-> "open", step |-> "mark"]
        \/ calls[c] = [route |-> "markread", step |-> "mark"]
    BY <1>1, ChatIdleCall DEF ChatCall
  <1>3. /\ next \in ChatCall /\ next.step # "tell"
        /\ calls[c].route = "open" => next.route = "open" /\ next.step = "show"
    <2>1. CASE calls[c] = [route |-> "open", step |-> "mark"]
      <3>1. next = [route |-> "open", step |-> "show"]
        BY <2>1 DEF OpeningThread
      <3>. QED  BY <3>1 DEF ChatCall
    <2>2. CASE calls[c] = [route |-> "markread", step |-> "mark"]
      BY <2>2, ChatIdleCall
    <2>. QED  BY <1>2, <2>1, <2>2
  <1>. HIDE DEF next
  <1>4. /\ calls' \in [Calls -> ChatCall] /\ calls'[c] = next
        /\ \A d \in Calls : d # c => calls'[d] = calls[d]
    BY <1>1, <1>3
  <1>5. \A d \in Calls : At(d, "send", "tell") \/ At(d, "send", "tell")' => calls'[d] = calls[d]
    BY <1>1, <1>3, <1>4 DEF At
  <1>6. waved' \subseteq Message
    <2>1. Inbound \subseteq Message
      BY ChatAssumption DEF Inbound, Message, ChatInv, ChatTypes
    <2>. QED  BY <1>1, <2>1 DEF ChatInv, ChatTypes
  <1>7. ReadMeansShown'
    <2>1. CASE calls[c].route = "open"
      <3>1. At(c, "open", "show")'
        BY <1>3, <1>4, <2>1 DEF At
      <3>. QED  BY <3>1 DEF ReadMeansShown
    <2>2. CASE calls[c].route # "open"
      <3>1. calls[c].route = "markread"
        BY <1>2, <2>2
      <3>2. Inbound' = Inbound
        BY <1>1, ChatStamped
      <3>3. ReadIn' \subseteq Inbound
        BY <3>2 DEF ReadIn
      <3>. QED  BY <1>1, <3>1, <3>3 DEF ReadMeansShown
    <2>. QED  BY <2>1, <2>2
  <1>. QED  BY <1>1, <1>4, <1>5, <1>6, <1>7, ChatStampKeeps

LEMMA MarkCustomerThreadReadStep ==
  ASSUME ChatInv, markCustomerThreadRead
  PROVE  ChatInv'
  <1>. DEFINE Those == DOMAIN messages \ Inbound
  <1>1. /\ messages' = [m \in DOMAIN messages |->
             IF m \in Those THEN [messages[m] EXCEPT !.read = TRUE] ELSE messages[m]]
        /\ UNCHANGED <<calls, team, told, silent, seen, waved>>
    BY DEF markCustomerThreadRead
  <1>. HIDE DEF Those
  <1>2. ReadIn' \subseteq ReadIn
    <2>1. Inbound' = Inbound /\ ReadIn' \subseteq ReadIn \cup Those
      BY <1>1, ChatStamped
    <2>. QED  BY <2>1 DEF Those, ReadIn
  <1>3. ReadMeansShown'
    BY <1>1, <1>2 DEF ChatInv, ReadMeansShown, At
  <1>4. calls' \in [Calls -> ChatCall] /\ waved' \subseteq Message
    BY <1>1 DEF ChatInv, ChatTypes
  <1>. QED  BY <1>1, <1>3, <1>4, ChatStampKeeps

(* The rows are answered, or a handler dies.                                 *)
LEMMA ChatEndings ==
  ASSUME ChatInv, NEW c \in Calls, ThreadFor(c) \/ ChatDies(c)
  PROVE  ChatInv'
  <1>1. calls \in [Calls -> ChatCall] /\ DOMAIN messages \subseteq Message
    BY ChatAssumption DEF ChatInv, ChatTypes, Message
  <1>2. calls' = [calls EXCEPT ![c] = Idle] /\ UNCHANGED <<team, messages, told>>
    <2>1. CASE ThreadFor(c)
      <3>1. calls[c] = [route |-> "open", step |-> "show"]
        BY <1>1, <2>1, ChatIdleCall DEF ThreadFor, At, ChatCall
      <3>. QED  BY <2>1, <3>1 DEF ThreadFor, AfterOpening, OpeningThread, Moves
    <2>2. CASE ChatDies(c)
      BY <2>2 DEF ChatDies, Ends, Moves
    <2>. QED  BY <2>1, <2>2
  <1>3. /\ silent \subseteq silent' /\ seen \subseteq seen' /\ waved \subseteq waved'
        /\ At(c, "open", "show") => ReadIn \subseteq seen' \cup waved'
        /\ At(c, "send", "tell") => calls[c].message \in silent'
    BY DEF ThreadFor, ChatDies, ReadIn, At
  <1>4. silent' \subseteq Message /\ seen' \subseteq Message /\ waved' \subseteq Message
    <2>1. ReadIn \subseteq Message /\ Inbound \subseteq Message
      BY <1>1 DEF ReadIn, Inbound
    <2>2. At(c, "send", "tell") => calls[c].message \in Message
      BY <1>1 DEF ChatInv, ChatTold
    <2>. QED  BY <2>1, <2>2 DEF ThreadFor, ChatDies, ChatInv, ChatTypes
  <1>5. \A d \in Calls : At(d, "send", "tell")' => d # c /\ At(d, "send", "tell") /\ calls'[d] = calls[d]
    BY <1>1, <1>2, ChatIdleCall DEF At
  <1>6. \A d \in Calls : d # c => calls'[d] = calls[d]
    BY <1>1, <1>2
  <1>7. ChatTypes'
    BY <1>1, <1>2, <1>4, ChatIdleCall DEF ChatInv, ChatTypes
  <1>8. ChatTold'
    BY <1>2, <1>5 DEF ChatInv, ChatTold
  <1>9. OneHearer'
    <2>. SUFFICES ASSUME NEW m \in DOMAIN messages
                  PROVE  \/ told[m] = {IF messages[m].senderType = "STAFF" THEN Me
                                       ELSE messages[m].staffId}
                         \/ told[m] = {} /\ (m \in silent' \/ \E d \in Calls :
                              At(d, "send", "tell")' /\ calls'[d].message = m)
      BY <1>2 DEF OneHearer
    <2>1. \A d \in Calls : At(d, "send", "tell") /\ calls[d].message = m =>
            m \in silent' \/ (At(d, "send", "tell")' /\ calls'[d].message = m)
      BY <1>3, <1>6 DEF At
    <2>. QED  BY <1>3, <2>1 DEF ChatInv, OneHearer
  <1>10. ReadMeansShown'
    <2>1. ReadIn' = ReadIn
      BY <1>2 DEF ReadIn, Inbound
    <2>2. \A d \in Calls : At(d, "open", "show") => d = c \/ At(d, "open", "show")'
      BY <1>6 DEF At
    <2>. QED  BY <1>3, <2>1, <2>2 DEF ChatInv, ReadMeansShown
  <1>. QED  BY <1>7, <1>8, <1>9, <1>10 DEF ChatInv

-----------------------------------------------------------------------------
LEMMA ChatStep == ChatInv /\ [ChatNext]_chatVars => ChatInv'
  <1>. SUFFICES ASSUME ChatInv, [ChatNext]_chatVars  PROVE ChatInv'
    OBVIOUS
  <1>1. ASSUME NEW c \in Calls,
               \/ \E s \in Speakers : OpenGate(c, s) \/ MarkGate(c, s)
               \/ \E s \in Speakers, sender \in {"CUSTOMER", "STAFF"} : SendGate(c, sender, s)
               \/ SendToAny(c) \/ SendToPointer(c)
        PROVE  ChatInv'
    BY <1>1, ChatGates
  <1>2. ASSUME NEW c \in Calls, CreateMessage(c)  PROVE ChatInv'
    BY <1>2, CreateMessageStep
  <1>3. ASSUME NEW c \in Calls, TellOfMessage(c)  PROVE ChatInv'
    BY <1>3, TellOfMessageStep
  <1>4. ASSUME NEW c \in Calls, markInboundRead(c)  PROVE ChatInv'
    BY <1>4, MarkInboundReadStep
  <1>5. ASSUME NEW c \in Calls, ThreadFor(c) \/ ChatDies(c)  PROVE ChatInv'
    BY <1>5, ChatEndings
  <1>6. CASE markCustomerThreadRead
    BY <1>6, MarkCustomerThreadReadStep
  <1>7. CASE ChatTeamChanges \/ UNCHANGED chatVars
    <2>1. UNCHANGED <<calls, messages, told, silent, seen, waved>> /\ team' \in Teams
      BY <1>7 DEF ChatTeamChanges, chatVars, ChatInv, ChatTypes
    <2>. QED  BY <2>1 DEF ChatInv, ChatTypes, ChatTold, OneHearer, ReadMeansShown, ReadIn, Inbound, At
  <1>. QED  BY <1>1, <1>2, <1>3, <1>4, <1>5, <1>6, <1>7 DEF ChatNext

(* The thread and its handlers keep their types, and the two properties need *)
(* no more than that only messages there are told of.                        *)
THEOREM ChatInvariance == ChatSpec => []ChatInv
  BY ChatInitially, ChatStep, PTL DEF ChatSpec

(* One hearer to a message, whatever becomes of the account meanwhile, for   *)
(* any set of staff and any assignments (chat.service.ts, createMessage).    *)
THEOREM ChatHeardByOne == ChatSpec => []OneHearer
  <1>1. ChatInv => OneHearer
    BY DEF ChatInv
  <1>. QED  BY <1>1, ChatInvariance, PTL

(* No message is stamped read that nobody was, or is about to be, answered.  *)
THEOREM ChatReadIsShown == ChatSpec => []ReadMeansShown
  <1>1. ChatInv => ReadMeansShown
    BY DEF ChatInv
  <1>. QED  BY <1>1, ChatInvariance, PTL

-----------------------------------------------------------------------------


OnAccount == {o \in Officers : isAssigned(o)}

(* Whoever looks after the customer now has been among those who did since   *)
(* each happening, and whoever did all along does now.                       *)
TeamWatched ==
  \A h \in DOMAIN happenings : steady[h] \subseteq OnAccount /\ OnAccount \subseteq passing[h]

(* A handler at its notices is about a happening that was committed: the     *)
(* customer's before the team is told, that of staff before the customer is. *)
(* Those who were there all along have heard or are still on its list, and   *)
(* only those who were there at some time are on it.                         *)
NoticeRun(c) ==
  /\ calls[c].what \in DOMAIN happenings
  /\ calls[c].step = "customer" => ~happenings[calls[c].what].byCustomer
  /\ calls[c].step = "ask" => happenings[calls[c].what].byCustomer
  /\ calls[c].step = "tell" =>
       /\ happenings[calls[c].what].byCustomer
       /\ calls[c].rest \subseteq passing[calls[c].what]
       /\ steady[calls[c].what] \subseteq calls[c].rest \cup heard[calls[c].what]

NoticeRuns == \A c \in Calls : calls[c].route = "ticket" => NoticeRun(c)

(* Nobody has heard of what has not happened, and a ticket is a happening.   *)
TicketBounds ==
  /\ Len(tickets) <= Len(happenings) /\ Len(happenings) <= MaxHappenings
  /\ \A h \in Happening : h \notin DOMAIN happenings =>
       heard[h] = {} /\ h \notin answered /\ h \notin over

TicketInv == TicketTypes /\ TicketBounds /\ TeamWatched /\ NoticeRuns /\ TheTeamHears

-----------------------------------------------------------------------------
LEMMA TicketIdleCall ==
  /\ Idle \in TicketCall /\ Idle.route = "none" /\ Idle.step = "idle"
  BY DEF Idle, TicketCall

LEMMA TicketNotice ==
  ASSUME NEW call \in TicketCall, call.route = "ticket"
  PROVE  /\ call.what \in Happening
         /\ call.step \in {"ask", "tell", "customer", "frame"}
         /\ call.step = "tell" => /\ call.rest \subseteq Officers
                                  /\ call = [route |-> "ticket", step |-> "tell", what |-> call.what,
                                             rest |-> call.rest]
  BY TicketIdleCall DEF TicketCall

LEMMA TicketInitially == TicketInit => TicketInv
  <1>. SUFFICES ASSUME TicketInit  PROVE TicketInv
    OBVIOUS
  <1>1. TicketTypes
    BY TicketIdleCall, TeamAssumption DEF TicketInit, TicketTypes
  <1>2. TicketBounds
    BY TicketAssumption DEF TicketInit, TicketBounds
  <1>3. TeamWatched /\ NoticeRuns /\ TheTeamHears
    BY TicketIdleCall DEF TicketInit, TeamWatched, NoticeRuns, TheTeamHears
  <1>. QED  BY <1>1, <1>2, <1>3 DEF TicketInv

(* A handler goes on to a step that owes no notice, or ends.                 *)
LEMMA TicketCallStep ==
  ASSUME TicketInv, NEW c \in Calls, NEW call \in TicketCall, Moves(c, call),
         call.route # "ticket",
         UNCHANGED <<team, tickets, happenings, heard, answered, steady, passing, over>>
  PROVE  TicketInv'
  <1>1. calls' = [calls EXCEPT ![c] = call] /\ calls \in [Calls -> TicketCall]
    BY DEF Moves, TicketInv, TicketTypes
  <1>2. TicketTypes' /\ TicketBounds'
    BY <1>1 DEF TicketInv, TicketTypes, TicketBounds
  <1>3. TeamWatched' /\ TheTeamHears'
    BY DEF TicketInv, TeamWatched, OnAccount, isAssigned, TheTeamHears
  <1>4. NoticeRuns'
    <2>. SUFFICES ASSUME NEW d \in Calls, calls'[d].route = "ticket"
                  PROVE  NoticeRun(d)'
      BY DEF NoticeRuns
    <2>1. CASE d = c
      BY <1>1, <2>1
    <2>2. CASE d # c
      <3>1. calls'[d] = calls[d]
        BY <1>1, <2>2
      <3>. QED  BY <3>1 DEF TicketInv, NoticeRuns, NoticeRun
    <2>. QED  BY <2>1, <2>2
  <1>. QED  BY <1>2, <1>3, <1>4 DEF TicketInv

LEMMA TicketGates ==
  ASSUME TicketInv, NEW c \in Calls,
         \/ createTicket(c) \/ FrameTicket(c) \/ TicketDies(c)
         \/ \E t \in TicketId :
              \/ \E by \in Speakers \cup {None} : ReplyGate(c, t, by)
              \/ \E by \in Speakers, to \in Statuses : StatusGate(c, t, by, to)
  PROVE  TicketInv'
  <1>1. PICK call \in TicketCall :
          /\ Moves(c, call) /\ call.route # "ticket"
          /\ UNCHANGED <<team, tickets, happenings, heard, answered, steady, passing, over>>
    <2>1. CASE createTicket(c)
      <3>. DEFINE call == [route |-> "create", step |-> "write"]
      <3>1. call \in TicketCall /\ call.route # "ticket"
        BY DEF TicketCall
      <3>. HIDE DEF call
      <3>2. Moves(c, call) /\ UNCHANGED <<team, tickets, happenings, Unheard>>
        BY <2>1 DEF createTicket, Starts, call
      <3>. QED  BY <3>1, <3>2 DEF Unheard
    <2>2. CASE FrameTicket(c) \/ TicketDies(c)
      BY <2>2, TicketIdleCall DEF FrameTicket, TicketDies, Ends, Unheard
    <2>3. ASSUME NEW t \in TicketId, NEW by \in Speakers \cup {None}, ReplyGate(c, t, by)
          PROVE  \E call \in TicketCall : Moves(c, call) /\ call.route # "ticket"
      <3>. DEFINE call == [route |-> "reply", step |-> "write", ticket |-> t, by |-> by]
      <3>1. call \in TicketCall /\ call.route # "ticket"
        BY DEF TicketCall
      <3>. HIDE DEF call
      <3>2. Moves(c, call)
        BY <2>3 DEF ReplyGate, Starts, call
      <3>. QED  BY <3>1, <3>2
    <2>4. ASSUME NEW t \in TicketId, NEW by \in Speakers, NEW to \in Statuses, StatusGate(c, t, by, to)
          PROVE  \E call \in TicketCall : Moves(c, call) /\ call.route # "ticket"
      <3>. DEFINE call == [route |-> "status", step |-> "write", ticket |-> t, by |-> by, to |-> to]
      <3>1. call \in TicketCall /\ call.route # "ticket"
        BY DEF TicketCall
      <3>. HIDE DEF call
      <3>2. Moves(c, call)
        BY <2>4 DEF StatusGate, Starts, call
      <3>. QED  BY <3>1, <3>2
    <2>. QED  BY <2>1, <2>2, <2>3, <2>4 DEF ReplyGate, StatusGate, Unheard
  <1>. QED  BY <1>1, TicketCallStep

-----------------------------------------------------------------------------
(* A happening is committed, on a ticket there is.                           *)
LEMMA TicketCommits ==
  ASSUME TicketInv, NEW c \in Calls, NEW t \in TicketId, NEW byCustomer \in BOOLEAN,
         Commits(c, t, byCustomer), tickets' \in Seq(Statuses), Len(tickets') <= Len(happenings) + 1
  PROVE  TicketInv'
  <1>. DEFINE n == Len(happenings) + 1
              row == [ticket |-> t, byCustomer |-> byCustomer]
              call == [route |-> "ticket", step |-> IF byCustomer THEN "ask" ELSE "customer",
                       what |-> n]
  <1>1. /\ n \in Happening /\ happenings' = Append(happenings, row)
        /\ steady' = [steady EXCEPT ![n] = OnAccount] /\ passing' = [passing EXCEPT ![n] = OnAccount]
        /\ calls' = [calls EXCEPT ![c] = call]
        /\ UNCHANGED <<team, heard, answered, over>>
    BY DEF Commits, Moves, OnAccount
  <1>2. /\ happenings \in Seq(HappeningRow) /\ Len(happenings) \in Nat
        /\ DOMAIN happenings = 1..Len(happenings) /\ calls \in [Calls -> TicketCall]
        /\ steady \in [Happening -> SUBSET Officers] /\ passing \in [Happening -> SUBSET Officers]
    BY DEF TicketInv, TicketTypes
  <1>3. row \in HappeningRow
    BY Zenon DEF HappeningRow
  <1>4. row.byCustomer = byCustomer
    BY Zenon
  <1>5. /\ call \in TicketCall /\ call.route = "ticket" /\ call.what = n
        /\ call.step = IF byCustomer THEN "ask" ELSE "customer"
    <2>1. call.step \in {"ask", "customer"}
      OBVIOUS
    <2>2. \/ call = [route |-> "ticket", step |-> "ask", what |-> n]
          \/ call = [route |-> "ticket", step |-> "customer", what |-> n]
      OBVIOUS
    <2>. QED  BY <1>1, <2>1, <2>2 DEF TicketCall
  <1>. HIDE DEF row, call
  <1>6. /\ happenings' \in Seq(HappeningRow) /\ Len(happenings') = n /\ DOMAIN happenings' = 1..n
        /\ happenings'[n] = row /\ \A h \in 1..Len(happenings) : happenings'[h] = happenings[h]
    BY <1>1, <1>2, <1>3
  <1>7. OnAccount \subseteq Officers /\ OnAccount' = OnAccount
    BY <1>1 DEF OnAccount, isAssigned
  <1>8. /\ steady'[n] = OnAccount /\ passing'[n] = OnAccount
        /\ \A h \in Happening : h # n => steady'[h] = steady[h] /\ passing'[h] = passing[h]
    BY <1>1, <1>2
  <1>9. /\ steady' \in [Happening -> SUBSET Officers] /\ passing' \in [Happening -> SUBSET Officers]
    BY <1>1, <1>2, <1>7
  <1>10. TicketTypes'
    BY <1>1, <1>2, <1>5, <1>6, <1>9 DEF TicketInv, TicketTypes
  <1>11. TicketBounds'
    <2>1. n <= MaxHappenings
      BY <1>1, TicketAssumption DEF Happening
    <2>2. \A h \in Happening : h \notin DOMAIN happenings' =>
            heard[h] = {} /\ h \notin answered /\ h \notin over
      BY <1>2, <1>6 DEF TicketInv, TicketBounds
    <2>. QED  BY <1>1, <1>6, <2>1, <2>2 DEF TicketBounds
  <1>12. heard[n] = {} /\ n \notin answered /\ n \notin over
    BY <1>1, <1>2 DEF TicketInv, TicketBounds
  <1>13. \A h \in DOMAIN happenings' :
           \/ h = n
           \/ h # n /\ h \in DOMAIN happenings /\ h \in Happening /\ happenings'[h] = happenings[h]
    BY <1>1, <1>2, <1>6, TicketAssumption DEF Happening
  <1>14. TeamWatched'
    BY <1>7, <1>8, <1>13 DEF TicketInv, TeamWatched
  <1>15. TheTeamHears'
    <2>. SUFFICES ASSUME NEW h \in DOMAIN happenings'
                  PROVE  IF happenings'[h].byCustomer
                         THEN heard[h] \subseteq passing'[h] /\ h \notin answered
                              /\ (h \in over => steady'[h] \subseteq heard[h])
                         ELSE heard[h] = {} /\ (h \in over => h \in answered)
      BY <1>1 DEF TheTeamHears
    <2>1. CASE h = n
      BY <1>12, <2>1
    <2>2. CASE h # n
      BY <1>8, <1>13, <2>2 DEF TicketInv, TheTeamHears
    <2>. QED  BY <2>1, <2>2
  <1>16. NoticeRuns'
    <2>. SUFFICES ASSUME NEW d \in Calls, calls'[d].route = "ticket"
                  PROVE  NoticeRun(d)'
      BY DEF NoticeRuns
    <2>1. CASE d = c
      <3>1. calls'[d] = call /\ n \in DOMAIN happenings' /\ happenings'[n].byCustomer = byCustomer
        BY <1>1, <1>2, <1>4, <1>6, <2>1
      <3>. QED  BY <1>5, <3>1 DEF NoticeRun
    <2>2. CASE d # c
      <3>1. calls'[d] = calls[d] /\ NoticeRun(d)
        BY <1>1, <1>2, <2>2 DEF TicketInv, NoticeRuns
      <3>2. calls[d].what \in DOMAIN happenings
        BY <3>1 DEF NoticeRun
      <3>3. calls[d].what \in DOMAIN happenings' /\ calls[d].what # n
        BY <1>2, <1>6, <3>2
      <3>4. calls[d].what \in Happening
        BY <1>1, <1>2, <3>2, TicketAssumption DEF Happening
      <3>. QED  BY <1>1, <1>2, <1>6, <1>8, <3>1, <3>2, <3>3, <3>4 DEF NoticeRun
    <2>. QED  BY <2>1, <2>2
  <1>. QED  BY <1>10, <1>11, <1>14, <1>15, <1>16 DEF TicketInv

LEMMA TicketWrites ==
  ASSUME TicketInv, NEW c \in Calls, CreateWrite(c) \/ ReplyWrite(c) \/ StatusWrite(c)
  PROVE  TicketInv'
  <1>1. /\ tickets \in Seq(Statuses) /\ Len(tickets) \in Nat /\ Len(happenings) \in Nat
        /\ Len(tickets) <= Len(happenings) /\ calls[c] \in TicketCall
    BY DEF TicketInv, TicketTypes, TicketBounds
  <1>0. \A t, by : Commits(c, t, by) => Len(happenings) + 1 <= MaxHappenings
    BY TicketAssumption DEF Commits, Happening
  <1>2. CASE CreateWrite(c)
    <2>1. tickets' = Append(tickets, "OPEN") /\ Commits(c, Len(tickets) + 1, TRUE)
      BY <1>2 DEF CreateWrite
    <2>2. tickets' \in Seq(Statuses) /\ Len(tickets') <= Len(happenings) + 1
      BY <1>1, <2>1, TicketAssumption
    <2>3. Len(happenings) + 1 <= MaxHappenings
      BY <1>0, <2>1
    <2>4. Len(tickets) + 1 \in TicketId
      BY <1>1, <2>3, TicketAssumption DEF TicketId
    <2>. QED  BY <2>1, <2>2, <2>4, TicketCommits
  <1>3. CASE ReplyWrite(c)
    <2>. DEFINE byCustomer == calls[c].by = None
    <2>1. calls[c].ticket \in TicketId
      BY <1>1, <1>3, TicketIdleCall DEF ReplyWrite, At, TicketCall
    <2>2. byCustomer \in BOOLEAN /\ Commits(c, calls[c].ticket, byCustomer) /\ tickets' = tickets
      BY <1>3 DEF ReplyWrite
    <2>3. tickets' \in Seq(Statuses) /\ Len(tickets') <= Len(happenings) + 1
      BY <1>1, <2>2
    <2>. HIDE DEF byCustomer
    <2>. QED  BY <2>1, <2>2, <2>3, TicketCommits
  <1>4. CASE StatusWrite(c)
    <2>1. calls[c].ticket \in TicketId /\ calls[c].to \in Statuses
      BY <1>1, <1>4, TicketIdleCall DEF StatusWrite, At, TicketCall
    <2>2. tickets' = [tickets EXCEPT ![calls[c].ticket] = calls[c].to] /\ Commits(c, calls[c].ticket, FALSE)
      BY <1>4 DEF StatusWrite
    <2>3. tickets' \in Seq(Statuses) /\ Len(tickets') = Len(tickets)
      <3>. DEFINE S == [tickets EXCEPT ![calls[c].ticket] = calls[c].to]
      <3>0. tickets \in [1..Len(tickets) -> Statuses]
        BY <1>1
      <3>1. S \in [1..Len(tickets) -> Statuses]
        BY <2>1, <3>0
      <3>2. S \in Seq(Statuses) /\ Len(S) = Len(tickets)
        <4>. HIDE DEF S
        <4>. QED  BY <1>1, <3>1
      <3>. QED  BY <2>2, <3>2
    <2>4. Len(tickets') <= Len(happenings) + 1 /\ FALSE \in BOOLEAN
      BY <1>1, <2>3
    <2>. QED  BY <2>1, <2>2, <2>3, <2>4, TicketCommits
  <1>. QED  BY <1>2, <1>3, <1>4

-----------------------------------------------------------------------------
(* Notices go out.  The handler is at its next step, somebody may have       *)
(* heard, and the happening may be over.                                     *)
LEMMA TicketNotices ==
  ASSUME TicketInv, NEW c \in Calls, calls[c].route = "ticket",
         NEW call \in TicketCall, Moves(c, call),
         call.route = "ticket", call.what = calls[c].what, call.step \in {"tell", "frame"},
         UNCHANGED <<team, tickets, happenings, steady, passing>>,
         heard' \in [Happening -> SUBSET Officers], answered' \subseteq Happening,
         over \subseteq over', over' \subseteq over \cup {calls[c].what},
         \A h \in Happening : /\ heard[h] \subseteq heard'[h]
                              /\ h # calls[c].what => heard'[h] = heard[h] /\ (h \in answered' <=> h \in answered),
         call.step = "tell" => /\ happenings[call.what].byCustomer
                               /\ call.rest \subseteq passing[call.what]
                               /\ steady[call.what] \subseteq call.rest \cup heard'[call.what],
         IF happenings[calls[c].what].byCustomer
         THEN /\ heard'[calls[c].what] \subseteq passing[calls[c].what]
              /\ calls[c].what \notin answered'
              /\ calls[c].what \in over' => steady[calls[c].what] \subseteq heard'[calls[c].what]
         ELSE /\ heard'[calls[c].what] = {}
              /\ calls[c].what \in over' => calls[c].what \in answered'
  PROVE  TicketInv'
  <1>1. calls' = [calls EXCEPT ![c] = call] /\ calls \in [Calls -> TicketCall]
    BY DEF Moves, TicketInv, TicketTypes
  <1>2. calls[c].what \in DOMAIN happenings /\ DOMAIN happenings \subseteq Happening
    BY TicketAssumption DEF TicketInv, TicketTypes, TicketBounds, NoticeRuns, NoticeRun, Happening
  <1>3. TicketTypes'
    BY <1>1, <1>2 DEF TicketInv, TicketTypes
  <1>4. TicketBounds'
    BY <1>2 DEF TicketInv, TicketBounds
  <1>5. TeamWatched'
    BY DEF TicketInv, TeamWatched, OnAccount, isAssigned
  <1>6. TheTeamHears'
    <2>. SUFFICES ASSUME NEW h \in DOMAIN happenings
                  PROVE  IF happenings[h].byCustomer
                         THEN heard'[h] \subseteq passing[h] /\ h \notin answered'
                              /\ (h \in over' => steady[h] \subseteq heard'[h])
                         ELSE heard'[h] = {} /\ (h \in over' => h \in answered')
      BY DEF TheTeamHears
    <2>1. CASE h = calls[c].what
      BY <2>1
    <2>2. CASE h # calls[c].what
      <3>1. heard'[h] = heard[h] /\ (h \in answered' <=> h \in answered) /\ (h \in over' <=> h \in over)
        BY <1>2, <2>2
      <3>. QED  BY <3>1 DEF TicketInv, TheTeamHears
    <2>. QED  BY <2>1, <2>2
  <1>7. NoticeRuns'
    <2>. SUFFICES ASSUME NEW d \in Calls, calls'[d].route = "ticket"
                  PROVE  NoticeRun(d)'
      BY DEF NoticeRuns
    <2>1. CASE d = c
      BY <1>1, <1>2, <2>1 DEF NoticeRun
    <2>2. CASE d # c
      <3>1. calls'[d] = calls[d] /\ NoticeRun(d)
        BY <1>1, <2>2 DEF TicketInv, NoticeRuns
      <3>2. calls[d].what \in Happening
        BY <1>2, <3>1 DEF NoticeRun
      <3>3. heard[calls[d].what] \subseteq heard'[calls[d].what]
        BY <3>2
      <3>. QED  BY <3>1, <3>3 DEF NoticeRun
    <2>. QED  BY <2>1, <2>2
  <1>. QED  BY <1>3, <1>4, <1>5, <1>6, <1>7 DEF TicketInv

LEMMA FramingCall ==
  ASSUME NEW h \in Happening
  PROVE  /\ Framing(h) \in TicketCall /\ Framing(h).route = "ticket"
         /\ Framing(h).step = "frame" /\ Framing(h).what = h
  BY DEF Framing, TicketCall

LEMMA AskTeamStep ==
  ASSUME TicketInv, NEW c \in Calls, AskTeam(c)
  PROVE  TicketInv'
  <1>. DEFINE h == calls[c].what
              ids == currentOfficerIds(team)
              telling == [route |-> "ticket", step |-> "tell", what |-> h, rest |-> ids]
              call == IF ids = {} THEN Framing(h) ELSE telling
  <1>1. /\ calls[c].route = "ticket" /\ calls[c].step = "ask" /\ Moves(c, call)
        /\ over' = IF ids = {} THEN over \cup {h} ELSE over
        /\ UNCHANGED <<team, tickets, happenings, heard, answered, steady, passing>>
    BY DEF AskTeam, At
  <1>2. /\ h \in DOMAIN happenings /\ happenings[h].byCustomer /\ h \in Happening
        /\ steady[h] \subseteq OnAccount /\ OnAccount \subseteq passing[h]
    BY <1>1, TicketNotice DEF TicketInv, TicketTypes, NoticeRuns, NoticeRun, TeamWatched
  <1>3. ids = OnAccount /\ ids \subseteq Officers
    BY TeamAssumption DEF currentOfficerIds, OnAccount, isAssigned, TicketInv, TicketTypes, TeamType
  <1>4. /\ telling \in TicketCall /\ telling.route = "ticket" /\ telling.step = "tell"
        /\ telling.what = h /\ telling.rest = ids
    BY <1>2, <1>3 DEF TicketCall
  <1>. HIDE DEF telling, ids
  <1>5. /\ call \in TicketCall /\ call.route = "ticket" /\ call.what = h
        /\ call.step = IF ids = {} THEN "frame" ELSE "tell"
        /\ call.step = "tell" => call.rest = ids
    BY <1>2, <1>4, FramingCall
  <1>. HIDE DEF call
  <1>6. heard \in [Happening -> SUBSET Officers] /\ answered \subseteq Happening
    BY DEF TicketInv, TicketTypes
  <1>7. /\ heard[h] \subseteq passing[h] /\ h \notin answered
        /\ h \in over' => steady[h] \subseteq heard[h]
    BY <1>1, <1>2, <1>3 DEF TicketInv, TheTeamHears
  <1>8. \A g \in Happening : heard'[g] = heard[g] /\ (g \in answered' <=> g \in answered)
    BY <1>1
  <1>. QED  BY <1>1, <1>2, <1>3, <1>5, <1>6, <1>7, <1>8, TicketNotices

LEMMA TellOfficerStep ==
  ASSUME TicketInv, NEW c \in Calls, NEW o \in Officers, TellOfficer(c, o)
  PROVE  TicketInv'
  <1>. DEFINE h == calls[c].what
              rest == calls[c].rest \ {o}
              telling == [calls[c] EXCEPT !.rest = rest]
              call == IF rest = {} THEN Framing(h) ELSE telling
  <1>1. /\ calls[c].route = "ticket" /\ calls[c].step = "tell" /\ o \in calls[c].rest
        /\ Moves(c, call) /\ heard' = [heard EXCEPT ![h] = @ \cup {o}]
        /\ over' = IF rest = {} THEN over \cup {h} ELSE over
        /\ UNCHANGED <<team, tickets, happenings, answered, steady, passing>>
    BY DEF TellOfficer, At
  <1>2. /\ h \in DOMAIN happenings /\ happenings[h].byCustomer
        /\ calls[c].rest \subseteq passing[h] /\ steady[h] \subseteq calls[c].rest \cup heard[h]
    BY <1>1 DEF TicketInv, NoticeRuns, NoticeRun
  <1>3. /\ h \in Happening /\ calls[c].rest \subseteq Officers
        /\ calls[c] = [route |-> "ticket", step |-> "tell", what |-> h, rest |-> calls[c].rest]
    BY <1>1, TicketNotice DEF TicketInv, TicketTypes
  <1>4. /\ telling \in TicketCall /\ telling.route = "ticket" /\ telling.step = "tell"
        /\ telling.what = h /\ telling.rest = rest
    <2>1. telling = [route |-> "ticket", step |-> "tell", what |-> h, rest |-> rest]
      BY <1>3
    <2>. HIDE DEF telling
    <2>. QED  BY <1>3, <2>1 DEF TicketCall
  <1>. HIDE DEF telling, rest
  <1>5. /\ call \in TicketCall /\ call.route = "ticket" /\ call.what = h
        /\ call.step = IF rest = {} THEN "frame" ELSE "tell"
        /\ call.step = "tell" => call.rest = rest
    BY <1>3, <1>4, FramingCall
  <1>. HIDE DEF call
  <1>6. /\ heard \in [Happening -> SUBSET Officers] /\ answered \subseteq Happening
    BY DEF TicketInv, TicketTypes
  <1>7. /\ heard' \in [Happening -> SUBSET Officers] /\ heard'[h] = heard[h] \cup {o}
        /\ \A g \in Happening : g # h => heard'[g] = heard[g]
    BY <1>1, <1>3, <1>6
  <1>8. steady[h] \subseteq rest \cup heard'[h] /\ rest \subseteq passing[h] /\ o \in passing[h]
    BY <1>1, <1>2, <1>7 DEF rest
  <1>9. heard[h] \subseteq passing[h] /\ h \notin answered /\ (h \in over => steady[h] \subseteq heard[h])
    BY <1>2 DEF TicketInv, TheTeamHears
  <1>10. /\ heard'[h] \subseteq passing[h] /\ h \notin answered'
         /\ h \in over' => steady[h] \subseteq heard'[h]
    BY <1>1, <1>7, <1>8, <1>9
  <1>11. \A g \in Happening : /\ heard[g] \subseteq heard'[g]
                              /\ g # h => heard'[g] = heard[g] /\ (g \in answered' <=> g \in answered)
    BY <1>1, <1>7
  <1>. QED  BY <1>1, <1>2, <1>5, <1>6, <1>7, <1>8, <1>10, <1>11, TicketNotices

LEMMA TellCustomerStep ==
  ASSUME TicketInv, NEW c \in Calls, TellCustomer(c)
  PROVE  TicketInv'
  <1>. DEFINE h == calls[c].what
  <1>1. /\ calls[c].route = "ticket" /\ calls[c].step = "customer" /\ Moves(c, Framing(h))
        /\ answered' = answered \cup {h} /\ over' = over \cup {h}
        /\ UNCHANGED <<team, tickets, happenings, heard, steady, passing>>
    BY DEF TellCustomer, At
  <1>2. h \in DOMAIN happenings /\ ~happenings[h].byCustomer /\ h \in Happening
    BY <1>1, TicketNotice DEF TicketInv, TicketTypes, NoticeRuns, NoticeRun
  <1>3. heard \in [Happening -> SUBSET Officers] /\ answered \subseteq Happening /\ heard[h] = {}
    BY <1>2 DEF TicketInv, TicketTypes, TheTeamHears
  <1>4. \A g \in Happening : /\ heard[g] \subseteq heard'[g]
                             /\ g # h => heard'[g] = heard[g] /\ (g \in answered' <=> g \in answered)
    BY <1>1
  <1>. QED  BY <1>1, <1>2, <1>3, <1>4, FramingCall, TicketNotices

LEMMA TicketTeamStep ==
  ASSUME TicketInv, TicketTeamChanges
  PROVE  TicketInv'
  <1>1. PICK t \in Teams :
          /\ team' = t
          /\ steady' = [h \in Happening |-> steady[h] \cap {o \in Officers : o = t.pointer \/ o \in t.joins}]
          /\ passing' = [h \in Happening |-> IF h <= Len(happenings)
               THEN passing[h] \cup {o \in Officers : o = t.pointer \/ o \in t.joins} ELSE {}]
          /\ UNCHANGED <<calls, tickets, happenings, heard, answered, over>>
    BY DEF TicketTeamChanges
  <1>2. OnAccount' = {o \in Officers : o = t.pointer \/ o \in t.joins}
    BY <1>1 DEF OnAccount, isAssigned
  <1>3. DOMAIN happenings = 1..Len(happenings) /\ Len(happenings) \in Nat
        /\ DOMAIN happenings \subseteq Happening
    BY TicketAssumption DEF TicketInv, TicketTypes, TicketBounds, Happening
  <1>4. \A h \in DOMAIN happenings : /\ steady'[h] = steady[h] \cap OnAccount'
                                     /\ passing'[h] = passing[h] \cup OnAccount'
    BY <1>1, <1>2, <1>3
  <1>5. /\ steady' \in [Happening -> SUBSET Officers] /\ passing' \in [Happening -> SUBSET Officers]
    BY <1>1 DEF TicketInv, TicketTypes
  <1>6. TicketTypes' /\ TicketBounds'
    BY <1>1, <1>5 DEF TicketInv, TicketTypes, TicketBounds
  <1>7. TeamWatched'
    BY <1>1, <1>4 DEF TeamWatched
  <1>8. TheTeamHears'
    BY <1>1, <1>4 DEF TicketInv, TheTeamHears
  <1>9. NoticeRuns'
    BY <1>1, <1>4 DEF TicketInv, NoticeRuns, NoticeRun
  <1>. QED  BY <1>6, <1>7, <1>8, <1>9 DEF TicketInv

-----------------------------------------------------------------------------
LEMMA TicketStep == TicketInv /\ [TicketNext]_ticketVars => TicketInv'
  <1>. SUFFICES ASSUME TicketInv, [TicketNext]_ticketVars  PROVE TicketInv'
    OBVIOUS
  <1>1. ASSUME NEW c \in Calls,
               \/ createTicket(c) \/ FrameTicket(c) \/ TicketDies(c)
               \/ \E t \in TicketId :
                    \/ \E by \in Speakers \cup {None} : ReplyGate(c, t, by)
                    \/ \E by \in Speakers, to \in Statuses : StatusGate(c, t, by, to)
        PROVE  TicketInv'
    BY <1>1, TicketGates
  <1>2. ASSUME NEW c \in Calls, CreateWrite(c) \/ ReplyWrite(c) \/ StatusWrite(c)  PROVE TicketInv'
    BY <1>2, TicketWrites
  <1>3. ASSUME NEW c \in Calls, AskTeam(c)  PROVE TicketInv'
    BY <1>3, AskTeamStep
  <1>4. ASSUME NEW c \in Calls, NEW o \in Officers, TellOfficer(c, o)  PROVE TicketInv'
    BY <1>4, TellOfficerStep
  <1>5. ASSUME NEW c \in Calls, TellCustomer(c)  PROVE TicketInv'
    BY <1>5, TellCustomerStep
  <1>6. CASE TicketTeamChanges
    BY <1>6, TicketTeamStep
  <1>7. CASE UNCHANGED ticketVars
    BY <1>7 DEF ticketVars, TicketInv, TicketTypes, TicketBounds, TeamWatched, OnAccount,
                isAssigned, NoticeRuns, NoticeRun, TheTeamHears
  <1>. QED  BY <1>1, <1>2, <1>3, <1>4, <1>5, <1>6, <1>7 DEF TicketNext

(* What a handler still owes of a happening, and who has looked after the    *)
(* customer since.                                                           *)
THEOREM TicketInvariance == TicketSpec => []TicketInv
  BY TicketInitially, TicketStep, PTL DEF TicketSpec

(* Whatever the officers, the assignments and the handlers in flight, those  *)
(* on the account all along hear what the customer does once its notices     *)
(* are out, and nobody who never was (ticket.service.ts, createTicket).    *)
THEOREM TicketsAreHeard == TicketSpec => []TheTeamHears
  <1>1. TicketInv => TheTeamHears
    BY DEF TicketInv
  <1>. QED  BY <1>1, TicketInvariance, PTL

-----------------------------------------------------------------------------


(* No flyer comes before an id that is free, an id is put in order once, and *)
(* what a handler or the history speaks of was a flyer.                      *)
OfUsed(order) == \A i \in DOMAIN order : order[i] \in Used

FlyerIds ==
  /\ \A f \in Used : 1..f \subseteq Used
  /\ OfUsed(asked) /\ IsInjective(asked) /\ hidden \subseteq Used

FlyerHandlers ==
  \A c \in Calls :
    /\ calls[c].route \in {"edit", "delete"} => calls[c].flyer \in Used
    /\ calls[c].route = "reorder" =>
         OfUsed(calls[c].order) /\ IsInjective(calls[c].order) /\ calls[c].rest \subseteq ToSet(calls[c].order)

(* A number is that of a place in an order, or one more than the highest of  *)
(* an earlier id.                                                            *)
FlyerNumbers ==
  /\ \A f \in Used : flyers[f].sortOrder <= MaxFlyers + f
  /\ \A c \in Calls : calls[c].route = "newflyer" =>
       calls[c].max <= MaxFlyers \/ \E f \in Used : calls[c].max <= MaxFlyers + f

AskedInOrder ==
  \A i, j \in DOMAIN asked :
    i < j /\ {asked[i], asked[j]} \subseteq There =>
      flyers[asked[i]].sortOrder < flyers[asked[j]].sortOrder

ShownUnlessHidden(f) == flyers[f].isActive <=> f \notin hidden

(* What the one handler of the list has to put right, or keeps.              *)
AtWork(c) ==
  /\ \A d \in Calls : ~IsIdle(d) => c = d
  /\ calls[c].route # "reorder" => AskedInOrder
  /\ \A f \in There : calls[c].route # "edit" \/ calls[c].flyer # f => ShownUnlessHidden(f)
  /\ calls[c].route = "edit" => (calls[c].active <=> calls[c].flyer \notin hidden)
  /\ calls[c].route = "newflyer" => \A f \in There : flyers[f].sortOrder <= calls[c].max
  /\ calls[c].route = "reorder" =>
       \A i \in DOMAIN calls[c].order : calls[c].order[i] \in There =>
         calls[c].order[i] \in calls[c].rest \/ flyers[calls[c].order[i]].sortOrder = i - 1

FlyerInv ==
  /\ FlyerTypes /\ FlyerIds /\ FlyerHandlers /\ FlyerNumbers
  /\ ~disturbed => \A c \in Calls : ~IsIdle(c) => AtWork(c)
  /\ FlyersAsAsked

-----------------------------------------------------------------------------
LEMMA FlyerIdleCall == Idle \in FlyerCall /\ Idle.route = "none" /\ Idle.step = "idle"
  BY DEF Idle, FlyerCall

LEMMA FlyerShapes ==
  ASSUME NEW call \in FlyerCall
  PROVE  /\ call.route \in {"none", "newflyer", "edit", "delete", "reorder"}
         /\ call.route = "none" => call = Idle
         /\ call.route = "newflyer" => call.max \in 0..MaxFlyers * 2 /\ call.step = "create"
         /\ call.route = "edit" => /\ call.flyer \in Flyer /\ call.text \in Texts
                                   /\ call.active \in BOOLEAN /\ call.step = "update"
         /\ call.route = "delete" => call.flyer \in Flyer /\ call.step = "remove"
         /\ call.route = "reorder" => /\ call.order \in FlyerOrder /\ call.rest \subseteq Flyer
                                      /\ call.step = "place"
  BY FlyerIdleCall DEF FlyerCall, Idle

LEMMA FlyerInitially == FlyerInit => FlyerInv
  <1>. SUFFICES ASSUME FlyerInit  PROVE FlyerInv
    OBVIOUS
  <1>1. Used = {} /\ There = {} /\ DOMAIN asked = {} /\ \A c \in Calls : calls[c] = Idle
    BY DEF FlyerInit, Used, There
  <1>2. FlyerTypes
    <2>1. asked \in FlyerOrder
      <3>1. <<>> \in [1..0 -> Flyer] /\ 0 \in 0..MaxFlyers
        BY FlyerAssumption
      <3>. QED  BY <3>1 DEF FlyerInit, FlyerOrder
    <2>. QED  BY <2>1, FlyerIdleCall DEF FlyerInit, FlyerTypes
  <1>3. FlyerIds /\ FlyerHandlers /\ FlyerNumbers
    BY <1>1, FlyerIdleCall DEF FlyerInit, FlyerIds, FlyerHandlers, FlyerNumbers, OfUsed, IsInjective
  <1>4. (\A c \in Calls : ~IsIdle(c) => AtWork(c)) /\ FlyersAsAsked
    BY <1>1 DEF IsIdle, FlyersAsAsked
  <1>. QED  BY <1>2, <1>3, <1>4 DEF FlyerInv

LEMMA FlyerRowsKept ==
  ASSUME FlyerInv
  PROVE  /\ \A f \in Used : f \in Flyer /\ flyers[f] \in FlyerRow /\ flyers[f].sortOrder \in 0..MaxFlyers * 2
         /\ There \subseteq Used /\ Flyer \subseteq Nat /\ MaxFlyers \in Nat
         /\ calls \in [Calls -> FlyerCall]
  <1>1. \A f \in Used : f \in Flyer /\ flyers[f] \in FlyerRow
    BY DEF FlyerInv, FlyerTypes, Used
  <1>. QED  BY <1>1, FlyerAssumption DEF FlyerRow, There, Flyer, FlyerInv, FlyerTypes

(* A list nobody is at work on.                                              *)
LEMMA FlyersAtRest ==
  ASSUME FlyerInv, ~disturbed, \A d \in Calls : IsIdle(d)
  PROVE  AskedInOrder /\ \A f \in There : ShownUnlessHidden(f)
  BY DEF FlyerInv, FlyersAsAsked, AskedInOrder, ShownUnlessHidden

(* A handler begins: it is the only one, or the list is disturbed.           *)
LEMMA FlyerBegins ==
  ASSUME FlyerInv, NEW c \in Calls, NEW call \in FlyerCall, call # Idle,
         Begins(c, call), UNCHANGED <<flyers, asked>>, hidden' \subseteq Used,
         call.route \in {"edit", "delete"} => call.flyer \in Used,
         call.route = "reorder" => /\ OfUsed(call.order) /\ IsInjective(call.order)
                                   /\ call.rest = ToSet(call.order),
         call.route = "newflyer" =>
           /\ call.max <= MaxFlyers \/ \E f \in Used : call.max <= MaxFlyers + f
           /\ \A f \in There : flyers[f].sortOrder <= call.max,
         \A f \in Used : call.route # "edit" \/ call.flyer # f => (f \in hidden' <=> f \in hidden),
         ~disturbed /\ (\A d \in Calls : IsIdle(d)) /\ call.route = "edit" =>
           (call.active <=> call.flyer \notin hidden')
  PROVE  FlyerInv'
  <1>1. /\ calls[c] = Idle /\ calls' = [calls EXCEPT ![c] = call]
        /\ calls \in [Calls -> FlyerCall] /\ calls'[c] = call
        /\ \A d \in Calls : d # c => calls'[d] = calls[d]
        /\ disturbed' \in BOOLEAN
        /\ ~disturbed' => ~disturbed /\ \A d \in Calls : IsIdle(d)
    BY DEF Begins, Starts, IsIdle, Moves, FlyerInv, FlyerTypes
  <1>2. Used' = Used /\ There' = There
    BY DEF Used, There
  <1>3. FlyerTypes'
    BY <1>1 DEF FlyerInv, FlyerTypes, Used
  <1>4. FlyerIds'
    BY <1>2 DEF FlyerInv, FlyerIds, OfUsed
  <1>5. FlyerHandlers'
    <2>. SUFFICES ASSUME NEW d \in Calls
                  PROVE  /\ calls'[d].route \in {"edit", "delete"} => calls'[d].flyer \in Used
                         /\ calls'[d].route = "reorder" =>
                              /\ OfUsed(calls'[d].order) /\ IsInjective(calls'[d].order)
                              /\ calls'[d].rest \subseteq ToSet(calls'[d].order)
      BY <1>2 DEF FlyerHandlers, OfUsed
    <2>1. CASE d = c
      BY <1>1, <2>1
    <2>2. CASE d # c
      BY <1>1, <2>2 DEF FlyerInv, FlyerHandlers
    <2>. QED  BY <2>1, <2>2
  <1>6. FlyerNumbers'
    <2>. SUFFICES ASSUME NEW d \in Calls, calls'[d].route = "newflyer"
                  PROVE  calls'[d].max <= MaxFlyers \/ \E f \in Used : calls'[d].max <= MaxFlyers + f
      BY <1>2 DEF FlyerInv, FlyerNumbers
    <2>1. CASE d = c
      BY <1>1, <2>1
    <2>2. CASE d # c
      BY <1>1, <2>2 DEF FlyerInv, FlyerNumbers
    <2>. QED  BY <2>1, <2>2
  <1>7. ASSUME ~disturbed', NEW d \in Calls, ~IsIdle(d)'  PROVE AtWork(d)'
    <2>1. d = c /\ \A e \in Calls : ~IsIdle(e)' => e = c
      BY <1>1, <1>7 DEF IsIdle
    <2>2. AskedInOrder /\ \A f \in There : ShownUnlessHidden(f)
      BY <1>1, <1>7, FlyersAtRest
    <2>3. AskedInOrder'
      BY <1>2, <2>2 DEF AskedInOrder
    <2>4. \A f \in There : call.route # "edit" \/ call.flyer # f => ShownUnlessHidden(f)'
      BY <2>2, FlyerRowsKept DEF ShownUnlessHidden
    <2>5. call.route = "edit" => (call.active <=> call.flyer \notin hidden')
      BY <1>1, <1>7
    <2>6. call.route = "reorder" =>
            \A i \in DOMAIN call.order : call.order[i] \in call.rest
      BY DEF ToSet
    <2>. QED  BY <1>1, <1>2, <2>1, <2>3, <2>4, <2>5, <2>6 DEF AtWork
  <1>8. FlyersAsAsked'
    BY <1>1 DEF FlyersAsAsked, IsIdle
  <1>. QED  BY <1>3, <1>4, <1>5, <1>6, <1>7, <1>8 DEF FlyerInv

LEMMA CreateFlyerBegins ==
  ASSUME FlyerInv, NEW c \in Calls, createProductFlyer(c)
  PROVE  FlyerInv'
  <1>. DEFINE call == [route |-> "newflyer", step |-> "create", max |-> Highest]
              S == {flyers[f].sortOrder : f \in There}
  <1>1. Highest \in 0..MaxFlyers * 2 /\ \A f \in There : flyers[f].sortOrder <= Highest
    <2>1. CASE There = {}
      BY <2>1, FlyerAssumption DEF Highest
    <2>2. CASE There # {}
      <3>1. S \subseteq 0..MaxFlyers * 2
        BY FlyerRowsKept
      <3>2. S # {} /\ S \in SUBSET Nat /\ MaxFlyers * 2 \in Nat /\ \A x \in S : x <= MaxFlyers * 2
        BY <2>2, <3>1, FlyerAssumption
      <3>3. Highest = Max(S) /\ \A f \in There : flyers[f].sortOrder \in S
        BY <2>2 DEF Highest
      <3>. HIDE DEF S
      <3>4. Max(S) \in S /\ \A y \in S : Max(S) >= y
        BY <3>2, LargestNatural
      <3>5. \A y \in S : y <= Max(S)
        BY <3>1, <3>4, FlyerAssumption
      <3>. QED  BY <3>1, <3>3, <3>4, <3>5
    <2>. QED  BY <2>1, <2>2
  <1>2. Highest <= MaxFlyers \/ \E f \in Used : Highest <= MaxFlyers + f
    <2>1. CASE There = {}
      BY <2>1, FlyerAssumption DEF Highest
    <2>2. CASE There # {}
      <3>1. S \subseteq 0..MaxFlyers * 2
        BY FlyerRowsKept
      <3>2. S # {} /\ S \in SUBSET Nat /\ MaxFlyers * 2 \in Nat /\ \A x \in S : x <= MaxFlyers * 2
        BY <2>2, <3>1, FlyerAssumption
      <3>3. Max(S) \in S
        BY <3>2, LargestNatural
      <3>4. PICK f \in There : Highest = flyers[f].sortOrder
        BY <2>2, <3>3 DEF Highest
      <3>. QED  BY <3>4, FlyerRowsKept DEF FlyerInv, FlyerNumbers
    <2>. QED  BY <2>1, <2>2
  <1>3. /\ call \in FlyerCall /\ call # Idle /\ call.route = "newflyer" /\ call.max = Highest
    BY <1>1 DEF FlyerCall, Idle
  <1>4. Begins(c, call) /\ UNCHANGED <<flyers, asked, hidden>>
    BY DEF createProductFlyer
  <1>. HIDE DEF call
  <1>5. hidden' \subseteq Used
    BY <1>4 DEF FlyerInv, FlyerIds
  <1>. QED  BY <1>1, <1>2, <1>3, <1>4, <1>5, FlyerBegins

LEMMA DeleteFlyerBegins ==
  ASSUME FlyerInv, NEW c \in Calls, NEW f \in Flyer, deleteProductFlyer(c, f)
  PROVE  FlyerInv'
  <1>. DEFINE call == [route |-> "delete", step |-> "remove", flyer |-> f]
  <1>1. call \in FlyerCall /\ call # Idle /\ call.route = "delete" /\ call.flyer = f
    BY DEF FlyerCall, Idle
  <1>2. Begins(c, call) /\ UNCHANGED <<flyers, asked, hidden>> /\ f \in Used
    BY DEF deleteProductFlyer, There
  <1>. HIDE DEF call
  <1>3. hidden' \subseteq Used
    BY <1>2 DEF FlyerInv, FlyerIds
  <1>. QED  BY <1>1, <1>2, <1>3, FlyerBegins

LEMMA UpdateFlyerBegins ==
  ASSUME FlyerInv, NEW c \in Calls, NEW f \in Flyer,
         NEW text \in Texts \cup {None}, NEW active \in {"shown", "hidden", None},
         updateProductFlyer(c, f, text, active)
  PROVE  FlyerInv'
  <1>. DEFINE t == IF text = None THEN flyers[f].text ELSE text
              a == IF active = None THEN flyers[f].isActive ELSE active = "shown"
              call == [route |-> "edit", step |-> "update", flyer |-> f, text |-> t, active |-> a]
  <1>1. /\ f \in There /\ Begins(c, call) /\ UNCHANGED <<flyers, asked>>
        /\ hidden' = IF active = "shown" THEN hidden \ {f}
                     ELSE IF active = "hidden" THEN hidden \cup {f} ELSE hidden
    BY DEF updateProductFlyer
  <1>2. f \in Used /\ flyers[f] \in FlyerRow
    BY <1>1, FlyerRowsKept DEF There
  <1>3. t \in Texts
    BY <1>2 DEF FlyerRow
  <1>4. a \in BOOLEAN
    <2>1. flyers[f].isActive \in BOOLEAN
      BY <1>2 DEF FlyerRow
    <2>2. CASE active = None
      BY <2>1, <2>2
    <2>3. CASE active # None
      <3>1. a = (active = "shown")
        BY <2>3
      <3>. QED  BY <3>1, Zenon
    <2>. QED  BY <2>2, <2>3
  <1>5. ASSUME ~disturbed, \A d \in Calls : IsIdle(d)  PROVE a <=> f \notin hidden'
    <2>1. flyers[f].isActive <=> f \notin hidden
      BY <1>1, <1>5, FlyersAtRest DEF ShownUnlessHidden
    <2>2. CASE active = None
      BY <1>1, <2>1, <2>2, FlyerAssumption
    <2>3. CASE active = "shown"
      <3>1. a
        BY <2>3, FlyerAssumption
      <3>. QED  BY <1>1, <2>3, <3>1
    <2>4. CASE active = "hidden"
      <3>1. ~a
        BY <2>4, FlyerAssumption
      <3>. QED  BY <1>1, <2>4, <3>1
    <2>. QED  BY <2>2, <2>3, <2>4
  <1>. HIDE DEF t, a
  <1>6. /\ call \in FlyerCall /\ call # Idle /\ call.route = "edit" /\ call.flyer = f
        /\ call.active = a
    <2>1. call \in [route : {"edit"}, step : {"update"}, flyer : Flyer, text : Texts, active : BOOLEAN]
      BY <1>3, <1>4
    <2>. QED  BY <2>1 DEF FlyerCall, Idle
  <1>. HIDE DEF call
  <1>7. hidden' \subseteq Used /\ \A g \in Used : g # f => (g \in hidden' <=> g \in hidden)
    BY <1>1, <1>2 DEF FlyerInv, FlyerIds
  <1>8. ~disturbed /\ (\A d \in Calls : IsIdle(d)) => (call.active <=> f \notin hidden')
    BY <1>5, <1>6
  <1>. QED  BY <1>1, <1>2, <1>6, <1>7, <1>8, FlyerBegins

(* An order of as many flyers as ids names each once.                        *)
LEMMA OrderNamesOnce ==
  ASSUME NEW order \in FlyerOrder, Cardinality(ToSet(order)) = Len(order)
  PROVE  IsInjective(order)
  <1>1. PICK n \in 0..MaxFlyers : order \in [1..n -> Flyer]
    BY DEF FlyerOrder
  <1>2. n \in Nat /\ Len(order) = n /\ DOMAIN order = 1..n
    BY <1>1, FlyerAssumption
  <1>3. order \in Surjection(1..n, ToSet(order))
    BY <1>1, <1>2 DEF Surjection, ToSet
  <1>4. IsFiniteSet(1..n) /\ Cardinality(1..n) = n
    BY <1>2, FS_Interval
  <1>5. order \in Injection(1..n, ToSet(order))
    BY <1>2, <1>3, <1>4, FS_SurjSameCardinalityImpliesInj
  <1>. QED  BY <1>5 DEF Injection

LEMMA ReorderBegins ==
  ASSUME FlyerInv, NEW c \in Calls, NEW order \in FlyerOrder, reorderProductFlyers(c, order)
  PROVE  FlyerInv'
  <1>. DEFINE call == [route |-> "reorder", step |-> "place", order |-> order, rest |-> ToSet(order)]
  <1>1. /\ ToSet(order) \subseteq There /\ Cardinality(ToSet(order)) = Len(order)
        /\ Begins(c, call) /\ UNCHANGED <<flyers, asked, hidden>>
    BY DEF reorderProductFlyers
  <1>2. OfUsed(order) /\ IsInjective(order)
    BY <1>1, OrderNamesOnce DEF OfUsed, ToSet, There
  <1>3. /\ call \in FlyerCall /\ call # Idle /\ call.route = "reorder" /\ call.order = order
        /\ call.rest = ToSet(order)
    BY <1>1 DEF FlyerCall, Idle, There, Used
  <1>. HIDE DEF call
  <1>4. hidden' \subseteq Used
    BY <1>1 DEF FlyerInv, FlyerIds
  <1>. QED  BY <1>1, <1>2, <1>3, <1>4, FlyerBegins

-----------------------------------------------------------------------------
(* A handler ends: alone, it leaves the list as it was asked for.            *)
LEMMA FlyerEnds ==
  ASSUME FlyerInv, NEW c \in Calls, ~IsIdle(c), Ends(c),
         flyers' \in [Flyer -> FlyerRow \cup {None}], asked' \in FlyerOrder,
         OfUsed(asked)', IsInjective(asked'), Used \subseteq Used', hidden' = hidden,
         \A f \in Used' : 1..f \subseteq Used' /\ flyers'[f].sortOrder <= MaxFlyers + f,
         disturbed' \in BOOLEAN, disturbed => disturbed',
         ~disturbed' /\ AtWork(c) => AskedInOrder' /\ \A f \in There' : ShownUnlessHidden(f)'
  PROVE  FlyerInv'
  <1>1. /\ calls' = [calls EXCEPT ![c] = Idle] /\ calls \in [Calls -> FlyerCall]
        /\ calls'[c] = Idle /\ \A d \in Calls : d # c => calls'[d] = calls[d]
    BY DEF Ends, Moves, FlyerInv, FlyerTypes
  <1>2. FlyerTypes'
    BY <1>1, FlyerIdleCall DEF FlyerInv, FlyerTypes
  <1>3. FlyerIds'
    BY DEF FlyerInv, FlyerIds
  <1>4. FlyerHandlers'
    <2>. SUFFICES ASSUME NEW d \in Calls
                  PROVE  /\ calls'[d].route \in {"edit", "delete"} => calls'[d].flyer \in Used'
                         /\ calls'[d].route = "reorder" =>
                              /\ \A i \in DOMAIN calls'[d].order : calls'[d].order[i] \in Used'
                              /\ IsInjective(calls'[d].order)
                              /\ calls'[d].rest \subseteq ToSet(calls'[d].order)
      BY DEF FlyerHandlers, OfUsed
    <2>1. CASE d = c
      BY <1>1, <2>1, FlyerIdleCall
    <2>2. CASE d # c
      BY <1>1, <2>2 DEF FlyerInv, FlyerHandlers, OfUsed
    <2>. QED  BY <2>1, <2>2
  <1>5. FlyerNumbers'
    <2>. SUFFICES ASSUME NEW d \in Calls, calls'[d].route = "newflyer"
                  PROVE  calls'[d].max <= MaxFlyers \/ \E f \in Used' : calls'[d].max <= MaxFlyers + f
      BY DEF FlyerNumbers
    <2>1. d # c /\ calls'[d] = calls[d]
      BY <1>1, FlyerIdleCall
    <2>. QED  BY <2>1 DEF FlyerInv, FlyerNumbers
  <1>6. ~disturbed' => AtWork(c) /\ \A d \in Calls : IsIdle(d)'
    BY <1>1 DEF FlyerInv, AtWork, IsIdle
  <1>7. FlyersAsAsked'
    BY <1>6 DEF FlyersAsAsked, AskedInOrder, ShownUnlessHidden
  <1>. QED  BY <1>2, <1>3, <1>4, <1>5, <1>6, <1>7 DEF FlyerInv

LEMMA CreateFlyerStep ==
  ASSUME FlyerInv, NEW c \in Calls, CreateFlyer(c)
  PROVE  FlyerInv'
  <1>. DEFINE m == calls[c].max
  <1>1. At(c, "newflyer", "create") /\ Ends(c) /\ UNCHANGED <<hidden, disturbed>>
    BY DEF CreateFlyer
  <1>2. PICK f \in Flyer, text \in Texts :
          /\ f \notin Used /\ \A g \in Flyer \ Used : f <= g
          /\ flyers' = [flyers EXCEPT ![f] = [text |-> text, isActive |-> TRUE,
                          sortOrder |-> OneAfter(calls[c].max), there |-> TRUE]]
          /\ asked' = Append(asked, f)
    BY DEF CreateFlyer
  <1>. DEFINE row == [text |-> text, isActive |-> TRUE, sortOrder |-> m + 1, there |-> TRUE]
  <1>3. m \in 0..MaxFlyers * 2 /\ calls[c].route = "newflyer" /\ ~IsIdle(c)
    BY <1>1, FlyerShapes, FlyerRowsKept, FlyerIdleCall DEF At, IsIdle
  <1>4. f \in 1..MaxFlyers /\ MaxFlyers \in Nat
    BY FlyerAssumption DEF Flyer
  <1>5. \A g \in Used : g \in Flyer /\ g < f
    <2>. SUFFICES ASSUME NEW g \in Used, ~(g < f)  PROVE FALSE
      BY FlyerRowsKept
    <2>0. g \in Nat
      BY FlyerRowsKept
    <2>1. g \in Nat /\ f \in 1..g
      BY <1>4, <2>0
    <2>2. f \in Used
      BY <2>1 DEF FlyerInv, FlyerIds
    <2>. QED  BY <1>2, <2>2
  <1>6. m + 1 <= MaxFlyers + f
    <2>1. m <= MaxFlyers \/ \E g \in Used : m <= MaxFlyers + g
      BY <1>3 DEF FlyerInv, FlyerNumbers
    <2>2. CASE m <= MaxFlyers
      BY <1>3, <1>4, <2>2
    <2>3. CASE \E g \in Used : m <= MaxFlyers + g
      <3>1. PICK g \in Used : m <= MaxFlyers + g
        BY <2>3
      <3>2. g \in Nat /\ g < f
        BY <1>5, FlyerRowsKept
      <3>. QED  BY <1>3, <1>4, <3>1, <3>2
    <2>. QED  BY <2>1, <2>2, <2>3
  <1>7. row \in FlyerRow
    <2>1. m + 1 \in 0..MaxFlyers * 2 /\ TRUE \in BOOLEAN
      BY <1>3, <1>4, <1>6
    <2>. QED  BY <2>1, Zenon DEF FlyerRow
  <1>8. row.sortOrder = m + 1 /\ row.isActive /\ row.there
    BY Zenon
  <1>9. flyers' = [flyers EXCEPT ![f] = row]
    BY <1>2 DEF OneAfter
  <1>. HIDE DEF row
  <1>10. /\ flyers' \in [Flyer -> FlyerRow \cup {None}] /\ flyers'[f] = row /\ row # None
         /\ \A g \in Flyer : g # f => flyers'[g] = flyers[g]
    BY <1>7, <1>9, NoneIsNoFlyer DEF FlyerInv, FlyerTypes
  <1>11. Used' = Used \cup {f} /\ There' = There \cup {f}
    BY <1>2, <1>8, <1>10 DEF Used, There
  <1>12. \A g \in Used' : 1..g \subseteq Used' /\ flyers'[g].sortOrder <= MaxFlyers + g
    <2>1. 1..f \subseteq Used'
      BY <1>2, <1>4, <1>11 DEF Flyer
    <2>2. \A g \in Used : 1..g \subseteq Used /\ flyers'[g].sortOrder <= MaxFlyers + g
      BY <1>2, <1>5, <1>10 DEF FlyerInv, FlyerIds, FlyerNumbers
    <2>. QED  BY <1>6, <1>8, <1>10, <1>11, <2>1, <2>2
  <1>13. PICK n \in 0..MaxFlyers : asked \in [1..n -> Flyer]
    BY DEF FlyerInv, FlyerTypes, FlyerOrder
  <1>14. /\ n \in Nat /\ asked \in Seq(Flyer) /\ Len(asked) = n /\ DOMAIN asked = 1..n
    BY <1>4, <1>13
  <1>15. /\ asked' \in [1..n + 1 -> Flyer] /\ asked'[n + 1] = f /\ DOMAIN asked' = 1..n + 1
         /\ \A i \in 1..n : asked'[i] = asked[i] /\ asked[i] \in Used
    <2>1. asked' \in Seq(Flyer) /\ Len(asked') = n + 1 /\ asked'[n + 1] = f
      BY <1>2, <1>14
    <2>2. \A i \in 1..n : asked'[i] = asked[i]
      BY <1>2, <1>14
    <2>3. \A i \in 1..n : asked[i] \in Used
      BY <1>14 DEF FlyerInv, FlyerIds, OfUsed
    <2>4. asked' \in [1..n + 1 -> Flyer]
      BY <1>14, <2>1
    <2>. QED  BY <2>1, <2>2, <2>3, <2>4
  <1>16. OfUsed(asked)' /\ IsInjective(asked')
    <2>1. OfUsed(asked)'
      BY <1>11, <1>14, <1>15 DEF OfUsed
    <2>2. \A i, j \in 1..n : asked[i] = asked[j] => i = j
      BY <1>14 DEF FlyerInv, FlyerIds, IsInjective
    <2>. QED  BY <1>2, <1>14, <1>15, <2>1, <2>2 DEF IsInjective
  <1>17. asked' \in FlyerOrder
    <2>1. asked' \in Injection(1..n + 1, Flyer)
      BY <1>15, <1>16 DEF Injection
    <2>2. IsFiniteSet(Flyer) /\ Cardinality(Flyer) = MaxFlyers
      BY <1>4, FS_Interval DEF Flyer
    <2>3. Cardinality(1..n + 1) = n + 1
      BY <1>14, FS_Interval
    <2>4. n + 1 <= MaxFlyers
      BY <2>1, <2>2, <2>3, FS_Injection
    <2>. QED  BY <1>4, <1>14, <1>15, <2>4 DEF FlyerOrder
  <1>18. ASSUME AtWork(c)  PROVE AskedInOrder' /\ \A g \in There' : ShownUnlessHidden(g)'
    <2>1. /\ AskedInOrder /\ \A g \in There : ShownUnlessHidden(g) /\ flyers[g].sortOrder <= m
      BY <1>3, <1>18 DEF AtWork
    <2>2. \A g \in There : g # f /\ flyers'[g] = flyers[g] /\ flyers[g].sortOrder \in Nat
      BY <1>2, <1>10, FlyerRowsKept, FlyerAssumption
    <2>3. f \notin hidden
      BY <1>2 DEF FlyerInv, FlyerIds
    <2>4. \A g \in There' : ShownUnlessHidden(g)'
      BY <1>1, <1>8, <1>10, <1>11, <2>1, <2>2, <2>3 DEF ShownUnlessHidden
    <2>5. ASSUME NEW i \in DOMAIN asked', NEW j \in DOMAIN asked', i < j,
                 asked'[i] \in There', asked'[j] \in There'
          PROVE  flyers'[asked'[i]].sortOrder < flyers'[asked'[j]].sortOrder
      <3>1. i \in 1..n /\ asked'[i] = asked[i] /\ asked[i] \in There
        BY <1>2, <1>11, <1>14, <1>15, <2>5
      <3>2. CASE j = n + 1
        BY <1>3, <1>8, <1>10, <1>15, <2>1, <2>2, <3>1, <3>2
      <3>3. CASE j # n + 1
        <4>1. j \in 1..n /\ asked'[j] = asked[j] /\ asked[j] \in There
          BY <1>2, <1>11, <1>14, <1>15, <2>5, <3>3
        <4>. QED  BY <1>14, <2>1, <2>2, <2>5, <3>1, <4>1 DEF AskedInOrder
      <3>. QED  BY <3>2, <3>3
    <2>. QED  BY <2>4, <2>5 DEF AskedInOrder
  <1>19. disturbed' \in BOOLEAN /\ (disturbed => disturbed') /\ hidden' = hidden
    BY <1>1 DEF FlyerInv, FlyerTypes
  <1>. QED  BY <1>1, <1>3, <1>10, <1>11, <1>12, <1>16, <1>17, <1>18, <1>19, FlyerEnds

(* A row that is rewritten where it stands.                                  *)
LEMMA FlyerRewritten ==
  ASSUME FlyerInv, NEW f \in Used, NEW row \in FlyerRow, flyers' = [flyers EXCEPT ![f] = row]
  PROVE  /\ flyers' \in [Flyer -> FlyerRow \cup {None}] /\ flyers'[f] = row /\ Used' = Used
         /\ \A g \in Flyer : g # f => flyers'[g] = flyers[g]
         /\ \A g \in Used : g # f => (g \in There' <=> g \in There)
         /\ f \in There' <=> row.there
  <1>1. /\ flyers' \in [Flyer -> FlyerRow \cup {None}] /\ flyers'[f] = row /\ row # None
        /\ \A g \in Flyer : g # f => flyers'[g] = flyers[g]
    BY NoneIsNoFlyer DEF FlyerInv, FlyerTypes, Used
  <1>2. Used' = Used
    BY <1>1 DEF Used
  <1>. QED  BY <1>1, <1>2, FlyerRowsKept DEF There

LEMMA UpdateFlyerStep ==
  ASSUME FlyerInv, NEW c \in Calls, UpdateFlyer(c)
  PROVE  FlyerInv'
  <1>. DEFINE f == calls[c].flyer
              row == [[flyers[f] EXCEPT !.text = calls[c].text] EXCEPT !.isActive = calls[c].active]
  <1>1. /\ At(c, "edit", "update") /\ Ends(c) /\ UNCHANGED <<asked, hidden, disturbed>>
        /\ flyers' = IF f \in There
                     THEN [flyers EXCEPT ![f].text = calls[c].text, ![f].isActive = calls[c].active]
                     ELSE flyers
    BY DEF UpdateFlyer
  <1>2. /\ calls[c].route = "edit" /\ calls[c].text \in Texts /\ calls[c].active \in BOOLEAN
        /\ ~IsIdle(c) /\ f \in Used /\ flyers[f] \in FlyerRow
    BY <1>1, FlyerShapes, FlyerRowsKept, FlyerIdleCall DEF At, IsIdle, FlyerInv, FlyerHandlers
  <1>3. /\ asked' \in FlyerOrder /\ IsInjective(asked') /\ OfUsed(asked)
        /\ disturbed' \in BOOLEAN /\ hidden' = hidden /\ (disturbed => disturbed')
    BY <1>1 DEF FlyerInv, FlyerTypes, FlyerIds
  <1>4. \A g \in Used : 1..g \subseteq Used /\ flyers[g].sortOrder <= MaxFlyers + g
    BY DEF FlyerInv, FlyerIds, FlyerNumbers
  <1>5. CASE f \notin There
    <2>1. flyers' = flyers /\ Used' = Used /\ There' = There
      BY <1>1, <1>5 DEF Used, There
    <2>2. flyers' \in [Flyer -> FlyerRow \cup {None}] /\ OfUsed(asked)'
      BY <1>1, <1>3, <2>1 DEF FlyerInv, FlyerTypes, OfUsed
    <2>3. AtWork(c) => AskedInOrder' /\ \A g \in There' : ShownUnlessHidden(g)'
      BY <1>1, <1>2, <1>5, <2>1 DEF AtWork, AskedInOrder, ShownUnlessHidden
    <2>. QED  BY <1>1, <1>2, <1>3, <1>4, <2>1, <2>2, <2>3, FlyerEnds
  <1>6. CASE f \in There
    <2>1. /\ row \in FlyerRow /\ row.sortOrder = flyers[f].sortOrder
          /\ row.there = flyers[f].there /\ row.isActive = calls[c].active
      BY <1>2, Zenon DEF FlyerRow
    <2>2. flyers' = [flyers EXCEPT ![f] = row]
      BY <1>1, <1>2, <1>6 DEF FlyerInv, FlyerTypes, Used
    <2>. HIDE DEF row
    <2>3. /\ flyers' \in [Flyer -> FlyerRow \cup {None}] /\ flyers'[f] = row /\ Used' = Used
          /\ \A g \in Flyer : g # f => flyers'[g] = flyers[g]
          /\ There' = There
      BY <1>2, <1>6, <2>1, <2>2, FlyerRewritten DEF There
    <2>4. \A g \in Used : flyers'[g].sortOrder = flyers[g].sortOrder
      BY <2>1, <2>3, FlyerRowsKept
    <2>5. \A g \in Used' : 1..g \subseteq Used' /\ flyers'[g].sortOrder <= MaxFlyers + g
      BY <1>4, <2>3, <2>4
    <2>6. OfUsed(asked)'
      BY <1>1, <1>3, <2>3 DEF OfUsed
    <2>7. ASSUME AtWork(c)  PROVE AskedInOrder' /\ \A g \in There' : ShownUnlessHidden(g)'
      <3>1. AskedInOrder'
        BY <1>1, <1>2, <2>3, <2>4, <2>7, FlyerRowsKept DEF AtWork, AskedInOrder
      <3>2. ASSUME NEW g \in There  PROVE ShownUnlessHidden(g)'
        <4>1. CASE g = f
          BY <1>1, <1>2, <2>1, <2>3, <2>7, <4>1 DEF AtWork, ShownUnlessHidden
        <4>2. CASE g # f
          BY <1>1, <2>3, <2>7, <3>2, <4>2, FlyerRowsKept DEF AtWork, ShownUnlessHidden
        <4>. QED  BY <4>1, <4>2
      <3>. QED  BY <2>3, <3>1, <3>2
    <2>. QED  BY <1>1, <1>2, <1>3, <2>3, <2>5, <2>6, <2>7, FlyerEnds
  <1>. QED  BY <1>5, <1>6

LEMMA RemoveFlyerStep ==
  ASSUME FlyerInv, NEW c \in Calls, RemoveFlyer(c)
  PROVE  FlyerInv'
  <1>. DEFINE f == calls[c].flyer
              row == [flyers[f] EXCEPT !.there = FALSE]
  <1>1. /\ At(c, "delete", "remove") /\ Ends(c) /\ UNCHANGED <<asked, hidden, disturbed>>
        /\ flyers' = IF f \in There THEN [flyers EXCEPT ![f].there = FALSE] ELSE flyers
    BY DEF RemoveFlyer
  <1>2. calls[c].route = "delete" /\ ~IsIdle(c) /\ f \in Used /\ flyers[f] \in FlyerRow
    BY <1>1, FlyerShapes, FlyerRowsKept, FlyerIdleCall DEF At, IsIdle, FlyerInv, FlyerHandlers
  <1>3. /\ asked' \in FlyerOrder /\ IsInjective(asked') /\ OfUsed(asked)
        /\ disturbed' \in BOOLEAN /\ hidden' = hidden /\ (disturbed => disturbed')
    BY <1>1 DEF FlyerInv, FlyerTypes, FlyerIds
  <1>4. \A g \in Used : 1..g \subseteq Used /\ flyers[g].sortOrder <= MaxFlyers + g
    BY DEF FlyerInv, FlyerIds, FlyerNumbers
  <1>5. FALSE \in BOOLEAN
    OBVIOUS
  <1>6. /\ row \in FlyerRow /\ row.sortOrder = flyers[f].sortOrder
        /\ ~row.there /\ row.isActive = flyers[f].isActive
    BY <1>2, <1>5, Zenon DEF FlyerRow
  <1>. HIDE DEF row
  <1>7. /\ flyers' \in [Flyer -> FlyerRow \cup {None}] /\ Used' = Used /\ There' = There \ {f}
        /\ \A g \in Used : /\ flyers'[g].sortOrder = flyers[g].sortOrder
                           /\ flyers'[g].isActive = flyers[g].isActive
    <2>1. CASE f \in There
      <3>1. flyers' = [flyers EXCEPT ![f] = row]
        BY <1>1, <1>2, <2>1 DEF row, FlyerInv, FlyerTypes, Used
      <3>2. /\ flyers' \in [Flyer -> FlyerRow \cup {None}] /\ flyers'[f] = row /\ Used' = Used
            /\ \A g \in Flyer : g # f => flyers'[g] = flyers[g]
            /\ \A g \in Used : g # f => (g \in There' <=> g \in There)
            /\ f \notin There'
        BY <1>2, <1>6, <3>1, FlyerRewritten
      <3>3. There' \subseteq Used'
        BY DEF There
      <3>4. \A g \in Used : /\ flyers'[g].sortOrder = flyers[g].sortOrder
                            /\ flyers'[g].isActive = flyers[g].isActive
        BY <1>6, <3>2, FlyerRowsKept
      <3>. QED  BY <3>2, <3>3, <3>4, FlyerRowsKept
    <2>2. CASE f \notin There
      BY <1>1, <2>2 DEF FlyerInv, FlyerTypes, Used, There
    <2>. QED  BY <2>1, <2>2
  <1>8. \A g \in Used' : 1..g \subseteq Used' /\ flyers'[g].sortOrder <= MaxFlyers + g
    BY <1>4, <1>7
  <1>9. OfUsed(asked)'
    BY <1>1, <1>3, <1>7 DEF OfUsed
  <1>10. ASSUME AtWork(c)  PROVE AskedInOrder' /\ \A g \in There' : ShownUnlessHidden(g)'
    <2>1. AskedInOrder /\ \A g \in There : ShownUnlessHidden(g)
      BY <1>2, <1>10 DEF AtWork
    <2>2. AskedInOrder'
      BY <1>1, <1>7, <2>1, FlyerRowsKept DEF AskedInOrder
    <2>3. \A g \in There' : ShownUnlessHidden(g)'
      BY <1>1, <1>7, <2>1, FlyerRowsKept DEF ShownUnlessHidden
    <2>. QED  BY <2>2, <2>3
  <1>. QED  BY <1>1, <1>2, <1>3, <1>7, <1>8, <1>9, <1>10, FlyerEnds

LEMMA FlyerDiesStep ==
  ASSUME FlyerInv, NEW c \in Calls, FlyerDies(c)
  PROVE  FlyerInv'
  <1>1. ~IsIdle(c) /\ Ends(c) /\ disturbed' = TRUE /\ UNCHANGED <<flyers, asked, hidden>>
    BY DEF FlyerDies
  <1>2. /\ flyers' \in [Flyer -> FlyerRow \cup {None}] /\ asked' \in FlyerOrder
        /\ Used' = Used /\ disturbed' \in BOOLEAN
    BY <1>1 DEF FlyerInv, FlyerTypes, Used
  <1>3. \A f \in Used' : 1..f \subseteq Used' /\ flyers'[f].sortOrder <= MaxFlyers + f
    BY <1>1, <1>2 DEF FlyerInv, FlyerIds, FlyerNumbers
  <1>4. OfUsed(asked)' /\ IsInjective(asked')
    BY <1>1, <1>2 DEF FlyerInv, FlyerIds, OfUsed
  <1>. QED  BY <1>1, <1>2, <1>3, <1>4, FlyerEnds

-----------------------------------------------------------------------------
(* One of the updates of a reorder; the last one leaves the order asked for. *)
LEMMA PlaceFlyerStep ==
  ASSUME FlyerInv, NEW c \in Calls, NEW f \in Flyer, PlaceFlyer(c, f)
  PROVE  FlyerInv'
  <1>. DEFINE order == calls[c].order
              rest == calls[c].rest \ {f}
              place == CHOOSE i \in DOMAIN order : order[i] = f
              row == [flyers[f] EXCEPT !.sortOrder = place - 1]
  <1>1. /\ calls[c].route = "reorder" /\ calls[c].step = "place" /\ f \in calls[c].rest
        /\ flyers' = IF f \in There THEN [flyers EXCEPT ![f].sortOrder = place - 1] ELSE flyers
        /\ asked' = IF rest = {} THEN order ELSE asked
        /\ Moves(c, IF rest = {} THEN Idle ELSE [calls[c] EXCEPT !.rest = rest])
        /\ UNCHANGED <<hidden, disturbed>>
    BY DEF PlaceFlyer, At
  <1>2. /\ calls[c] \in FlyerCall /\ ~IsIdle(c) /\ order \in FlyerOrder
        /\ OfUsed(order) /\ IsInjective(order) /\ calls[c].rest \subseteq ToSet(order)
    BY <1>1, FlyerShapes, FlyerRowsKept, FlyerIdleCall DEF IsIdle, FlyerInv, FlyerHandlers
  <1>3. PICK n \in 0..MaxFlyers : order \in [1..n -> Flyer]
    BY <1>2 DEF FlyerOrder
  <1>4. /\ place \in 1..n /\ order[place] = f /\ n \in Nat /\ n <= MaxFlyers /\ DOMAIN order = 1..n
        /\ \A i \in 1..n : order[i] = f => i = place
    <2>1. DOMAIN order = 1..n /\ n \in Nat /\ n <= MaxFlyers
      BY <1>3, FlyerAssumption
    <2>2. \E i \in DOMAIN order : order[i] = f
      BY <1>1, <1>2 DEF ToSet
    <2>3. place \in DOMAIN order /\ order[place] = f
      BY <2>2
    <2>. HIDE DEF place
    <2>. QED  BY <1>2, <2>1, <2>3 DEF IsInjective
  <1>. HIDE DEF place
  <1>5. f \in Used /\ flyers[f] \in FlyerRow
    BY <1>2, <1>4, FlyerRowsKept DEF OfUsed
  <1>6. place - 1 \in 0..MaxFlyers * 2 /\ place - 1 <= MaxFlyers + f /\ place - 1 \in Nat
    <2>1. f \in Nat /\ MaxFlyers \in Nat
      BY FlyerRowsKept
    <2>. QED  BY <1>4, <2>1
  <1>7. /\ row \in FlyerRow /\ row.sortOrder = place - 1
        /\ row.there = flyers[f].there /\ row.isActive = flyers[f].isActive
    BY <1>5, <1>6, Zenon DEF FlyerRow
  <1>. HIDE DEF row
  <1>8. /\ flyers' \in [Flyer -> FlyerRow \cup {None}] /\ Used' = Used /\ There' = There
        /\ f \in There => flyers'[f].sortOrder = place - 1
        /\ f \notin There => flyers'[f] = flyers[f]
        /\ \A g \in Used : /\ flyers'[g].isActive = flyers[g].isActive
                           /\ g # f => flyers'[g].sortOrder = flyers[g].sortOrder
    <2>1. CASE f \in There
      <3>1. flyers' = [flyers EXCEPT ![f] = row]
        BY <1>1, <1>5, <2>1 DEF row, FlyerInv, FlyerTypes, Used
      <3>2. /\ flyers' \in [Flyer -> FlyerRow \cup {None}] /\ flyers'[f] = row /\ Used' = Used
            /\ \A g \in Flyer : g # f => flyers'[g] = flyers[g]
            /\ \A g \in Used : g # f => (g \in There' <=> g \in There)
            /\ f \in There' <=> row.there
        BY <1>5, <1>7, <3>1, FlyerRewritten
      <3>3. There' = There
        BY <1>5, <1>7, <2>1, <3>2 DEF There
      <3>. QED  BY <1>7, <2>1, <3>2, <3>3, FlyerRowsKept
    <2>2. CASE f \notin There
      BY <1>1, <2>2 DEF FlyerInv, FlyerTypes, Used, There
    <2>. QED  BY <2>1, <2>2
  <1>9. \A g \in Used' : 1..g \subseteq Used' /\ flyers'[g].sortOrder <= MaxFlyers + g
    <2>1. \A g \in Used : 1..g \subseteq Used /\ flyers[g].sortOrder <= MaxFlyers + g
      BY DEF FlyerInv, FlyerIds, FlyerNumbers
    <2>. QED  BY <1>6, <1>8, <2>1
  <1>10. disturbed' \in BOOLEAN /\ (disturbed <=> disturbed')
    BY <1>1 DEF FlyerInv, FlyerTypes
  (* What the one handler at work has placed.                                *)
  <1>11. ASSUME AtWork(c)
         PROVE  /\ \A g \in There' : ShownUnlessHidden(g)'
                /\ \A i \in 1..n : order[i] \in There' =>
                     order[i] \in rest \/ flyers'[order[i]].sortOrder = i - 1
    <2>1. \A g \in There : ShownUnlessHidden(g)
      BY <1>1, <1>11 DEF AtWork
    <2>2. \A g \in There' : ShownUnlessHidden(g)'
      BY <1>1, <1>8, <2>1, FlyerRowsKept DEF ShownUnlessHidden
    <2>3. ASSUME NEW i \in 1..n, order[i] \in There, order[i] \notin rest
          PROVE  flyers'[order[i]].sortOrder = i - 1
      <3>1. CASE order[i] = f
        BY <1>4, <1>8, <2>3, <3>1
      <3>2. CASE order[i] # f
        <4>1. flyers[order[i]].sortOrder = i - 1
          BY <1>1, <1>4, <1>11, <2>3, <3>2 DEF AtWork
        <4>. QED  BY <1>8, <2>3, <3>2, <4>1, FlyerRowsKept
      <3>. QED  BY <3>1, <3>2
    <2>. QED  BY <1>8, <2>2, <2>3
  <1>12. CASE rest = {}
    <2>1. Ends(c) /\ asked' = order /\ hidden' = hidden
      BY <1>1, <1>12 DEF Ends
    <2>2. OfUsed(asked)'
      BY <1>2, <1>8, <2>1 DEF OfUsed
    <2>3. ASSUME AtWork(c)  PROVE AskedInOrder'
      <3>1. ASSUME NEW i \in 1..n, NEW j \in 1..n, i < j, order[i] \in There', order[j] \in There'
            PROVE  flyers'[order[i]].sortOrder < flyers'[order[j]].sortOrder
        <4>1. flyers'[order[i]].sortOrder = i - 1 /\ flyers'[order[j]].sortOrder = j - 1
          BY <1>11, <1>12, <2>3, <3>1
        <4>. QED  BY <1>4, <3>1, <4>1
      <3>. QED  BY <1>4, <2>1, <3>1 DEF AskedInOrder
    <2>. QED  BY <1>2, <1>8, <1>9, <1>10, <1>11, <2>1, <2>2, <2>3, FlyerEnds
  <1>13. CASE rest # {}
    <2>. DEFINE call == [calls[c] EXCEPT !.rest = rest]
    <2>1. /\ calls[c] = [route |-> "reorder", step |-> "place", order |-> order, rest |-> calls[c].rest]
          /\ calls[c].rest \subseteq Flyer
      BY <1>1, <1>2, FlyerIdleCall DEF FlyerCall
    <2>2. call = [route |-> "reorder", step |-> "place", order |-> order, rest |-> rest]
      BY <2>1
    <2>3. /\ call \in FlyerCall /\ call.route = "reorder" /\ call.order = order /\ call.rest = rest
          /\ call # Idle
      <3>. HIDE DEF call
      <3>. QED  BY <1>2, <2>1, <2>2 DEF FlyerCall, Idle
    <2>. HIDE DEF call
    <2>4. /\ calls' = [calls EXCEPT ![c] = call] /\ asked' = asked /\ hidden' = hidden
          /\ calls \in [Calls -> FlyerCall]
      BY <1>1, <1>13 DEF Moves, call, FlyerInv, FlyerTypes
    <2>5. calls'[c] = call /\ \A d \in Calls : d # c => calls'[d] = calls[d]
      BY <2>4
    <2>6. FlyerTypes'
      BY <1>8, <1>10, <2>3, <2>4 DEF FlyerInv, FlyerTypes
    <2>7. FlyerIds'
      BY <1>8, <2>4 DEF FlyerInv, FlyerIds, OfUsed
    <2>8. FlyerHandlers'
      <3>. SUFFICES ASSUME NEW d \in Calls
                    PROVE  /\ calls'[d].route \in {"edit", "delete"} => calls'[d].flyer \in Used
                           /\ calls'[d].route = "reorder" =>
                                /\ OfUsed(calls'[d].order) /\ IsInjective(calls'[d].order)
                                /\ calls'[d].rest \subseteq ToSet(calls'[d].order)
        BY <1>8 DEF FlyerHandlers, OfUsed
      <3>1. CASE d = c
        BY <1>2, <2>3, <2>5, <3>1
      <3>2. CASE d # c
        BY <2>5, <3>2 DEF FlyerInv, FlyerHandlers
      <3>. QED  BY <3>1, <3>2
    <2>9. FlyerNumbers'
      <3>. SUFFICES ASSUME NEW d \in Calls, calls'[d].route = "newflyer"
                    PROVE  calls'[d].max <= MaxFlyers \/ \E g \in Used : calls'[d].max <= MaxFlyers + g
        BY <1>8, <1>9 DEF FlyerNumbers
      <3>1. d # c /\ calls'[d] = calls[d]
        BY <2>3, <2>5
      <3>. QED  BY <3>1 DEF FlyerInv, FlyerNumbers
    <2>10. ASSUME ~disturbed', NEW d \in Calls, ~IsIdle(d)'  PROVE AtWork(d)'
      <3>1. AtWork(c)
        BY <1>2, <1>10, <2>10 DEF FlyerInv
      <3>2. d = c /\ \A e \in Calls : ~IsIdle(e)' => e = c
        BY <2>5, <2>10, <3>1 DEF AtWork, IsIdle
      <3>. QED  BY <1>4, <1>11, <2>3, <2>5, <3>1, <3>2 DEF AtWork
    <2>11. FlyersAsAsked'
      BY <2>3, <2>5 DEF FlyersAsAsked, IsIdle
    <2>. QED  BY <2>6, <2>7, <2>8, <2>9, <2>10, <2>11 DEF FlyerInv
  <1>. QED  BY <1>12, <1>13

-----------------------------------------------------------------------------
LEMMA FlyerStep == FlyerInv /\ [FlyerNext]_flyerVars => FlyerInv'
  <1>. SUFFICES ASSUME FlyerInv, [FlyerNext]_flyerVars  PROVE FlyerInv'
    OBVIOUS
  <1>1. ASSUME NEW c \in Calls, createProductFlyer(c)  PROVE FlyerInv'
    BY <1>1, CreateFlyerBegins
  <1>2. ASSUME NEW c \in Calls, NEW f \in Flyer, NEW text \in Texts \cup {None},
               NEW active \in {"shown", "hidden", None}, updateProductFlyer(c, f, text, active)
        PROVE  FlyerInv'
    BY <1>2, UpdateFlyerBegins
  <1>3. ASSUME NEW c \in Calls, NEW f \in Flyer, deleteProductFlyer(c, f)  PROVE FlyerInv'
    BY <1>3, DeleteFlyerBegins
  <1>4. ASSUME NEW c \in Calls, NEW order \in FlyerOrder, reorderProductFlyers(c, order)
        PROVE  FlyerInv'
    BY <1>4, ReorderBegins
  <1>5. ASSUME NEW c \in Calls, CreateFlyer(c)  PROVE FlyerInv'
    BY <1>5, CreateFlyerStep
  <1>6. ASSUME NEW c \in Calls, UpdateFlyer(c)  PROVE FlyerInv'
    BY <1>6, UpdateFlyerStep
  <1>7. ASSUME NEW c \in Calls, RemoveFlyer(c)  PROVE FlyerInv'
    BY <1>7, RemoveFlyerStep
  <1>8. ASSUME NEW c \in Calls, NEW f \in Flyer, PlaceFlyer(c, f)  PROVE FlyerInv'
    BY <1>8, PlaceFlyerStep
  <1>9. ASSUME NEW c \in Calls, FlyerDies(c)  PROVE FlyerInv'
    BY <1>9, FlyerDiesStep
  <1>10. CASE UNCHANGED flyerVars
    <2>1. UNCHANGED <<calls, flyers, asked, hidden, disturbed>> /\ Used' = Used /\ There' = There
      BY <1>10 DEF flyerVars, Used, There
    <2>. QED  BY <2>1 DEF FlyerInv, FlyerTypes, FlyerIds, FlyerHandlers, FlyerNumbers, OfUsed,
                          AtWork, AskedInOrder, ShownUnlessHidden, FlyersAsAsked, IsIdle
  <1>. QED  BY <1>1, <1>2, <1>3, <1>4, <1>5, <1>6, <1>7, <1>8, <1>9, <1>10 DEF FlyerNext

(* What the handlers of the list rely on, alone or not.                      *)
THEOREM FlyerInvariance == FlyerSpec => []FlyerInv
  BY FlyerInitially, FlyerStep, PTL DEF FlyerSpec

(* However many flyers and handlers: a list nobody disturbed is in the order *)
(* that was asked for, and shows what was not hidden (admin.service.ts,      *)
(* reorderProductFlyers, updateProductFlyer).                                *)
THEOREM FlyersComeAsAsked == FlyerSpec => []FlyersAsAsked
  <1>1. FlyerInv => FlyersAsAsked
    BY DEF FlyerInv
  <1>. QED  BY <1>1, FlyerInvariance, PTL

-----------------------------------------------------------------------------


(* At most k members.                                                        *)
AtMost(S, k) == IsFiniteSet(S) /\ Cardinality(S) <= k

LEMMA AtMostSubset ==
  ASSUME NEW S, NEW T \in SUBSET S, NEW k \in Int, NEW j \in Int, k <= j, AtMost(S, k)
  PROVE  AtMost(T, j)
  <1>1. IsFiniteSet(T) /\ Cardinality(T) <= Cardinality(S)
    BY FS_Subset DEF AtMost
  <1>2. Cardinality(T) \in Nat /\ Cardinality(S) \in Nat
    BY <1>1, FS_CardinalityType DEF AtMost
  <1>. QED  BY <1>1, <1>2 DEF AtMost

LEMMA AtMostAdd ==
  ASSUME NEW S, NEW x, NEW k \in Int, AtMost(S, k)
  PROVE  AtMost(S \cup {x}, k + 1)
  <1>1. IsFiniteSet(S) /\ Cardinality(S) \in Nat
    BY FS_CardinalityType DEF AtMost
  <1>2. /\ IsFiniteSet(S \cup {x})
        /\ Cardinality(S \cup {x}) = IF x \in S THEN Cardinality(S) ELSE Cardinality(S) + 1
    BY <1>1, FS_AddElement
  <1>. QED  BY <1>1, <1>2 DEF AtMost

LEMMA AtMostSwap ==
  ASSUME NEW S, NEW x \in S, NEW y, NEW k \in Int, AtMost(S, k)
  PROVE  AtMost((S \ {x}) \cup {y}, k)
  <1>1. IsFiniteSet(S) /\ Cardinality(S) \in Nat
    BY FS_CardinalityType DEF AtMost
  <1>2. IsFiniteSet(S \ {x}) /\ Cardinality(S \ {x}) = Cardinality(S) - 1
    BY <1>1, FS_RemoveElement
  <1>3. AtMost(S \ {x}, k - 1)
    BY <1>1, <1>2 DEF AtMost
  <1>4. k - 1 \in Int /\ (k - 1) + 1 = k
    OBVIOUS
  <1>. HIDE DEF AtMost
  <1>5. AtMost((S \ {x}) \cup {y}, (k - 1) + 1)
    BY <1>3, <1>4, AtMostAdd
  <1>. QED  BY <1>4, <1>5

LEMMA AtMostUnion ==
  ASSUME NEW S, NEW T, NEW j \in Int, NEW k \in Int, AtMost(S, j), AtMost(T, k)
  PROVE  AtMost(S \cup T, j + k)
  <1>1. /\ IsFiniteSet(S) /\ Cardinality(S) \in Nat
        /\ IsFiniteSet(T) /\ Cardinality(T) \in Nat
    BY FS_CardinalityType DEF AtMost
  <1>2. /\ IsFiniteSet(S \cup T)
        /\ Cardinality(S \cup T) = Cardinality(S) + Cardinality(T) - Cardinality(S \cap T)
    BY <1>1, FS_Union
  <1>3. Cardinality(S \cap T) \in Nat
    BY <1>1, FS_Intersection, FS_CardinalityType
  <1>. QED  BY <1>1, <1>2, <1>3 DEF AtMost

-----------------------------------------------------------------------------
(* What the limiter let through for a, from the time lo to the time hi: the  *)
(* table there are and the handlers that are to write one.                    *)
FormRows(table, lo, hi) == {i \in DOMAIN table : lo <= table[i] /\ table[i] <= hi}
InFlight(cs, a, lo, hi) ==
  {c \in Calls : cs[c] # Idle /\ cs[c].from = a /\ lo <= cs[c].at /\ cs[c].at <= hi}

Through(cs, table, a, lo, hi) ==
  {<<"row", i>> : i \in FormRows(table, lo, hi)} \cup {<<"call", c>> : c \in InFlight(cs, a, lo, hi)}

(* The window behind a bucket began at b: in it count went through, and at   *)
(* most the limit in a window's time before it.                              *)
OpenSince(cs, table, a, b, count) ==
  /\ AtMost(Through(cs, table, a, b, MaxTime), count)
  /\ AtMost(Through(cs, table, a, b - Window + 1, b - 1), Limit)
  /\ Through(cs, table, a, b + Window, MaxTime) = {}

(* Without a bucket, or with one that has expired.                           *)
ShutAt(cs, table, a, now) ==
  /\ AtMost(Through(cs, table, a, now - Window + 1, MaxTime), Limit)
  /\ Through(cs, table, a, now, MaxTime) = {}

BucketHolds(cs, table, a, bucket, now) ==
  IF bucket = None THEN ShutAt(cs, table, a, now)
  ELSE /\ Window <= bucket.expiresAt /\ bucket.expiresAt <= now + Window
       /\ OpenSince(cs, table, a, bucket.expiresAt - Window, bucket.count)

TwiceAtMost(cs, table, a) ==
  \A t \in 0..MaxTime : AtMost(Through(cs, table, a, t, t + Window - 1), 2 * Limit)

NoneAhead(cs, table, a, now) == Through(cs, table, a, now + 1, MaxTime) = {}

ContactInv ==
  /\ ContactTypes /\ lastSweep <= clock
  /\ \A a \in Callers :
       /\ BucketHolds(calls, enquiries[a], a, buckets[a], clock)
       /\ TwiceAtMost(calls, enquiries[a], a)
       /\ NoneAhead(calls, enquiries[a], a, clock)

-----------------------------------------------------------------------------
LEMMA ContactShapes ==
  ASSUME NEW cs \in [Calls -> ContactCall]
  PROVE  \A c \in Calls : cs[c] # Idle => /\ cs[c].from \in Callers /\ cs[c].at \in 0..MaxTime
                                          /\ cs[c].at \in Int
  BY ContactAssumption DEF ContactCall

LEMMA ThroughIs ==
  ASSUME NEW cs, NEW table, NEW a, NEW lo, NEW hi, NEW p
  PROVE  p \in Through(cs, table, a, lo, hi) <=>
           \/ \E i \in DOMAIN table : p = <<"row", i>> /\ lo <= table[i] /\ table[i] <= hi
           \/ \E c \in Calls : /\ p = <<"call", c>> /\ cs[c] # Idle /\ cs[c].from = a
                               /\ lo <= cs[c].at /\ cs[c].at <= hi
  BY DEF Through, FormRows, InFlight

(* A part of a stretch.                                                      *)
LEMMA ThroughPart ==
  ASSUME NEW cs \in [Calls -> ContactCall], NEW table \in Seq(0..MaxTime), NEW a,
         NEW lo \in Int, NEW hi \in Int, NEW l \in Int, NEW h \in Int,
         lo <= l, h <= hi \/ hi = MaxTime
  PROVE  Through(cs, table, a, l, h) \subseteq Through(cs, table, a, lo, hi)
  <1>. SUFFICES ASSUME NEW p \in Through(cs, table, a, l, h)
                PROVE  p \in Through(cs, table, a, lo, hi)
    OBVIOUS
  <1>0. MaxTime \in Int
    BY ContactAssumption
  <1>1. CASE \E i \in DOMAIN table : p = <<"row", i>> /\ l <= table[i] /\ table[i] <= h
    <2>1. PICK i \in DOMAIN table : p = <<"row", i>> /\ l <= table[i] /\ table[i] <= h
      BY <1>1
    <2>2. table[i] \in Int /\ table[i] <= MaxTime
      BY <1>0
    <2>3. lo <= table[i] /\ table[i] <= hi
      BY <1>0, <2>1, <2>2
    <2>. QED  BY <2>1, <2>3, ThroughIs
  <1>2. CASE \E c \in Calls : /\ p = <<"call", c>> /\ cs[c] # Idle /\ cs[c].from = a
                              /\ l <= cs[c].at /\ cs[c].at <= h
    <2>1. PICK c \in Calls : /\ p = <<"call", c>> /\ cs[c] # Idle /\ cs[c].from = a
                             /\ l <= cs[c].at /\ cs[c].at <= h
      BY <1>2
    <2>2. cs[c].at \in Int /\ cs[c].at <= MaxTime
      BY <1>0, <2>1, ContactShapes
    <2>3. lo <= cs[c].at /\ cs[c].at <= hi
      BY <1>0, <2>1, <2>2
    <2>. QED  BY <2>1, <2>3, ThroughIs
  <1>. QED  BY <1>1, <1>2, ThroughIs

(* A stretch in two.                                                         *)
LEMMA ThroughSplit ==
  ASSUME NEW cs \in [Calls -> ContactCall], NEW table \in Seq(0..MaxTime), NEW a,
         NEW lo \in Int, NEW hi \in Int, NEW b \in Int
  PROVE  Through(cs, table, a, lo, hi) \subseteq
           Through(cs, table, a, lo, b - 1) \cup Through(cs, table, a, b, MaxTime)
  <1>. SUFFICES ASSUME NEW p \in Through(cs, table, a, lo, hi),
                       p \notin Through(cs, table, a, lo, b - 1)
                PROVE  p \in Through(cs, table, a, b, MaxTime)
    OBVIOUS
  <1>0. MaxTime \in Int
    BY ContactAssumption
  <1>1. CASE \E i \in DOMAIN table : p = <<"row", i>> /\ lo <= table[i] /\ table[i] <= hi
    <2>1. PICK i \in DOMAIN table : p = <<"row", i>> /\ lo <= table[i] /\ table[i] <= hi
      BY <1>1
    <2>2. table[i] \in Int /\ table[i] <= MaxTime /\ ~(table[i] <= b - 1)
      BY <1>0, <2>1, ThroughIs
    <2>3. b <= table[i]
      BY <2>2
    <2>. QED  BY <2>1, <2>2, <2>3, ThroughIs
  <1>2. CASE \E c \in Calls : /\ p = <<"call", c>> /\ cs[c] # Idle /\ cs[c].from = a
                              /\ lo <= cs[c].at /\ cs[c].at <= hi
    <2>1. PICK c \in Calls : /\ p = <<"call", c>> /\ cs[c] # Idle /\ cs[c].from = a
                             /\ lo <= cs[c].at /\ cs[c].at <= hi
      BY <1>2
    <2>2. cs[c].at \in Int /\ cs[c].at <= MaxTime /\ ~(cs[c].at <= b - 1)
      BY <1>0, <2>1, ContactShapes, ThroughIs
    <2>3. b <= cs[c].at
      BY <2>2
    <2>. QED  BY <2>1, <2>2, <2>3, ThroughIs
  <1>. QED  BY <1>1, <1>2, ThroughIs

(* Nobody is at work, and there is no row.                                   *)
LEMMA NothingThrough ==
  ASSUME NEW cs, NEW a, NEW lo, NEW hi, \A c \in Calls : cs[c] = Idle
  PROVE  Through(cs, <<>>, a, lo, hi) = {}
  <1>1. DOMAIN <<>> = {}
    OBVIOUS
  <1>. QED  BY <1>1, ThroughIs

LEMMA AtMostEmpty ==
  ASSUME NEW k \in Nat
  PROVE  AtMost({}, k)
  BY FS_EmptySet DEF AtMost

(* A window that has expired.                                                *)
LEMMA ExpiredIsShut ==
  ASSUME NEW cs \in [Calls -> ContactCall], NEW table \in Seq(0..MaxTime), NEW a,
         NEW bucket \in Bucket, NEW now \in Nat, bucket.expiresAt <= now,
         BucketHolds(cs, table, a, bucket, now)
  PROVE  ShutAt(cs, table, a, now)
  <1>. DEFINE b == bucket.expiresAt - Window
  <1>1. /\ bucket # None /\ bucket.count \in Int /\ bucket.count <= Limit /\ Limit \in Int
        /\ bucket.expiresAt \in Int /\ Window \in Nat \ {0} /\ MaxTime \in Int
    BY ContactAssumption, NoneIsNoBucket DEF Bucket
  <1>2. b \in Int /\ b + Window = bucket.expiresAt /\ b <= now - Window + 1 /\ now - Window + 1 \in Int
    BY <1>1
  <1>3. OpenSince(cs, table, a, b, bucket.count)
    BY <1>1 DEF BucketHolds
  <1>. HIDE DEF b
  <1>4. AtMost(Through(cs, table, a, now - Window + 1, MaxTime), Limit)
    <2>1. Through(cs, table, a, now - Window + 1, MaxTime) \in SUBSET Through(cs, table, a, b, MaxTime)
      BY <1>1, <1>2, ThroughPart
    <2>. QED  BY <1>1, <1>3, <2>1, AtMostSubset DEF OpenSince
  <1>5. Through(cs, table, a, now, MaxTime) = {}
    <2>1. Through(cs, table, a, now, MaxTime) \subseteq Through(cs, table, a, b + Window, MaxTime)
      BY <1>1, <1>2, ThroughPart
    <2>. QED  BY <1>3, <2>1 DEF OpenSince
  <1>. QED  BY <1>4, <1>5 DEF ShutAt

(* A stretch that reaches into a window takes no more than that window and   *)
(* the window's time before it.                                              *)
LEMMA OpenIsTwiceAtMost ==
  ASSUME NEW cs \in [Calls -> ContactCall], NEW table \in Seq(0..MaxTime), NEW a,
         NEW b \in Int, NEW count \in Int, count <= Limit, OpenSince(cs, table, a, b, count),
         NEW t \in Nat, b <= t + Window - 1
  PROVE  AtMost(Through(cs, table, a, t, t + Window - 1), 2 * Limit)
  <1>. DEFINE early == Through(cs, table, a, t, b - 1)
              late == Through(cs, table, a, b, MaxTime)
  <1>1. /\ Limit \in Int /\ Window \in Int /\ MaxTime \in Int /\ t + Window - 1 \in Int
        /\ b - Window + 1 <= t /\ b - Window + 1 \in Int /\ b - 1 \in Int
        /\ Limit + count <= 2 * Limit /\ Limit + count \in Int /\ 2 * Limit \in Int
    BY ContactAssumption
  <1>2. early \subseteq Through(cs, table, a, b - Window + 1, b - 1)
    BY <1>1, ThroughPart
  <1>3. AtMost(early, Limit)
    BY <1>1, <1>2, AtMostSubset DEF OpenSince
  <1>4. AtMost(late, count)
    BY DEF OpenSince
  <1>5. Through(cs, table, a, t, t + Window - 1) \subseteq early \cup late
    BY <1>1, ThroughSplit
  <1>. HIDE DEF early, late
  <1>6. AtMost(early \cup late, Limit + count)
    BY <1>1, <1>3, <1>4, AtMostUnion
  <1>. QED  BY <1>1, <1>5, <1>6, AtMostSubset

-----------------------------------------------------------------------------
(* Nothing is counted that was not.                                          *)
NoMore(cs, table, cs2, rows2, a) ==
  \A lo, hi \in Int :
    /\ \A k \in Int : AtMost(Through(cs, table, a, lo, hi), k) => AtMost(Through(cs2, rows2, a, lo, hi), k)
    /\ Through(cs, table, a, lo, hi) = {} => Through(cs2, rows2, a, lo, hi) = {}

LEMMA FewerIsNoMore ==
  ASSUME NEW cs, NEW table, NEW cs2, NEW rows2, NEW a,
         \A lo, hi \in Int : Through(cs2, rows2, a, lo, hi) \subseteq Through(cs, table, a, lo, hi)
  PROVE  NoMore(cs, table, cs2, rows2, a)
  <1>. SUFFICES ASSUME NEW lo \in Int, NEW hi \in Int
                PROVE  /\ \A k \in Int : AtMost(Through(cs, table, a, lo, hi), k) =>
                            AtMost(Through(cs2, rows2, a, lo, hi), k)
                       /\ Through(cs, table, a, lo, hi) = {} => Through(cs2, rows2, a, lo, hi) = {}
    BY DEF NoMore
  <1>1. Through(cs2, rows2, a, lo, hi) \in SUBSET Through(cs, table, a, lo, hi)
    OBVIOUS
  <1>. QED  BY <1>1, AtMostSubset

LEMMA NoMoreKeeps ==
  ASSUME NEW cs, NEW table, NEW cs2, NEW rows2, NEW a, NoMore(cs, table, cs2, rows2, a),
         NEW now \in Nat, NEW bucket \in Bucket \cup {None}
  PROVE  /\ BucketHolds(cs, table, a, bucket, now) => BucketHolds(cs2, rows2, a, bucket, now)
         /\ TwiceAtMost(cs, table, a) => TwiceAtMost(cs2, rows2, a)
         /\ NoneAhead(cs, table, a, now) => NoneAhead(cs2, rows2, a, now)
  <1>1. /\ MaxTime \in Int /\ Limit \in Int /\ Window \in Int /\ 2 * Limit \in Int
        /\ now \in Int /\ now + 1 \in Int /\ now - Window + 1 \in Int
    BY ContactAssumption
  <1>2. ASSUME NEW b \in Int, NEW count \in Int, OpenSince(cs, table, a, b, count)
        PROVE  OpenSince(cs2, rows2, a, b, count)
    <2>1. b - Window + 1 \in Int /\ b - 1 \in Int /\ b + Window \in Int
      BY <1>1
    <2>. QED  BY <1>1, <1>2, <2>1 DEF OpenSince, NoMore
  <1>3. ShutAt(cs, table, a, now) => ShutAt(cs2, rows2, a, now)
    BY <1>1 DEF ShutAt, NoMore
  <1>4. BucketHolds(cs, table, a, bucket, now) => BucketHolds(cs2, rows2, a, bucket, now)
    <2>1. CASE bucket = None
      BY <1>3, <2>1 DEF BucketHolds
    <2>2. CASE bucket # None
      <3>1. bucket.expiresAt - Window \in Int /\ bucket.count \in Int
        BY <2>2, ContactAssumption DEF Bucket
      <3>. QED  BY <1>2, <2>2, <3>1 DEF BucketHolds
    <2>. QED  BY <2>1, <2>2
  <1>5. TwiceAtMost(cs, table, a) => TwiceAtMost(cs2, rows2, a)
    <2>1. ASSUME NEW t \in 0..MaxTime  PROVE t \in Int /\ t + Window - 1 \in Int
      BY <1>1
    <2>. QED  BY <1>1, <2>1 DEF TwiceAtMost, NoMore
  <1>6. NoneAhead(cs, table, a, now) => NoneAhead(cs2, rows2, a, now)
    BY <1>1 DEF NoneAhead, NoMore
  <1>. QED  BY <1>4, <1>5, <1>6

(* One handler changes: it counts where what it now holds does.              *)
LEMMA ThroughOfCall ==
  ASSUME NEW cs \in [Calls -> ContactCall], NEW table, NEW a, NEW c \in Calls, NEW call,
         NEW lo \in Int, NEW hi \in Int
  PROVE  /\ Through([cs EXCEPT ![c] = call], table, a, lo, hi) \subseteq
              Through(cs, table, a, lo, hi) \cup {<<"call", c>>}
         /\ call = Idle \/ call.from # a \/ ~(lo <= call.at /\ call.at <= hi) =>
              Through([cs EXCEPT ![c] = call], table, a, lo, hi) \subseteq Through(cs, table, a, lo, hi)
  <1>. DEFINE cs2 == [cs EXCEPT ![c] = call]
  <1>1. cs2[c] = call /\ \A d \in Calls : d # c => cs2[d] = cs[d]
    OBVIOUS
  <1>. HIDE DEF cs2
  <1>2. ASSUME NEW p \in Through(cs2, table, a, lo, hi), p \notin Through(cs, table, a, lo, hi)
        PROVE  /\ p = <<"call", c>> /\ call # Idle /\ call.from = a /\ lo <= call.at /\ call.at <= hi
    <2>1. PICK d \in Calls : /\ p = <<"call", d>> /\ cs2[d] # Idle /\ cs2[d].from = a
                             /\ lo <= cs2[d].at /\ cs2[d].at <= hi
      BY <1>2, ThroughIs
    <2>2. d = c
      BY <1>1, <1>2, <2>1, ThroughIs
    <2>. QED  BY <1>1, <2>1, <2>2
  <1>3. Through(cs2, table, a, lo, hi) \subseteq Through(cs, table, a, lo, hi) \cup {<<"call", c>>}
    BY <1>2
  <1>4. call = Idle \/ call.from # a \/ ~(lo <= call.at /\ call.at <= hi) =>
          Through(cs2, table, a, lo, hi) \subseteq Through(cs, table, a, lo, hi)
    BY <1>2
  <1>. QED  BY <1>3, <1>4 DEF cs2

(* A handler turns into its row.                                             *)
LEMMA RowForCall ==
  ASSUME NEW cs \in [Calls -> ContactCall], NEW table \in Seq(0..MaxTime), NEW c \in Calls, cs[c] # Idle
  PROVE  NoMore(cs, table, [cs EXCEPT ![c] = Idle], Append(table, cs[c].at), cs[c].from)
  <1>. DEFINE cs2 == [cs EXCEPT ![c] = Idle]
              rows2 == Append(table, cs[c].at)
              a == cs[c].from
              n == Len(table) + 1
  <1>1. cs2[c] = Idle /\ \A d \in Calls : d # c => cs2[d] = cs[d]
    OBVIOUS
  <1>2. n \in Nat /\ DOMAIN table = 1..Len(table) /\ Len(table) \in Nat
    OBVIOUS
  <1>3. rows2[n] = cs[c].at /\ \A i \in 1..Len(table) : rows2[i] = table[i]
    BY ContactShapes
  <1>4. DOMAIN rows2 = 1..Len(table) \cup {n}
    <2>1. Len(rows2) = n /\ DOMAIN rows2 = 1..Len(rows2)
      BY ContactShapes
    <2>. QED  BY <1>2, <2>1
  <1>. HIDE DEF cs2, rows2, a, n
  <1>. SUFFICES ASSUME NEW lo \in Int, NEW hi \in Int
                PROVE  /\ \A k \in Int : AtMost(Through(cs, table, a, lo, hi), k) =>
                            AtMost(Through(cs2, rows2, a, lo, hi), k)
                       /\ Through(cs, table, a, lo, hi) = {} => Through(cs2, rows2, a, lo, hi) = {}
    BY DEF NoMore, cs2, rows2, a
  <1>5. ASSUME NEW p \in Through(cs2, rows2, a, lo, hi)
        PROVE  \/ p \in Through(cs, table, a, lo, hi) /\ p # <<"call", c>>
               \/ p = <<"row", n>> /\ <<"call", c>> \in Through(cs, table, a, lo, hi)
    <2>1. CASE \E i \in DOMAIN rows2 : p = <<"row", i>> /\ lo <= rows2[i] /\ rows2[i] <= hi
      <3>1. PICK i \in DOMAIN rows2 : p = <<"row", i>> /\ lo <= rows2[i] /\ rows2[i] <= hi
        BY <2>1
      <3>2. CASE i = n
        <4>1. lo <= cs[c].at /\ cs[c].at <= hi /\ cs[c].from = a
          BY <1>3, <3>1, <3>2 DEF a
        <4>2. <<"call", c>> \in Through(cs, table, a, lo, hi)
          BY <4>1, ThroughIs
        <4>. QED  BY <3>1, <3>2, <4>2
      <3>3. CASE i # n
        <4>1. i \in DOMAIN table /\ rows2[i] = table[i]
          BY <1>2, <1>3, <1>4, <3>1, <3>3
        <4>2. p \in Through(cs, table, a, lo, hi)
          BY <3>1, <4>1, ThroughIs
        <4>3. p[1] = "row"
          BY <3>1
        <4>. QED  BY <4>2, <4>3
      <3>. QED  BY <3>2, <3>3
    <2>2. CASE \E d \in Calls : /\ p = <<"call", d>> /\ cs2[d] # Idle /\ cs2[d].from = a
                                /\ lo <= cs2[d].at /\ cs2[d].at <= hi
      <3>1. PICK d \in Calls : /\ p = <<"call", d>> /\ cs2[d] # Idle /\ cs2[d].from = a
                               /\ lo <= cs2[d].at /\ cs2[d].at <= hi
        BY <2>2
      <3>2. d # c /\ cs2[d] = cs[d] /\ p[2] = d
        BY <1>1, <3>1
      <3>3. p \in Through(cs, table, a, lo, hi)
        BY <3>1, <3>2, ThroughIs
      <3>. QED  BY <3>2, <3>3
    <2>. QED  BY <2>1, <2>2, ThroughIs
  <1>6. CASE <<"call", c>> \in Through(cs, table, a, lo, hi)
    <2>1. Through(cs2, rows2, a, lo, hi) \in
            SUBSET ((Through(cs, table, a, lo, hi) \ {<<"call", c>>}) \cup {<<"row", n>>})
      BY <1>5
    <2>2. ASSUME NEW k \in Int, AtMost(Through(cs, table, a, lo, hi), k)
          PROVE  AtMost(Through(cs2, rows2, a, lo, hi), k)
      <3>1. AtMost((Through(cs, table, a, lo, hi) \ {<<"call", c>>}) \cup {<<"row", n>>}, k)
        BY <1>6, <2>2, AtMostSwap
      <3>. QED  BY <2>1, <3>1, AtMostSubset
    <2>. QED  BY <1>6, <2>2
  <1>7. CASE <<"call", c>> \notin Through(cs, table, a, lo, hi)
    <2>1. Through(cs2, rows2, a, lo, hi) \in SUBSET Through(cs, table, a, lo, hi)
      BY <1>5, <1>7
    <2>. QED  BY <2>1, AtMostSubset
  <1>. QED  BY <1>6, <1>7

(* A moment passes.                                                          *)
LEMMA MomentPasses ==
  ASSUME NEW cs \in [Calls -> ContactCall], NEW table \in Seq(0..MaxTime), NEW a,
         NEW now \in Nat, NEW bucket \in Bucket \cup {None},
         BucketHolds(cs, table, a, bucket, now), NoneAhead(cs, table, a, now)
  PROVE  BucketHolds(cs, table, a, bucket, now + 1) /\ NoneAhead(cs, table, a, now + 1)
  <1>1. /\ MaxTime \in Int /\ Limit \in Int /\ Window \in Int
        /\ now \in Int /\ now + 1 \in Int /\ now + 1 + 1 \in Int
        /\ now - Window + 1 \in Int /\ now + 1 - Window + 1 \in Int
        /\ now <= now + 1 /\ now + 1 <= now + 1 + 1 /\ now - Window + 1 <= now + 1 - Window + 1
    BY ContactAssumption
  <1>2. NoneAhead(cs, table, a, now + 1)
    <2>1. Through(cs, table, a, now + 1 + 1, MaxTime) \subseteq Through(cs, table, a, now + 1, MaxTime)
      BY <1>1, ThroughPart
    <2>. QED  BY <2>1 DEF NoneAhead
  <1>3. CASE bucket = None
    <2>1. ShutAt(cs, table, a, now)
      BY <1>3 DEF BucketHolds
    <2>2. Through(cs, table, a, now + 1 - Window + 1, MaxTime) \in
            SUBSET Through(cs, table, a, now - Window + 1, MaxTime)
      BY <1>1, ThroughPart
    <2>3. AtMost(Through(cs, table, a, now + 1 - Window + 1, MaxTime), Limit)
      BY <1>1, <2>1, <2>2, AtMostSubset DEF ShutAt
    <2>4. Through(cs, table, a, now + 1, MaxTime) \subseteq Through(cs, table, a, now, MaxTime)
      BY <1>1, ThroughPart
    <2>7. Through(cs, table, a, now + 1, MaxTime) = {}
      BY <2>1, <2>4 DEF ShutAt
    <2>5. ShutAt(cs, table, a, now + 1)
      BY <1>1, <2>3, <2>7 DEF ShutAt
    <2>6. BucketHolds(cs, table, a, bucket, now + 1)
      BY <1>3, <2>5 DEF BucketHolds
    <2>. QED  BY <1>2, <2>6
  <1>4. CASE bucket # None
    <2>1. bucket.expiresAt \in Int
      BY <1>4, ContactAssumption DEF Bucket
    <2>2. bucket.expiresAt <= now + Window => bucket.expiresAt <= now + 1 + Window
      BY <1>1, <2>1
    <2>3. BucketHolds(cs, table, a, bucket, now + 1)
      BY <1>4, <2>2 DEF BucketHolds
    <2>. QED  BY <1>2, <2>3
  <1>. QED  BY <1>3, <1>4

(* One call more, counted at the time now.                                   *)
OneMore(cs, cs2, table, a, c, now) ==
  \A lo, hi \in Int :
    /\ Through(cs2, table, a, lo, hi) \in SUBSET (Through(cs, table, a, lo, hi) \cup {<<"call", c>>})
    /\ ~(lo <= now /\ now <= hi) => Through(cs2, table, a, lo, hi) \in SUBSET Through(cs, table, a, lo, hi)

(* It opens a window,                                                        *)
LEMMA WindowOpens ==
  ASSUME NEW cs \in [Calls -> ContactCall], NEW table \in Seq(0..MaxTime), NEW a,
         NEW c, NEW now \in Nat, ShutAt(cs, table, a, now),
         NEW cs2, OneMore(cs, cs2, table, a, c, now)
  PROVE  OpenSince(cs2, table, a, now, 1)
  <1>0. /\ MaxTime \in Int /\ Limit \in Int /\ Window \in Nat \ {0}
        /\ now \in Int /\ now - 1 \in Int /\ now - Window + 1 \in Int /\ now + Window \in Int
        /\ ~(now <= now - 1) /\ ~(now + Window <= now) /\ now <= now + Window
        /\ now - Window + 1 <= now - Window + 1 /\ MaxTime <= MaxTime /\ Limit <= Limit
    BY ContactAssumption
  <1>1. AtMost(Through(cs2, table, a, now, MaxTime), 1)
    <2>1. Through(cs2, table, a, now, MaxTime) \in SUBSET (Through(cs, table, a, now, MaxTime) \cup {<<"call", c>>})
      BY <1>0 DEF OneMore
    <2>2. Through(cs, table, a, now, MaxTime) = {}
      BY DEF ShutAt
    <2>3. AtMost({} \cup {<<"call", c>>}, 0 + 1)
      <3>1. AtMost({}, 0) /\ 0 \in Int
        BY AtMostEmpty
      <3>. QED  BY <3>1, AtMostAdd
    <2>. DEFINE one == {} \cup {<<"call", c>>}
    <2>4. AtMost(one, 1) /\ Through(cs2, table, a, now, MaxTime) \in SUBSET one
      BY <2>1, <2>2, <2>3
    <2>. HIDE DEF one
    <2>. QED  BY <2>4, AtMostSubset
  <1>2. AtMost(Through(cs2, table, a, now - Window + 1, now - 1), Limit)
    <2>1. Through(cs2, table, a, now - Window + 1, now - 1) \in SUBSET Through(cs, table, a, now - Window + 1, now - 1)
      BY <1>0 DEF OneMore
    <2>2. Through(cs, table, a, now - Window + 1, now - 1) \subseteq Through(cs, table, a, now - Window + 1, MaxTime)
      BY <1>0, ThroughPart
    <2>3. Through(cs2, table, a, now - Window + 1, now - 1) \in SUBSET Through(cs, table, a, now - Window + 1, MaxTime)
      BY <2>1, <2>2
    <2>4. AtMost(Through(cs, table, a, now - Window + 1, MaxTime), Limit)
      BY DEF ShutAt
    <2>. QED  BY <1>0, <2>3, <2>4, AtMostSubset
  <1>3. Through(cs2, table, a, now + Window, MaxTime) = {}
    <2>1. Through(cs2, table, a, now + Window, MaxTime) \in SUBSET Through(cs, table, a, now + Window, MaxTime)
      BY <1>0 DEF OneMore
    <2>2. Through(cs, table, a, now + Window, MaxTime) \subseteq Through(cs, table, a, now, MaxTime)
      BY <1>0, ThroughPart
    <2>. QED  BY <2>1, <2>2 DEF ShutAt
  <1>. QED  BY <1>1, <1>2, <1>3 DEF OpenSince

(* or adds to the one that is open.                                          *)
LEMMA WindowFills ==
  ASSUME NEW cs \in [Calls -> ContactCall], NEW table \in Seq(0..MaxTime), NEW a,
         NEW c, NEW now \in Nat, NEW b \in Int, b <= now, now < b + Window,
         NEW count \in Int, OpenSince(cs, table, a, b, count),
         NEW cs2, OneMore(cs, cs2, table, a, c, now)
  PROVE  OpenSince(cs2, table, a, b, count + 1)
  <1>0. /\ MaxTime \in Int /\ Limit \in Int /\ Window \in Int /\ count + 1 \in Int /\ count + 1 <= count + 1
        /\ b - 1 \in Int /\ b - Window + 1 \in Int /\ b + Window \in Int
        /\ ~(now <= b - 1) /\ ~(b + Window <= now) /\ Limit <= Limit
    BY ContactAssumption
  <1>1. AtMost(Through(cs2, table, a, b, MaxTime), count + 1)
    <2>1. Through(cs2, table, a, b, MaxTime) \in SUBSET (Through(cs, table, a, b, MaxTime) \cup {<<"call", c>>})
      BY <1>0 DEF OneMore
    <2>2. AtMost(Through(cs, table, a, b, MaxTime), count)
      BY DEF OpenSince
    <2>3. AtMost(Through(cs, table, a, b, MaxTime) \cup {<<"call", c>>}, count + 1)
      BY <2>2, AtMostAdd
    <2>. QED  BY <1>0, <2>1, <2>3, AtMostSubset
  <1>2. AtMost(Through(cs2, table, a, b - Window + 1, b - 1), Limit)
    <2>1. Through(cs2, table, a, b - Window + 1, b - 1) \in SUBSET Through(cs, table, a, b - Window + 1, b - 1)
      BY <1>0 DEF OneMore
    <2>2. AtMost(Through(cs, table, a, b - Window + 1, b - 1), Limit)
      BY DEF OpenSince
    <2>. QED  BY <1>0, <2>1, <2>2, AtMostSubset
  <1>3. Through(cs2, table, a, b + Window, MaxTime) = {}
    <2>1. Through(cs2, table, a, b + Window, MaxTime) \in SUBSET Through(cs, table, a, b + Window, MaxTime)
      BY <1>0 DEF OneMore
    <2>. QED  BY <2>1 DEF OpenSince
  <1>. QED  BY <1>1, <1>2, <1>3 DEF OpenSince

LEMMA TwiceAtMostStays ==
  ASSUME NEW cs, NEW table \in Seq(0..MaxTime), NEW a, NEW c, NEW now \in Nat,
         NEW b \in Int, b <= now, NEW count \in Int, count <= Limit,
         NEW cs2 \in [Calls -> ContactCall], OneMore(cs, cs2, table, a, c, now),
         OpenSince(cs2, table, a, b, count), TwiceAtMost(cs, table, a)
  PROVE  TwiceAtMost(cs2, table, a)
  <1>. SUFFICES ASSUME NEW t \in 0..MaxTime
                PROVE  AtMost(Through(cs2, table, a, t, t + Window - 1), 2 * Limit)
    BY DEF TwiceAtMost
  <1>0. /\ Limit \in Int /\ Window \in Int /\ 2 * Limit \in Int /\ 2 * Limit <= 2 * Limit
        /\ t \in Nat /\ t \in Int /\ t + Window - 1 \in Int
    BY ContactAssumption
  <1>1. CASE b <= t + Window - 1
    BY <1>0, <1>1, OpenIsTwiceAtMost
  <1>2. CASE ~(b <= t + Window - 1)
    <2>1. ~(now <= t + Window - 1)
      BY <1>0, <1>2
    <2>2. Through(cs2, table, a, t, t + Window - 1) \in SUBSET Through(cs, table, a, t, t + Window - 1)
      BY <1>0, <2>1 DEF OneMore
    <2>3. AtMost(Through(cs, table, a, t, t + Window - 1), 2 * Limit)
      BY DEF TwiceAtMost
    <2>. QED  BY <1>0, <2>2, <2>3, AtMostSubset
  <1>. QED  BY <1>1, <1>2

(* A call is let through, in a window that is open or is opened for it.      *)
LetThrough(bucket) ==
  IF Over(bucket) THEN [count |-> 1, expiresAt |-> clock + Window]
  ELSE [bucket EXCEPT !.count = @ + 1]

LEMMA CallIsLetThrough ==
  ASSUME NEW cs \in [Calls -> ContactCall], NEW table \in Seq(0..MaxTime), NEW a, NEW c,
         NEW bucket \in Bucket \cup {None}, clock \in 0..MaxTime,
         BucketHolds(cs, table, a, bucket, clock), TwiceAtMost(cs, table, a), NoneAhead(cs, table, a, clock),
         ~Over(bucket) => bucket.count < Limit,
         NEW cs2 \in [Calls -> ContactCall], OneMore(cs, cs2, table, a, c, clock)
  PROVE  /\ LetThrough(bucket) \in Bucket
         /\ BucketHolds(cs2, table, a, LetThrough(bucket), clock)
         /\ TwiceAtMost(cs2, table, a) /\ NoneAhead(cs2, table, a, clock)
  <1>0. /\ MaxTime \in Nat /\ Limit \in Nat \ {0} /\ Window \in Nat \ {0}
        /\ clock \in Nat /\ clock <= MaxTime
    BY ContactAssumption
  <1>1. NoneAhead(cs2, table, a, clock)
    <2>1. clock + 1 \in Int /\ MaxTime \in Int /\ ~(clock + 1 <= clock)
      BY <1>0
    <2>2. Through(cs2, table, a, clock + 1, MaxTime) \in SUBSET Through(cs, table, a, clock + 1, MaxTime)
      BY <2>1 DEF OneMore
    <2>. QED  BY <2>2 DEF NoneAhead
  <1>2. CASE Over(bucket)
    <2>. DEFINE opened == [count |-> 1, expiresAt |-> clock + Window]
    <2>1. opened \in Bucket /\ opened.count = 1 /\ opened.expiresAt = clock + Window
      BY <1>0 DEF Bucket
    <2>2. LetThrough(bucket) = opened
      BY <1>2 DEF LetThrough
    <2>. HIDE DEF opened
    <2>3. ShutAt(cs, table, a, clock)
      <3>1. CASE bucket = None
        BY <3>1 DEF BucketHolds
      <3>2. CASE bucket # None
        BY <1>0, <1>2, <3>2, ExpiredIsShut DEF Over
      <3>. QED  BY <3>1, <3>2
    <2>4. OpenSince(cs2, table, a, clock, 1)
      BY <1>0, <2>3, WindowOpens
    <2>5. opened.expiresAt - Window = clock /\ Window <= opened.expiresAt
      BY <1>0, <2>1
    <2>6. opened # None
      BY <2>1, NoneIsNoBucket
    <2>7. BucketHolds(cs2, table, a, opened, clock)
      <3>1. OpenSince(cs2, table, a, opened.expiresAt - Window, opened.count)
        BY <2>1, <2>4, <2>5
      <3>2. opened.expiresAt <= clock + Window
        BY <1>0, <2>1
      <3>. QED  BY <2>5, <2>6, <3>1, <3>2 DEF BucketHolds
    <2>8. TwiceAtMost(cs2, table, a)
      <3>1. clock \in Int /\ clock <= clock /\ 1 \in Int /\ 1 <= Limit
        BY <1>0
      <3>. QED  BY <1>0, <2>4, <3>1, TwiceAtMostStays
    <2>. QED  BY <1>1, <2>1, <2>2, <2>7, <2>8
  <1>3. CASE ~Over(bucket)
    <2>1. /\ bucket \in Bucket /\ bucket # None /\ bucket.count \in 1..Limit /\ bucket.count < Limit
          /\ bucket.expiresAt \in 0..MaxTime + Window /\ ~(bucket.expiresAt <= clock)
      BY <1>3 DEF Over, Bucket
    <2>. DEFINE filled == [bucket EXCEPT !.count = @ + 1]
                b == bucket.expiresAt - Window
                count == bucket.count
    <2>2. LetThrough(bucket) = filled
      BY <1>3 DEF LetThrough
    <2>3. filled \in Bucket /\ filled.expiresAt = bucket.expiresAt /\ filled.count = count + 1
      <3>1. bucket.count + 1 \in 1..Limit
        BY <1>0, <2>1
      <3>. QED  BY <2>1, <3>1 DEF Bucket
    <2>4. OpenSince(cs, table, a, b, count) /\ Window <= bucket.expiresAt /\ bucket.expiresAt <= clock + Window
      BY <2>1 DEF BucketHolds
    <2>5. b \in Int /\ b <= clock /\ clock < b + Window /\ count \in Int /\ count + 1 \in Int /\ count + 1 <= Limit
      BY <1>0, <2>1, <2>4
    <2>6. filled.expiresAt - Window = b
      BY <2>3
    <2>. HIDE DEF filled, b, count
    <2>7. OpenSince(cs2, table, a, b, count + 1)
      BY <1>0, <2>4, <2>5, WindowFills
    <2>8. TwiceAtMost(cs2, table, a)
      BY <1>0, <2>5, <2>7, TwiceAtMostStays
    <2>9. BucketHolds(cs2, table, a, filled, clock)
      <3>1. filled # None
        BY <2>3, NoneIsNoBucket
      <3>. QED  BY <2>3, <2>4, <2>6, <2>7, <3>1 DEF BucketHolds
    <2>. QED  BY <1>1, <2>2, <2>3, <2>8, <2>9
  <1>. QED  BY <1>2, <1>3

-----------------------------------------------------------------------------
LEMMA ContactInitially == ContactInit => ContactInv
  <1>. SUFFICES ASSUME ContactInit  PROVE ContactInv
    OBVIOUS
  <1>1. (\A c \in Calls : calls[c] = Idle) /\ (\A a \in Callers : enquiries[a] = <<>> /\ buckets[a] = None)
    BY DEF ContactInit
  <1>2. ContactTypes /\ lastSweep <= clock
    BY ContactAssumption DEF ContactInit, ContactTypes, ContactCall
  <1>3. ASSUME NEW a \in Callers
        PROVE  /\ BucketHolds(calls, enquiries[a], a, buckets[a], clock)
               /\ TwiceAtMost(calls, enquiries[a], a)
               /\ NoneAhead(calls, enquiries[a], a, clock)
    <2>1. \A lo, hi : Through(calls, <<>>, a, lo, hi) = {}
      BY <1>1, NothingThrough
    <2>2. AtMost({}, Limit) /\ AtMost({}, 2 * Limit)
      BY AtMostEmpty, ContactAssumption
    <2>. QED  BY <1>1, <2>1, <2>2 DEF BucketHolds, ShutAt, TwiceAtMost, NoneAhead
  <1>. QED  BY <1>2, <1>3 DEF ContactInv

LEMMA ContactFacts ==
  ASSUME ContactInv
  PROVE  /\ calls \in [Calls -> ContactCall] /\ clock \in Nat /\ clock \in 0..MaxTime
         /\ \A a \in Callers : /\ enquiries[a] \in Seq(0..MaxTime) /\ buckets[a] \in Bucket \cup {None}
                               /\ BucketHolds(calls, enquiries[a], a, buckets[a], clock)
                               /\ TwiceAtMost(calls, enquiries[a], a)
                               /\ NoneAhead(calls, enquiries[a], a, clock)
  BY ContactAssumption DEF ContactInv, ContactTypes

(* The sweep takes only what no longer counts.                               *)
LEMMA SweepKeeps ==
  ASSUME ContactInv, NEW a \in Callers
  PROVE  /\ Swept \in [Callers -> Bucket \cup {None}]
         /\ BucketHolds(calls, enquiries[a], a, Swept[a], clock)
  <1>1. Swept \in [Callers -> Bucket \cup {None}]
    BY DEF ContactInv, ContactTypes, Swept
  <1>2. CASE Swept[a] = buckets[a]
    BY <1>1, <1>2, ContactFacts
  <1>3. CASE Swept[a] # buckets[a]
    <2>1. buckets[a] # None /\ buckets[a].expiresAt <= clock /\ Swept[a] = None
      BY <1>3, ContactFacts DEF Swept
    <2>2. buckets[a] \in Bucket
      BY <2>1, ContactFacts
    <2>3. ShutAt(calls, enquiries[a], a, clock)
      BY <2>1, <2>2, ContactFacts, ExpiredIsShut
    <2>. QED  BY <1>1, <2>1, <2>3 DEF BucketHolds
  <1>. QED  BY <1>2, <1>3

LEMMA canActivateKeeps ==
  ASSUME ContactInv, NEW c \in Calls, NEW a \in Callers, canActivate(c, a)
  PROVE  ContactInv'
  <1>. DEFINE call == [route |-> "submit", step |-> "record", from |-> a, at |-> clock]
              bucket == Swept[a]
  <1>1. /\ clock' = clock /\ enquiries' = enquiries
        /\ lastSweep' \in 0..MaxTime /\ lastSweep' <= clock
    BY DEF canActivate, ContactInv, ContactTypes
  <1>2. /\ bucket \in Bucket \cup {None} /\ BucketHolds(calls, enquiries[a], a, bucket, clock)
        /\ Swept \in [Callers -> Bucket \cup {None}]
    BY SweepKeeps
  <1>3. \/ /\ ~Over(bucket) => bucket.count < Limit
           /\ buckets' = [Swept EXCEPT ![a] = LetThrough(bucket)]
           /\ calls' = [calls EXCEPT ![c] = call]
        \/ buckets' = Swept /\ calls' = calls
    <2>1. CASE Over(bucket)
      BY <2>1 DEF canActivate, LetThrough, Starts, Moves
    <2>2. CASE ~Over(bucket) /\ bucket.count >= Limit
      BY <2>2 DEF canActivate
    <2>3. CASE ~Over(bucket) /\ ~(bucket.count >= Limit)
      <3>1. bucket.count < Limit
        <4>1. bucket # None /\ bucket \in Bucket
          BY <1>2, <2>3 DEF Over
        <4>. QED  BY <2>3, <4>1, ContactAssumption DEF Bucket
      <3>2. /\ buckets' = [Swept EXCEPT ![a] = LetThrough(bucket)]
            /\ calls' = [calls EXCEPT ![c] = call]
        BY <2>3 DEF canActivate, LetThrough, Starts, Moves
      <3>. QED  BY <3>1, <3>2
    <2>. QED  BY <2>1, <2>2, <2>3
  <1>4. CASE /\ ~Over(bucket) => bucket.count < Limit
             /\ buckets' = [Swept EXCEPT ![a] = LetThrough(bucket)]
             /\ calls' = [calls EXCEPT ![c] = call]
    <2>1. call \in ContactCall /\ call # Idle /\ call.from = a /\ call.at = clock
      BY ContactFacts DEF ContactCall, Idle
    <2>2. calls' \in [Calls -> ContactCall]
      BY <1>4, <2>1, ContactFacts
    <2>. HIDE DEF call, bucket
    <2>3. OneMore(calls, calls', enquiries[a], a, c, clock)
      BY <1>4, <2>1, ContactFacts, ThroughOfCall DEF OneMore
    <2>4. /\ LetThrough(bucket) \in Bucket
          /\ BucketHolds(calls', enquiries[a], a, LetThrough(bucket), clock)
          /\ TwiceAtMost(calls', enquiries[a], a) /\ NoneAhead(calls', enquiries[a], a, clock)
      BY <1>2, <1>4, <2>2, <2>3, ContactFacts, CallIsLetThrough
    <2>5. ContactTypes'
      <3>1. buckets' \in [Callers -> Bucket \cup {None}]
        BY <1>2, <1>4, <2>4
      <3>. QED  BY <1>1, <2>2, <3>1 DEF ContactInv, ContactTypes
    <2>6. ASSUME NEW b \in Callers
          PROVE  /\ BucketHolds(calls', enquiries'[b], b, buckets'[b], clock')
                 /\ TwiceAtMost(calls', enquiries'[b], b)
                 /\ NoneAhead(calls', enquiries'[b], b, clock')
      <3>1. CASE b = a
        BY <1>1, <1>2, <1>4, <2>4, <3>1
      <3>2. CASE b # a
        <4>1. buckets'[b] = Swept[b] /\ Swept[b] \in Bucket \cup {None}
          BY <1>2, <1>4, <3>2
        <4>2. NoMore(calls, enquiries[b], calls', enquiries[b], b)
          BY <1>4, <2>1, <3>2, ContactFacts, ThroughOfCall, FewerIsNoMore
        <4>. QED  BY <1>1, <4>1, <4>2, ContactFacts, SweepKeeps, NoMoreKeeps
      <3>. QED  BY <3>1, <3>2
    <2>. QED  BY <1>1, <2>5, <2>6 DEF ContactInv
  <1>5. CASE buckets' = Swept /\ calls' = calls
    <2>1. ContactTypes'
      BY <1>1, <1>2, <1>5 DEF ContactInv, ContactTypes
    <2>. QED  BY <1>1, <1>5, <2>1, ContactFacts, SweepKeeps DEF ContactInv
  <1>. QED  BY <1>3, <1>4, <1>5

(* The other steps of a handler: what counts may only move or be lost.       *)
LEMMA HandlerEndsKeeps ==
  ASSUME ContactInv, ContactTypes', UNCHANGED <<clock, buckets, lastSweep>>,
         \A a \in Callers : NoMore(calls, enquiries[a], calls', enquiries'[a], a)
  PROVE  ContactInv'
  <1>1. ASSUME NEW a \in Callers
        PROVE  /\ BucketHolds(calls', enquiries'[a], a, buckets'[a], clock')
               /\ TwiceAtMost(calls', enquiries'[a], a)
               /\ NoneAhead(calls', enquiries'[a], a, clock')
    BY ContactFacts, NoMoreKeeps
  <1>. QED  BY <1>1 DEF ContactInv

LEMMA submitKeeps ==
  ASSUME ContactInv, NEW c \in Calls, submit(c)
  PROVE  ContactInv'
  <1>. DEFINE a == calls[c].from
  <1>1. calls[c] # Idle /\ calls' = [calls EXCEPT ![c] = Idle]
    BY DEF submit, At, Ends, Moves, Idle
  <1>2. a \in Callers /\ calls[c].at \in 0..MaxTime
    BY <1>1, ContactFacts, ContactShapes
  <1>3. enquiries' = [enquiries EXCEPT ![a] = Append(@, calls[c].at)] /\ UNCHANGED <<clock, buckets, lastSweep>>
    BY DEF submit
  <1>4. enquiries'[a] = Append(enquiries[a], calls[c].at) /\ \A b \in Callers : b # a => enquiries'[b] = enquiries[b]
    BY <1>2, <1>3 DEF ContactInv, ContactTypes
  <1>5. ContactTypes'
    <2>1. calls' \in [Calls -> ContactCall]
      BY <1>1, ContactFacts DEF ContactCall
    <2>2. Append(enquiries[a], calls[c].at) \in Seq(0..MaxTime)
      BY <1>2, ContactFacts
    <2>3. enquiries' \in [Callers -> Seq(0..MaxTime)]
      BY <1>2, <1>3, <2>2 DEF ContactInv, ContactTypes
    <2>. QED  BY <1>3, <2>1, <2>3 DEF ContactInv, ContactTypes
  <1>6. ASSUME NEW b \in Callers  PROVE NoMore(calls, enquiries[b], calls', enquiries'[b], b)
    <2>1. CASE b = a
      BY <1>1, <1>4, <2>1, ContactFacts, RowForCall
    <2>2. CASE b # a
      BY <1>1, <1>4, <2>2, ContactFacts, ThroughOfCall, FewerIsNoMore
    <2>. QED  BY <2>1, <2>2
  <1>. QED  BY <1>3, <1>5, <1>6, HandlerEndsKeeps

LEMMA ContactDiesKeeps ==
  ASSUME ContactInv, NEW c \in Calls, ContactDies(c)
  PROVE  ContactInv'
  <1>1. calls' = [calls EXCEPT ![c] = Idle] /\ UNCHANGED <<clock, buckets, lastSweep, enquiries>>
    BY DEF ContactDies, Ends, Moves
  <1>2. ContactTypes'
    <2>1. calls' \in [Calls -> ContactCall]
      BY <1>1, ContactFacts DEF ContactCall
    <2>. QED  BY <1>1, <2>1 DEF ContactInv, ContactTypes
  <1>3. ASSUME NEW a \in Callers  PROVE NoMore(calls, enquiries[a], calls', enquiries'[a], a)
    BY <1>1, ContactFacts, ThroughOfCall, FewerIsNoMore
  <1>. QED  BY <1>1, <1>2, <1>3, HandlerEndsKeeps

LEMMA ContactTickKeeps ==
  ASSUME ContactInv, ContactTick
  PROVE  ContactInv'
  <1>1. clock' = clock + 1 /\ clock' \in 0..MaxTime /\ UNCHANGED <<calls, buckets, lastSweep, enquiries>>
    BY ContactAssumption DEF ContactTick, ContactInv, ContactTypes
  <1>2. ContactTypes' /\ lastSweep' <= clock'
    BY <1>1, ContactAssumption DEF ContactInv, ContactTypes
  <1>3. ASSUME NEW a \in Callers
        PROVE  /\ BucketHolds(calls', enquiries'[a], a, buckets'[a], clock')
               /\ TwiceAtMost(calls', enquiries'[a], a)
               /\ NoneAhead(calls', enquiries'[a], a, clock')
    BY <1>1, ContactFacts, MomentPasses
  <1>. QED  BY <1>2, <1>3 DEF ContactInv

LEMMA ContactRestartsKeeps ==
  ASSUME ContactInv, ContactRestarts
  PROVE  ContactInv'
  <1>1. /\ \A c \in Calls : calls'[c] = Idle
        /\ \A a \in Callers : enquiries'[a] = <<>> /\ buckets'[a] = None
        /\ clock' = clock
    BY DEF ContactRestarts
  <1>2. ContactTypes' /\ lastSweep' <= clock'
    BY ContactAssumption DEF ContactRestarts, ContactInv, ContactTypes, ContactCall
  <1>3. ASSUME NEW a \in Callers
        PROVE  /\ BucketHolds(calls', enquiries'[a], a, buckets'[a], clock')
               /\ TwiceAtMost(calls', enquiries'[a], a)
               /\ NoneAhead(calls', enquiries'[a], a, clock')
    <2>1. \A lo, hi : Through(calls', <<>>, a, lo, hi) = {}
      BY <1>1, NothingThrough
    <2>2. AtMost({}, Limit) /\ AtMost({}, 2 * Limit)
      BY AtMostEmpty, ContactAssumption
    <2>. QED  BY <1>1, <2>1, <2>2 DEF BucketHolds, ShutAt, TwiceAtMost, NoneAhead
  <1>. QED  BY <1>2, <1>3 DEF ContactInv

LEMMA ContactStep == ContactInv /\ [ContactNext]_contactVars => ContactInv'
  <1>. SUFFICES ASSUME ContactInv, [ContactNext]_contactVars  PROVE ContactInv'
    OBVIOUS
  <1>1. ASSUME NEW c \in Calls, NEW a \in Callers, canActivate(c, a)  PROVE ContactInv'
    BY <1>1, canActivateKeeps
  <1>2. ASSUME NEW c \in Calls, submit(c)  PROVE ContactInv'
    BY <1>2, submitKeeps
  <1>3. ASSUME NEW c \in Calls, ContactDies(c)  PROVE ContactInv'
    BY <1>3, ContactDiesKeeps
  <1>4. CASE ContactTick
    BY <1>4, ContactTickKeeps
  <1>5. CASE ContactRestarts
    BY <1>5, ContactRestartsKeeps
  <1>6. CASE UNCHANGED contactVars
    <2>1. UNCHANGED <<calls, clock, buckets, lastSweep, enquiries>>
      BY <1>6 DEF contactVars
    <2>2. ContactTypes'
      BY <2>1 DEF ContactInv, ContactTypes
    <2>. QED  BY <2>1, <2>2 DEF ContactInv
  <1>. QED  BY <1>1, <1>2, <1>3, <1>4, <1>5, <1>6 DEF ContactNext

(* What the limiter has let through for an address is held by its window,    *)
(* by the window before it, or was too long ago to count.                    *)
THEOREM ContactInvariance == ContactSpec => []ContactInv
  <1>. QED  BY ContactInitially, ContactStep, PTL DEF ContactSpec

(* An address gets at most twice the limit through in a window's time,       *)
(* however its calls overlap, fail, or meet the sweep.                       *)
THEOREM FormStaysLimited == ContactSpec => []FormIsLimited
  <1>1. ContactInv => FormIsLimited
    <2>. SUFFICES ASSUME ContactInv, NEW a \in Callers, NEW t \in 0..MaxTime
                  PROVE  Cardinality({i \in DOMAIN enquiries[a] : enquiries[a][i] \in t..t + Window - 1}) <= 2 * Limit
      BY DEF FormIsLimited
    <2>. DEFINE in == {i \in DOMAIN enquiries[a] : enquiries[a][i] \in t..t + Window - 1}
                all == Through(calls, enquiries[a], a, t, t + Window - 1)
                f == [i \in in |-> <<"row", i>>]
    <2>0. /\ t \in Int /\ t + Window - 1 \in Int /\ 2 * Limit \in Int
          /\ enquiries[a] \in Seq(0..MaxTime) /\ \A i \in DOMAIN enquiries[a] : enquiries[a][i] \in Int
      BY ContactFacts, ContactAssumption
    <2>1. AtMost(all, 2 * Limit)
      BY ContactFacts DEF TwiceAtMost
    <2>2. \A i \in in : <<"row", i>> \in all
      BY <2>0, ThroughIs
    <2>. HIDE DEF all, in
    <2>3. f \in Injection(in, all)
      <3>1. f \in [in -> all]
        BY <2>2
      <3>2. \A i, j \in in : f[i] = f[j] => i = j
        OBVIOUS
      <3>. QED  BY <3>1, <3>2 DEF Injection, IsInjective
    <2>4. IsFiniteSet(in) /\ Cardinality(in) <= Cardinality(all) /\ IsFiniteSet(all)
      BY <2>1, <2>3, FS_Injection DEF AtMost
    <2>5. Cardinality(in) \in Nat /\ Cardinality(all) \in Nat /\ Cardinality(all) <= 2 * Limit
      BY <2>1, <2>4, FS_CardinalityType DEF AtMost
    <2>6. Cardinality(in) <= 2 * Limit
      BY <2>0, <2>4, <2>5
    <2>. QED  BY <2>6 DEF in
  <1>. QED  BY <1>1, ContactInvariance, PTL
=============================================================================
