------------------------------ MODULE Tickets ------------------------------
(***************************************************************************)
(* modules/ticket/ticket.service.ts: one customer's support tickets.  What *)
(* the customer does is told to everybody who looks after them, one        *)
(* notification after another; what staff do is told to the customer.      *)
(*                                                                         *)
(* A happening is a row that was created or a status that was set; the     *)
(* wording, the categories and the ticket's own lists are left out.        *)
(***************************************************************************)
EXTENDS Team, Naturals, Sequences

CONSTANTS
  Statuses,           \* TicketStatus
  MaxHappenings       \* bound on tickets, replies and status changes

ASSUME TicketAssumption == "OPEN" \in Statuses /\ MaxHappenings \in Nat

VARIABLES
  tickets,      \* the status of each SupportTicket
  happenings,   \* what was committed: which ticket, and by whom
  heard,        \* the officers notified of each happening
  answered,     \* the happenings the customer was notified of
  steady,       \* history: officers on the account ever since each happening
  passing,      \* history: officers on the account at some time since then
  over          \* happenings whose handler got to the end of its notices

ticketVars == <<calls, team, tickets, happenings, heard, answered, steady, passing, over>>

TicketId == 1..MaxHappenings
Happening == 1..MaxHappenings
HappeningRow == [ticket : TicketId, byCustomer : BOOLEAN]

TicketCall ==
  {Idle}
  \cup [route : {"create"}, step : {"write"}]
  \cup [route : {"reply"}, step : {"write"}, ticket : TicketId, by : Speakers \cup {None}]
  \cup [route : {"status"}, step : {"write"}, ticket : TicketId, by : Speakers, to : Statuses]
  \cup [route : {"ticket"}, step : {"ask"}, what : Happening]
  \cup [route : {"ticket"}, step : {"tell"}, what : Happening, rest : SUBSET Officers]
  \cup [route : {"ticket"}, step : {"customer", "frame"}, what : Happening]

TicketTypes ==
  /\ calls \in [Calls -> TicketCall]
  /\ team \in Teams
  /\ tickets \in Seq(Statuses) /\ happenings \in Seq(HappeningRow)
  /\ heard \in [Happening -> SUBSET Officers] /\ answered \subseteq Happening
  /\ steady \in [Happening -> SUBSET Officers] /\ passing \in [Happening -> SUBSET Officers]
  /\ over \subseteq Happening

TicketInit ==
  /\ calls = [c \in Calls |-> Idle]
  /\ team = Nobody
  /\ tickets = <<>> /\ happenings = <<>>
  /\ heard = [h \in Happening |-> {}] /\ answered = {}
  /\ steady = [h \in Happening |-> {}] /\ passing = [h \in Happening |-> {}]
  /\ over = {}

Unheard == <<heard, answered, steady, passing, over>>

-----------------------------------------------------------------------------
(* Mutant: the officer the pointer names, as before secondaries were told.   *)
PrimaryOnly(t) == {t.pointer} \ {None}
currentOfficerIds(t) == t.joins \cup ({t.pointer} \ {None})

(* What a handler commits, and the handler after it: the customer's doing is *)
(* followed by a read of the team, that of staff by a notice to them.        *)
Commits(c, ticket, byCustomer) ==
  LET h == Len(happenings) + 1 IN
  /\ h \in Happening
  /\ happenings' = Append(happenings, [ticket |-> ticket, byCustomer |-> byCustomer])
  /\ steady' = [steady EXCEPT ![h] = {o \in Officers : isAssigned(o)}]
  /\ passing' = [passing EXCEPT ![h] = {o \in Officers : isAssigned(o)}]
  /\ Moves(c, [route |-> "ticket", step |-> IF byCustomer THEN "ask" ELSE "customer", what |-> h])
  /\ UNCHANGED <<team, heard, answered, over>>

createTicket(c) ==
  /\ Starts(c, [route |-> "create", step |-> "write"])
  /\ UNCHANGED <<team, tickets, happenings, Unheard>>

CreateWrite(c) ==
  /\ At(c, "create", "write")
  /\ tickets' = Append(tickets, "OPEN")
  /\ Commits(c, Len(tickets) + 1, TRUE)

(* getTicket is the gate: the owner, an officer on the account, an admin, a  *)
(* regional admin of the region.  (An officer takes two reads, the pointer   *)
(* and then the rows; whom that lets through, one of them alone would have.) *)
ReplyGate(c, t, by) ==
  /\ t \in DOMAIN tickets /\ (by # None => MayOpen(by))
  /\ Starts(c, [route |-> "reply", step |-> "write", ticket |-> t, by |-> by])
  /\ UNCHANGED <<team, tickets, happenings, Unheard>>

ReplyWrite(c) ==
  /\ At(c, "reply", "write")
  /\ Commits(c, calls[c].ticket, calls[c].by = None)
  /\ UNCHANGED tickets

StatusGate(c, t, by, to) ==
  /\ t \in DOMAIN tickets /\ MayOpen(by)
  /\ Starts(c, [route |-> "status", step |-> "write", ticket |-> t, by |-> by, to |-> to])
  /\ UNCHANGED <<team, tickets, happenings, Unheard>>

StatusWrite(c) ==
  /\ At(c, "status", "write")
  /\ tickets' = [tickets EXCEPT ![calls[c].ticket] = calls[c].to]
  /\ Commits(c, calls[c].ticket, FALSE)

-----------------------------------------------------------------------------
Framing(h) == [route |-> "ticket", step |-> "frame", what |-> h]

(* Everyone on the account, in one read; then one notice each.               *)
AskTeam(c) ==
  LET h == calls[c].what  ids == currentOfficerIds(team) IN
  /\ At(c, "ticket", "ask")
  /\ Moves(c, IF ids = {} THEN Framing(h)
              ELSE [route |-> "ticket", step |-> "tell", what |-> h, rest |-> ids])
  /\ over' = IF ids = {} THEN over \cup {h} ELSE over
  /\ UNCHANGED <<team, tickets, happenings, heard, answered, steady, passing>>

TellOfficer(c, o) ==
  LET h == calls[c].what  rest == calls[c].rest \ {o} IN
  /\ At(c, "ticket", "tell") /\ o \in calls[c].rest
  /\ heard' = [heard EXCEPT ![h] = @ \cup {o}]
  /\ Moves(c, IF rest = {} THEN Framing(h) ELSE [calls[c] EXCEPT !.rest = rest])
  /\ over' = IF rest = {} THEN over \cup {h} ELSE over
  /\ UNCHANGED <<team, tickets, happenings, answered, steady, passing>>

TellCustomer(c) ==
  LET h == calls[c].what IN
  /\ At(c, "ticket", "customer")
  /\ answered' = answered \cup {h} /\ over' = over \cup {h}
  /\ Moves(c, Framing(h))
  /\ UNCHANGED <<team, tickets, happenings, heard, steady, passing>>

(* publishTicketUpdate reads the team again and sends frames, which live     *)
(* sessions take or miss; a reply then passes the gate again and is refused  *)
(* (403) to an officer who has left, although it was stored.                 *)
FrameTicket(c) ==
  /\ At(c, "ticket", "frame")
  /\ Ends(c)
  /\ UNCHANGED <<team, tickets, happenings, Unheard>>

TicketTeamChanges ==
  /\ \E t \in Teams :
       LET on == {o \in Officers : o = t.pointer \/ o \in t.joins} IN
       /\ t # team /\ team' = t
       /\ steady' = [h \in Happening |-> steady[h] \cap on]
       /\ passing' = [h \in Happening |-> IF h <= Len(happenings) THEN passing[h] \cup on ELSE {}]
  /\ UNCHANGED <<calls, tickets, happenings, heard, answered, over>>

TicketDies(c) ==
  /\ ~IsIdle(c)
  /\ Ends(c)
  /\ UNCHANGED <<team, tickets, happenings, Unheard>>

TicketNext ==
  \/ \E c \in Calls :
       \/ createTicket(c) \/ CreateWrite(c) \/ ReplyWrite(c) \/ StatusWrite(c)
       \/ \E t \in TicketId :
            \/ \E by \in Speakers \cup {None} : ReplyGate(c, t, by)
            \/ \E by \in Speakers, to \in Statuses : StatusGate(c, t, by, to)
       \/ AskTeam(c) \/ TellCustomer(c) \/ FrameTicket(c) \/ TicketDies(c)
       \/ \E o \in Officers : TellOfficer(c, o)
  \/ TicketTeamChanges

TicketSpec == TicketInit /\ [][TicketNext]_ticketVars

-----------------------------------------------------------------------------
(* What the customer does is heard, once the handler has told everybody, by  *)
(* each officer who looked after them all along, the secondaries included,   *)
(* and by none who never did meanwhile; what staff do is heard by the        *)
(* customer, and by no officer (US-11.8, US-13.5).                           *)
TheTeamHears ==
  \A h \in DOMAIN happenings :
    IF happenings[h].byCustomer
    THEN heard[h] \subseteq passing[h] /\ h \notin answered
         /\ (h \in over => steady[h] \subseteq heard[h])
    ELSE heard[h] = {} /\ (h \in over => h \in answered)
=============================================================================
