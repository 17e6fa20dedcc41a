----------------------------- MODULE MCServices -----------------------------
(***************************************************************************)
(* Instances for TLC of the components that answer requests.  They share   *)
(* no row, so that what one does changes nothing for another: they are     *)
(* checked side by side, one in each behaviour, the rest as they begin.    *)
(***************************************************************************)
EXTENDS Sessions, Passwords, OneTimeCodes, Wallet, Chat, Tickets, Notifications,
        StaffAccounts, Flyers, Contact, TLC

VARIABLE live       \* the component that is at work

MCRegionByCode == 1 :> "lagos"
MCRegionOf == [k \in Distributors |-> "lagos"]
MCLowerCase == [e \in Emails |-> "lower"]
MCCreditRows == {[id |-> 1, amt |-> 2, amt1 |-> 3, pay |-> 1, from |-> 1, to |-> 1]}

(* On the account as its primary officer, as one of two rows, and by a       *)
(* pointer that its rows know nothing of.                                    *)
OnTeam(pointer, joins, primaries) == [pointer |-> pointer, joins |-> joins, primaries |-> primaries]
MCTeams ==
  LET o1 == CHOOSE o \in Officers : TRUE
      o2 == CHOOSE o \in Officers : o # o1
  IN {Nobody, OnTeam(o1, {}, {}), OnTeam(o1, {o1, o2}, {o1}), OnTeam(o2, {o1, o2}, {o1, o2})}

MCSymmetry == Permutations(Calls) \cup Permutations(Phones)

SessionRows      == <<tokens, retired, late, raced, ended>>
PasswordRows     == <<password, failures, wrong, overlapped>>
CodeRows         == <<otpRows, sent, resetTokens, guesses, opened, shared>>
WalletRows       == <<stored, credit, today, payments, notices, base, outdated>>
ChatRows         == <<messages, told, silent, seen, waved>>
TicketRows       == <<tickets, happenings, heard, answered, steady, passing, over>>
NotificationRows == <<rows, pushTokens, verdicts, gone, unsettled>>
FlyerRows        == <<flyers, asked, hidden, disturbed>>
ContactRows      == <<clock, buckets, lastSweep, enquiries>>

Components == {"sessions", "passwords", "codes", "wallet", "chat", "tickets",
               "notifications", "staff", "flyers", "contact"}

ServiceInit ==
  /\ live \in Components
  /\ SessionInit /\ PasswordInit /\ CodeInit /\ WalletInit /\ ChatInit /\ TicketInit
  /\ NotificationInit /\ StaffInit /\ FlyerInit /\ ContactInit
  /\ live # "passwords" => password = [u \in Users |-> None]

Others(component) ==
  /\ live = component /\ live' = live
  /\ component # "sessions" => UNCHANGED SessionRows
  /\ component # "passwords" => UNCHANGED PasswordRows
  /\ component # "codes" => UNCHANGED CodeRows
  /\ component # "wallet" => UNCHANGED WalletRows
  /\ component # "chat" => UNCHANGED ChatRows
  /\ component # "tickets" => UNCHANGED TicketRows
  /\ component \notin {"chat", "tickets"} => UNCHANGED team
  /\ component # "notifications" => UNCHANGED NotificationRows
  /\ component # "staff" => UNCHANGED staffRows
  /\ component # "flyers" => UNCHANGED FlyerRows
  /\ component # "contact" => UNCHANGED ContactRows

ServiceNext ==
  \/ Others("sessions") /\ SessionNext
  \/ Others("passwords") /\ PasswordNext
  \/ Others("codes") /\ CodeNext
  \/ Others("wallet") /\ WalletNext
  \/ Others("chat") /\ ChatNext
  \/ Others("tickets") /\ TicketNext
  \/ Others("notifications") /\ NotificationNext
  \/ Others("staff") /\ StaffNext
  \/ Others("flyers") /\ FlyerNext
  \/ Others("contact") /\ ContactNext

serviceVars == <<calls, live, team, staffRows, SessionRows, PasswordRows, CodeRows, WalletRows,
                 ChatRows, TicketRows, NotificationRows, FlyerRows, ContactRows>>

ServiceSpec == ServiceInit /\ [][ServiceNext]_serviceVars

(* Every row and every handler of the component at work has its type.        *)
ServiceTypes ==
  CASE live = "sessions"      -> SessionTypes
    [] live = "passwords"     -> PasswordTypes
    [] live = "codes"         -> CodeTypes
    [] live = "wallet"        -> WalletTypes
    [] live = "chat"          -> ChatTypes
    [] live = "tickets"       -> TicketTypes
    [] live = "notifications" -> NotificationTypes
    [] live = "staff"         -> StaffTypes
    [] live = "flyers"        -> FlyerTypes
    [] live = "contact"       -> ContactTypes
=============================================================================
