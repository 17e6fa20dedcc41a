------------------------------- MODULE Contact -------------------------------
(***************************************************************************)
(* The public contact form (modules/contact) and the limiter in front of   *)
(* it (common/guards/rate-limit.guard.ts): a window per address, kept in   *)
(* the process and swept now and then.                                     *)
(*                                                                         *)
(* Left out: the e-mail to the sales inbox, whose failure is swallowed     *)
(* once the enquiry is recorded.                                           *)
(***************************************************************************)
EXTENDS Handlers, Naturals, Sequences, FiniteSets

CONSTANTS
  Callers,            \* client addresses
  Limit, Window,      \* RateLimitOptions
  SweepEvery,         \* a minute
  MaxTime

ASSUME ContactAssumption ==
  Limit \in Nat \ {0} /\ Window \in Nat \ {0} /\ SweepEvery \in Nat /\ MaxTime \in Nat

VARIABLES
  clock,
  buckets,      \* the windows of the addresses, or None
  lastSweep,
  enquiries     \* when the ContactMessage rows of each address were accepted

contactVars == <<calls, clock, buckets, lastSweep, enquiries>>

Bucket == [count : 1..Limit, expiresAt : 0..MaxTime + Window]

ASSUME NoneIsNoBucket == None \notin Bucket

ContactCall == {Idle} \cup [route : {"submit"}, step : {"record"}, from : Callers, at : 0..MaxTime]

ContactTypes ==
  /\ calls \in [Calls -> ContactCall]
  /\ clock \in 0..MaxTime /\ lastSweep \in 0..MaxTime
  /\ buckets \in [Callers -> Bucket \cup {None}]
  /\ enquiries \in [Callers -> Seq(0..MaxTime)]

ContactInit ==
  /\ calls = [c \in Calls |-> Idle]
  /\ clock = 0 /\ lastSweep = 0
  /\ buckets = [a \in Callers |-> None]
  /\ enquiries = [a \in Callers |-> <<>>]

(* Mutant: the sweep takes every window.                                     *)
SweptClean == IF clock - lastSweep < SweepEvery THEN buckets ELSE [a \in Callers |-> None]

(* Expired windows are dropped, at most once in a while.                     *)
Swept ==
  IF clock - lastSweep < SweepEvery THEN buckets
  ELSE [a \in Callers |-> IF buckets[a] # None /\ buckets[a].expiresAt <= clock THEN None ELSE buckets[a]]

Over(bucket) == bucket = None \/ bucket.expiresAt <= clock

(* canActivate, synchronous; a caller over the limit is answered 429, which  *)
(* sweeps and changes nothing else.                                          *)
canActivate(c, a) ==
  LET bucket == Swept[a] IN
  /\ lastSweep' = IF clock - lastSweep < SweepEvery THEN lastSweep ELSE clock
  /\ IF Over(bucket)
     THEN /\ buckets' = [Swept EXCEPT ![a] = [count |-> 1, expiresAt |-> clock + Window]]
          /\ Starts(c, [route |-> "submit", step |-> "record", from |-> a, at |-> clock])
     ELSE IF bucket.count >= Limit THEN IsIdle(c) /\ buckets' = Swept /\ UNCHANGED calls
     ELSE /\ buckets' = [Swept EXCEPT ![a].count = @ + 1]
          /\ Starts(c, [route |-> "submit", step |-> "record", from |-> a, at |-> clock])
  /\ UNCHANGED <<clock, enquiries>>

submit(c) ==
  /\ At(c, "submit", "record")
  /\ enquiries' = [enquiries EXCEPT ![calls[c].from] = Append(@, calls[c].at)]
  /\ Ends(c)
  /\ UNCHANGED <<clock, buckets, lastSweep>>

ContactTick ==
  /\ clock < MaxTime /\ clock' = clock + 1
  /\ UNCHANGED <<calls, buckets, lastSweep, enquiries>>

ContactDies(c) == ~IsIdle(c) /\ Ends(c) /\ UNCHANGED <<clock, buckets, lastSweep, enquiries>>

(* A restart forgets the windows; the history starts again with them.        *)
ContactRestarts ==
  /\ calls' = [c \in Calls |-> Idle]
  /\ buckets' = [a \in Callers |-> None] /\ lastSweep' = 0
  /\ enquiries' = [a \in Callers |-> <<>>]
  /\ UNCHANGED clock

ContactNext ==
  \/ \E c \in Calls :
       \/ \E a \in Callers : canActivate(c, a)
       \/ submit(c) \/ ContactDies(c)
  \/ ContactTick \/ ContactRestarts

ContactSpec == ContactInit /\ [][ContactNext]_contactVars

-----------------------------------------------------------------------------
(* An address gets at most twice the limit through in any stretch as long as *)
(* a window, as long as the process lives: the sweep takes no window that    *)
(* still counts.                                                             *)
FormIsLimited ==
  \A a \in Callers : \A t \in 0..MaxTime :
    Cardinality({i \in DOMAIN enquiries[a] : enquiries[a][i] \in t..t + Window - 1}) <= 2 * Limit
=============================================================================
