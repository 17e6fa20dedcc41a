----------------------------- MODULE Passwords -----------------------------
(***************************************************************************)
(* Signing in with a password (customerLogin in modules/auth/              *)
(* auth.service.ts) and changing one's own (modules/users/                 *)
(* users.service.ts).  Both read the account, hash for a while, and write  *)
(* what they computed from the row they read.                              *)
(***************************************************************************)
EXTENDS Handlers, Naturals

CONSTANTS
  Users,
  Secrets,            \* the passwords that are typed
  PasswordMax         \* PASSWORD_MAX_ATTEMPTS

ASSUME PasswordAssumption == PasswordMax \in Nat \ {0} /\ None \notin Secrets

VARIABLES
  password,     \* the hash of each user, or None
  failures,     \* failedLoginAttempts, and whether lockedUntil is ahead
  wrong,        \* history: wrong passwords since the last right one or lock
  overlapped    \* history: users two of whose logins overlapped, or one died

passwordVars == <<calls, password, failures, wrong, overlapped>>

PasswordCall ==
  {Idle}
  \cup [route : {"login"}, step : {"fail", "clear"}, user : Users, seen : 0..PasswordMax]
  \cup [route : {"change"}, step : {"set"}, user : Users, to : Secrets]

PasswordTypes ==
  /\ calls \in [Calls -> PasswordCall]
  /\ password \in [Users -> Secrets \cup {None}]
  /\ failures \in [Users -> [attempts : 0..PasswordMax - 1, locked : BOOLEAN]]
  /\ wrong \in [Users -> 0..PasswordMax + 1]
  /\ overlapped \subseteq Users

(* Users who have registered, and users who have not.                        *)
PasswordInit ==
  /\ calls = [c \in Calls |-> Idle]
  /\ password \in [Users -> Secrets \cup {None}]
  /\ failures = [u \in Users |-> [attempts |-> 0, locked |-> FALSE]]
  /\ wrong = [u \in Users |-> 0]
  /\ overlapped = {}

-----------------------------------------------------------------------------
(* Mutant: the lock comes one answer late.                                   *)
LocksLate(n) == n > PasswordMax
Locks(n) == n >= PasswordMax

(* A right password with nothing to clear goes straight to generateToken.    *)
LoginRead(c, u, typed) ==
  /\ password[u] # None /\ ~failures[u].locked
  /\ typed = password[u] => failures[u].attempts > 0
  /\ Starts(c, [route |-> "login", step |-> IF typed = password[u] THEN "clear" ELSE "fail",
                user |-> u, seen |-> failures[u].attempts])
  /\ overlapped' = IF \E d \in Calls : calls[d].route = "login" /\ calls[d].user = u
                   THEN overlapped \cup {u} ELSE overlapped
  /\ UNCHANGED <<password, failures, wrong>>

(* The wrong answer that reaches the limit locks and starts the count again; *)
(* any other writes lockedUntil = null.  (The history stops at one too many.)*)
LoginFail(c) ==
  LET u == calls[c].user  n == calls[c].seen + 1 IN
  /\ At(c, "login", "fail")
  /\ failures' = [failures EXCEPT ![u] =
       [attempts |-> IF Locks(n) THEN 0 ELSE n, locked |-> Locks(n)]]
  /\ wrong' = [wrong EXCEPT ![u] = IF @ > PasswordMax THEN @ ELSE @ + 1]
  /\ Ends(c)
  /\ UNCHANGED <<password, overlapped>>

LoginClear(c) ==
  LET u == calls[c].user IN
  /\ At(c, "login", "clear")
  /\ failures' = [failures EXCEPT ![u] = [attempts |-> 0, locked |-> FALSE]]
  /\ wrong' = [wrong EXCEPT ![u] = 0]
  /\ Ends(c)
  /\ UNCHANGED <<password, overlapped>>

(* The clock reaches lockedUntil.                                            *)
LoginLockPasses(u) ==
  /\ failures[u].locked
  /\ failures' = [failures EXCEPT ![u].locked = FALSE]
  /\ wrong' = [wrong EXCEPT ![u] = 0]
  /\ UNCHANGED <<calls, password, overlapped>>

(* changeMyPassword: the current password, and a new one that differs.       *)
ChangeRead(c, u, new) ==
  /\ password[u] # None /\ new # password[u]
  /\ Starts(c, [route |-> "change", step |-> "set", user |-> u, to |-> new])
  /\ UNCHANGED <<password, failures, wrong, overlapped>>

ChangeSet(c) ==
  /\ At(c, "change", "set")
  /\ password' = [password EXCEPT ![calls[c].user] = calls[c].to]
  /\ Ends(c)
  /\ UNCHANGED <<failures, wrong, overlapped>>

PasswordDies(c) ==
  /\ ~IsIdle(c)
  /\ Ends(c)
  /\ UNCHANGED <<password, failures, wrong, overlapped>>

PasswordNext ==
  \/ \E c \in Calls, u \in Users, s \in Secrets : LoginRead(c, u, s) \/ ChangeRead(c, u, s)
  \/ \E c \in Calls : LoginFail(c) \/ LoginClear(c) \/ ChangeSet(c) \/ PasswordDies(c)
  \/ \E u \in Users : LoginLockPasses(u)

PasswordSpec == PasswordInit /\ [][PasswordNext]_passwordVars

-----------------------------------------------------------------------------
(* Wrong passwords in a row lock the account when they reach the limit,      *)
(* neither later nor sooner, whatever becomes of the password in between, as *)
(* long as no two logins of the user overlapped: then a stale write loses    *)
(* counts, or lifts a lock.                                                  *)
LockAtTheLimit ==
  \A u \in Users \ overlapped :
    /\ wrong[u] <= PasswordMax
    /\ failures[u].locked <=> wrong[u] = PasswordMax
=============================================================================
