---------------------------- MODULE OneTimeCodes ----------------------------
(***************************************************************************)
(* The codes that stand in for a password: registration with the local     *)
(* provider of infrastructure/otp/otp.service.ts, and the two ways a staff *)
(* password is reset in modules/auth/auth.service.ts, in one call with the *)
(* code or with a reset token the code is exchanged for.  A handler works  *)
(* from the row it read.                                                   *)
(*                                                                         *)
(* One phone or e-mail; the code of a row is the row's number.  An expired *)
(* code or token refuses its bearer, who might as well not have called, so *)
(* expiry is left out; so is the end of a code's lock, which outlasts the  *)
(* code (LOCK_MS is longer than OTP_TTL_MS).                               *)
(***************************************************************************)
EXTENDS Handlers, Naturals

CONSTANTS
  CodeMax,            \* MAX_ATTEMPTS
  MaxCodes            \* bound on the codes ever sent

ASSUME CodeAssumption == CodeMax \in Nat \ {0} /\ MaxCodes \in Nat

VARIABLES
  otpRows,      \* the OtpVerification rows
  sent,         \* the number of codes sent
  resetTokens,  \* reset tokens handed out, named by the code each was given for
  guesses,      \* history: wrong guesses at each code since it was last shown
  opened,       \* history: passwords set by showing each code
  shared        \* history: codes two handlers worked from at once, or that one
                \* died holding

codeVars == <<calls, otpRows, sent, resetTokens, guesses, opened, shared>>

Code == 1..MaxCodes
OtpRow == [code : Code, attempts : 0..CodeMax, locked : BOOLEAN]

(* The customer's registration, and the staff's confirm and verify.          *)
CodeRoutes == {"register", "confirm", "verify"}

CodeCall ==
  {Idle}
  \cup [route : CodeRoutes, step : {"guess"}, row : OtpRow, code : Code]
  \cup [route : CodeRoutes \cup {"token"}, step : {"set", "wipe", "reset"}, code : Code]

CodeTypes ==
  /\ calls \in [Calls -> CodeCall]
  /\ otpRows \subseteq OtpRow
  /\ sent \in 0..MaxCodes
  /\ resetTokens \subseteq Code
  /\ guesses \in [Code -> 0..CodeMax + 1]
  /\ opened \in [Code -> 0..2]
  /\ shared \subseteq Code

CodeInit ==
  /\ calls = [c \in Calls |-> Idle]
  /\ otpRows = {} /\ sent = 0 /\ resetTokens = {}
  /\ guesses = [k \in Code |-> 0] /\ opened = [k \in Code |-> 0] /\ shared = {}

-----------------------------------------------------------------------------
(* requestOtp and requestStaffPasswordReset add a row; older ones stay.      *)
RequestCode ==
  /\ sent < MaxCodes
  /\ sent' = sent + 1
  /\ otpRows' = otpRows \cup {[code |-> sent + 1, attempts |-> 0, locked |-> FALSE]}
  /\ UNCHANGED <<calls, resetTokens, guesses, opened, shared>>

IsNewest(row) == \A r \in otpRows : r.code <= row.code

WithCode(route, step, code) == [route |-> route, step |-> step, code |-> code]

FirstStep(route) == CASE route = "register" -> "wipe"
                      [] route = "confirm"  -> "set"
                      [] route = "verify"   -> "reset"

WorksFrom(d, code) == ~IsIdle(d) /\ calls[d].route # "token" /\ calls[d].code = code

(* The newest row is what a guess is compared with, whatever the guess.      *)
CodeRead(c, route, guess) ==
  \E row \in otpRows :
    /\ IsNewest(row) /\ ~row.locked
    /\ Starts(c, IF guess = row.code THEN WithCode(route, FirstStep(route), row.code)
                 ELSE [route |-> route, step |-> "guess", row |-> row, code |-> row.code])
    /\ shared' = IF \E d \in Calls : WorksFrom(d, row.code)
                 THEN shared \cup {row.code} ELSE shared
    /\ UNCHANGED <<otpRows, sent, resetTokens, guesses, opened>>

(* The row as the handler read it, one attempt on; a row gone by now throws. *)
CodeWrong(c) ==
  LET row == calls[c].row  n == row.attempts + 1 IN
  /\ calls[c].step = "guess"
  /\ otpRows' = {IF r.code = row.code THEN [r EXCEPT !.attempts = n, !.locked = (n >= CodeMax)]
                 ELSE r : r \in otpRows}
  /\ guesses' = [guesses EXCEPT ![row.code] = IF @ > CodeMax THEN @ ELSE @ + 1]
  /\ Ends(c)
  /\ UNCHANGED <<sent, resetTokens, opened, shared>>

(* verifyStaffPasswordResetOtp: the attempts start again and a reset token   *)
(* is answered; the row stays.                                               *)
CodeExchanged(c) ==
  LET code == calls[c].code  found == \E r \in otpRows : r.code = code IN
  /\ calls[c].step = "reset"
  /\ otpRows' = {IF r.code = code THEN [r EXCEPT !.attempts = 0] ELSE r : r \in otpRows}
  /\ resetTokens' = IF found THEN resetTokens \cup {code} ELSE resetTokens
  /\ guesses' = [guesses EXCEPT ![code] = IF found THEN 0 ELSE @]
  /\ Ends(c)
  /\ UNCHANGED <<sent, opened, shared>>

(* resetStaffPasswordWithToken takes the token for as long as it is signed.  *)
TokenRead(c, code) ==
  /\ code \in resetTokens
  /\ Starts(c, WithCode("token", "set", code))
  /\ UNCHANGED <<otpRows, sent, resetTokens, guesses, opened, shared>>

(* The two writes after a right code: a registration removes the code first, *)
(* a reset sets the password first.  Mutant: a reset leaves the code to its  *)
(* expiry.                                                                   *)
ThenStop(call) == IF call.route = "register" /\ call.step = "wipe" THEN WithCode("register", "set", call.code) ELSE Idle
ThenDoes(call) ==
  IF call.route = "register"
  THEN IF call.step = "wipe" THEN WithCode("register", "set", call.code) ELSE Idle
  ELSE IF call.step = "set" THEN WithCode(call.route, "wipe", call.code) ELSE Idle

(* deleteMany: every row of the identifier.                                  *)
CodeWipe(c) ==
  /\ calls[c].step = "wipe"
  /\ otpRows' = {}
  /\ Moves(c, ThenDoes(calls[c]))
  /\ UNCHANGED <<sent, resetTokens, guesses, opened, shared>>

CodeSet(c) ==
  /\ calls[c].step = "set"
  /\ opened' = IF calls[c].route = "token" THEN opened
               ELSE [opened EXCEPT ![calls[c].code] = IF @ > 1 THEN @ ELSE @ + 1]
  /\ Moves(c, ThenDoes(calls[c]))
  /\ UNCHANGED <<otpRows, sent, resetTokens, guesses, shared>>

CodeDies(c) ==
  /\ ~IsIdle(c)
  /\ shared' = IF At(c, "confirm", "wipe") THEN shared \cup {calls[c].code} ELSE shared
  /\ Ends(c)
  /\ UNCHANGED <<otpRows, sent, resetTokens, guesses, opened>>

CodeNext ==
  \/ RequestCode
  \/ \E c \in Calls :
       \/ \E route \in CodeRoutes, guess \in 0..MaxCodes : CodeRead(c, route, guess)
       \/ CodeWrong(c) \/ CodeExchanged(c) \/ CodeWipe(c) \/ CodeSet(c) \/ CodeDies(c)
       \/ \E code \in Code : TokenRead(c, code)

CodeSpec == CodeInit /\ [][CodeNext]_codeVars

-----------------------------------------------------------------------------
(* Of a code nobody shared: wrong guesses in a row lock it when they reach   *)
(* the limit and not before, and it sets a password once.  (A reset token is *)
(* not the code, and works until it expires.)                                *)
CodeIsSpent ==
  \A k \in Code \ shared :
    /\ \A r \in otpRows : r.code = k =>
         guesses[k] <= CodeMax /\ (r.locked <=> guesses[k] = CodeMax)
    /\ opened[k] <= 1
=============================================================================
