------------------------------ MODULE Sessions ------------------------------
(***************************************************************************)
(* The refresh tokens of modules/auth/auth.service.ts: signing in, the     *)
(* rotation of a token, the walk that answers a token used twice, logging  *)
(* out, and the retirement of a staff account, which revokes them.         *)
(*                                                                         *)
(* Left out: access tokens, which are checked against the account on every *)
(* request and keep no state, and the signatures and clocks of the tokens: *)
(* a client presents tokens it was given, or, once they expire, does not.  *)
(***************************************************************************)
EXTENDS Handlers, Naturals, FiniteSets

CONSTANTS
  Accounts,
  StaffAccounts,      \* those with an isActive column
  MaxTokens           \* bound on the RefreshToken rows ever created

ASSUME SessionAssumption ==
  /\ StaffAccounts \subseteq Accounts
  /\ MaxTokens \in Nat
  /\ None \notin Accounts \cup Nat

VARIABLES
  tokens,       \* the RefreshToken rows; unused ids are None
  retired,      \* the staff accounts that are deactivated
  late,         \* history: tokens created for an account already retired
  raced,        \* history: sign-ins whose rotations overlapped or died
  ended         \* history: sign-ins ended by a token used twice

sessionVars == <<calls, tokens, retired, late, raced, ended>>

Token == 1..MaxTokens

(* login is the first token of the sign-in, held whether the client has the  *)
(* token: both are the model's, the other fields are columns.                *)
TokenRow == [owner : Accounts, login : Token, revoked : BOOLEAN,
             replacedBy : Token \cup {None}, held : BOOLEAN]

ASSUME RowAssumption == None \notin TokenRow

SessionCall ==
  {Idle}
  \cup [route : {"signin"}, step : {"mint"}, user : Accounts]
  \cup [route : {"refresh"}, step : {"user", "mint"}, old : Token]
  \cup [route : {"refresh"}, step : {"revoke", "link"}, old : Token, new : Token]
  \cup [route : {"chain"}, step : {"read"}, at : Token, seen : SUBSET Token]
  \cup [route : {"chain"}, step : {"revoke"}, at : Token, seen : SUBSET Token,
        onto : Token \cup {None}]

SessionTypes ==
  /\ calls \in [Calls -> SessionCall]
  /\ tokens \in [Token -> TokenRow \cup {None}]
  /\ retired \subseteq StaffAccounts
  /\ late \subseteq Token /\ raced \subseteq Token /\ ended \subseteq Token

SessionInit ==
  /\ calls = [c \in Calls |-> Idle]
  /\ tokens = [t \in Token |-> None]
  /\ retired = {} /\ late = {} /\ raced = {} /\ ended = {}

Minted == {t \in Token : tokens[t] # None}
Live   == {t \in Minted : ~tokens[t].revoked}
LoginOf(t) == tokens[t].login

-----------------------------------------------------------------------------
NewToken == Cardinality(Minted) + 1

(* generateToken: the row of a sign-in or of a rotation.                     *)
Creates(owner, login, held) ==
  /\ NewToken \in Token
  /\ tokens' = [tokens EXCEPT ![NewToken] =
       [owner |-> owner, login |-> login, revoked |-> FALSE,
        replacedBy |-> None, held |-> held]]
  /\ late' = IF owner \in retired THEN late \cup {NewToken} ELSE late

(* Every way to sign in reads the account, and refuses a retired one.        *)
SignInRead(c, u) ==
  /\ u \notin retired
  /\ Starts(c, [route |-> "signin", step |-> "mint", user |-> u])
  /\ UNCHANGED <<tokens, retired, late, raced, ended>>

SignInMint(c) ==
  /\ At(c, "signin", "mint")
  /\ Creates(calls[c].user, NewToken, TRUE)
  /\ Ends(c)
  /\ UNCHANGED <<retired, raced, ended>>

-----------------------------------------------------------------------------
(* POST /auth/refresh.                                                       *)

Rotating(t) == \E d \in Calls : At(d, "refresh", "revoke") /\ calls[d].old = t
Linking(t)  == \E d \in Calls : At(d, "refresh", "link") /\ calls[d].old = t

Walk(t, seen) == [route |-> "chain", step |-> "read", at |-> t, seen |-> seen]

(* The row of the token: one already revoked starts the walk of its chain.   *)
RefreshRead(c, t) ==
  /\ t \in Minted /\ tokens[t].held
  /\ Starts(c, IF tokens[t].revoked THEN Walk(t, {})
               ELSE [route |-> "refresh", step |-> "user", old |-> t])
  /\ UNCHANGED <<tokens, retired, late, raced, ended>>

RefreshUser(c) ==
  /\ At(c, "refresh", "user")
  /\ Moves(c, IF tokens[calls[c].old].owner \in retired THEN Walk(calls[c].old, {})
              ELSE [calls[c] EXCEPT !.step = "mint"])
  /\ UNCHANGED <<tokens, retired, late, raced, ended>>

RefreshMint(c) ==
  LET old == calls[c].old IN
  /\ At(c, "refresh", "mint")
  /\ Creates(tokens[old].owner, LoginOf(old), FALSE)
  /\ Moves(c, [route |-> "refresh", step |-> "revoke", old |-> old, new |-> NewToken])
  /\ raced' = IF tokens[old].revoked \/ Rotating(old)
              THEN raced \cup {LoginOf(old)} ELSE raced
  /\ UNCHANGED <<retired, ended>>

Revoked(t) == [tokens EXCEPT ![t].revoked = TRUE]

RefreshRevoke(c) ==
  /\ At(c, "refresh", "revoke")
  /\ tokens' = Revoked(calls[c].old)
  /\ Steps(c, "link")
  /\ UNCHANGED <<retired, late, raced, ended>>

(* The old row points at the new one, which is then answered to the client.  *)
RefreshLink(c) ==
  LET old == calls[c].old  new == calls[c].new IN
  /\ At(c, "refresh", "link")
  /\ tokens' = [tokens EXCEPT ![old].replacedBy = new, ![new].held = TRUE]
  /\ Ends(c)
  /\ UNCHANGED <<retired, late, raced, ended>>

-----------------------------------------------------------------------------
(* revokeChain.                                                              *)

(* Mutant: the walk stops at the first row it finds revoked already.         *)
AfterFirst(t, onto, seen) ==
  IF seen # {} /\ onto # None THEN Idle
  ELSE IF onto = None \/ onto \in seen \cup {t} THEN Idle ELSE Walk(onto, seen \cup {t})
After(t, onto, seen) ==
  IF onto = None \/ onto \in seen \cup {t} THEN Idle ELSE Walk(onto, seen \cup {t})

Leaves(c, t, onto) ==
  /\ Moves(c, After(t, onto, calls[c].seen))
  /\ ended' = IF After(t, onto, calls[c].seen) = Idle
              THEN ended \cup {LoginOf(t)} ELSE ended
  /\ raced' = IF tokens[t].replacedBy # onto \/ Rotating(t) \/ Linking(t)
              THEN raced \cup {LoginOf(t)} ELSE raced

WalkRead(c) ==
  LET t == calls[c].at IN
  /\ At(c, "chain", "read")
  /\ \/ /\ tokens[t].revoked
        /\ Leaves(c, t, tokens[t].replacedBy)
     \/ /\ ~tokens[t].revoked
        /\ Moves(c, [route |-> "chain", step |-> "revoke", at |-> t,
                     seen |-> calls[c].seen, onto |-> tokens[t].replacedBy])
        /\ UNCHANGED <<raced, ended>>
  /\ UNCHANGED <<tokens, retired, late>>

WalkRevoke(c) ==
  /\ At(c, "chain", "revoke")
  /\ tokens' = Revoked(calls[c].at)
  /\ Leaves(c, calls[c].at, calls[c].onto)
  /\ UNCHANGED <<retired, late>>

-----------------------------------------------------------------------------
(* Logging out is one conditional UPDATE.                                    *)
Logout(t) ==
  /\ t \in Live /\ tokens[t].held
  /\ tokens' = Revoked(t)
  /\ UNCHANGED <<calls, retired, late, raced, ended>>

(* Mutant: the sessions revoked are those that could still be refreshed by   *)
(* their holder.                                                             *)
HeldTokens(s) == {t \in Live : tokens[t].owner = s /\ tokens[t].held}
TokensOf(s) == {t \in Live : tokens[t].owner = s}

(* setOfficerActive: the account and its sessions in one transaction.        *)
RetireAccount(s) ==
  /\ s \notin retired
  /\ retired' = retired \cup {s}
  /\ tokens' = [t \in Token |-> IF t \in TokensOf(s)
                                THEN [tokens[t] EXCEPT !.revoked = TRUE] ELSE tokens[t]]
  /\ UNCHANGED <<calls, late, raced, ended>>

RestoreAccount(s) ==
  /\ s \in retired
  /\ retired' = retired \ {s}
  /\ UNCHANGED <<calls, tokens, late, raced, ended>>

(* A statement throws or the process dies.                                   *)
SessionDies(c) ==
  /\ ~IsIdle(c)
  /\ raced' = IF At(c, "refresh", "revoke") \/ At(c, "refresh", "link")
              THEN raced \cup {LoginOf(calls[c].old)} ELSE raced
  /\ Ends(c)
  /\ UNCHANGED <<tokens, retired, late, ended>>

SessionNext ==
  \/ \E c \in Calls :
       \/ \E u \in Accounts : SignInRead(c, u)
       \/ SignInMint(c)
       \/ \E t \in Token : RefreshRead(c, t)
       \/ RefreshUser(c) \/ RefreshMint(c) \/ RefreshRevoke(c) \/ RefreshLink(c)
       \/ WalkRead(c) \/ WalkRevoke(c) \/ SessionDies(c)
  \/ \E t \in Token : Logout(t)
  \/ \E s \in StaffAccounts : RetireAccount(s) \/ RestoreAccount(s)

SessionSpec == SessionInit /\ [][SessionNext]_sessionVars

-----------------------------------------------------------------------------
(* A retired account has no live session, except one that a handler which    *)
(* had read the account before created afterwards; retirement and the        *)
(* revocation cannot come apart.                                             *)
NoSessionAfterRetirement ==
  \A t \in Live : tokens[t].owner \in retired => t \in late

(* Of the tokens one sign-in was rotated into, one is live, or two while a   *)
(* rotation is between its INSERT and its UPDATE - unless rotations of it    *)
(* overlapped or died on the way.                                            *)
OneLiveTokenPerSignIn ==
  \A l \in Token \ raced : \A t, u \in Live :
    (LoginOf(t) = l /\ LoginOf(u) = l /\ t # u) =>
      \E c \in Calls : At(c, "refresh", "revoke") /\ {calls[c].old, calls[c].new} = {t, u}

(* When a token used twice has been answered, no token of its sign-in is     *)
(* live: the walk of the links reaches every one, unless a rotation was      *)
(* under way on a row it passed, or had died without its link.               *)
ReuseEndsTheSignIn ==
  \A l \in ended \ raced : \A t \in Live : LoginOf(t) # l

(* A sign-in is rotated: one token of it at a time, and none after a reuse.  *)
SignInsRotate == OneLiveTokenPerSignIn /\ ReuseEndsTheSignIn
=============================================================================
