---------------------------- MODULE SignIn_proofs ---------------------------
(***************************************************************************)
(* How accounts are opened, entered and closed: the refresh tokens of      *)
(* Sessions, the failed sign-ins of Passwords, the codes of OneTimeCodes   *)
(* and the staff of StaffAccounts, a part each.                            *)
(***************************************************************************)
EXTENDS Sessions, Passwords, OneTimeCodes, StaffAccounts, Integers, FiniteSetTheorems, TLAPS

-----------------------------------------------------------------------------
(* What holds of refresh tokens for every set of accounts and handlers in  *)
(* flight, and however many tokens are ever created.                       *)

(* A rotation that has inserted its new row and not yet linked the old one.  *)
Carries(c) == calls[c].route = "refresh" /\ calls[c].step \in {"revoke", "link"}
Pairs(c, t, u) == \/ calls[c].old = t /\ calls[c].new = u
                  \/ calls[c].old = u /\ calls[c].new = t

(* Rows are numbered as they come; a link leads from a revoked row to a      *)
(* later one, which the client was answered.                                 *)
TokenInv ==
  /\ \E n \in 0..MaxTokens : Minted = 1..n
  /\ ended \subseteq Minted
  /\ \A t \in Minted :
       /\ LoginOf(t) \in Minted
       /\ tokens[t].replacedBy # None =>
            /\ tokens[t].replacedBy \in Minted /\ t < tokens[t].replacedBy
            /\ tokens[tokens[t].replacedBy].held /\ tokens[t].revoked

(* A rotation works on a row the client has, and brings one it has not, which*)
(* no other rotation brings.                                                 *)
RefreshInv(c) ==
  calls[c].route = "refresh" =>
    LET old == calls[c].old  new == calls[c].new IN
    /\ old \in Minted /\ tokens[old].held
    /\ calls[c].step = "link" => tokens[old].revoked
    /\ Carries(c) =>
         /\ new \in Minted /\ ~tokens[new].held /\ old < new /\ LoginOf(new) = LoginOf(old)
         /\ \A d \in Calls : Carries(d) /\ calls[d].new = new => d = c

(* A walk is at a row the client had, past the rows it has seen.             *)
Walks(call) ==
  /\ call.at \in Minted /\ tokens[call.at].held
  /\ \A s \in call.seen : s < call.at
  /\ call.step = "revoke" /\ call.onto # None =>
       call.onto \in Minted /\ tokens[call.onto].held /\ call.at < call.onto
ChainInv(c) == calls[c].route = "chain" => Walks(calls[c])

(* The rows of a sign-in are one chain: it has one end, or two while a       *)
(* rotation is under way.                                                    *)
OneEnd ==
  \A l \in Token \ raced : \A t, u \in Minted :
    (/\ LoginOf(t) = l /\ LoginOf(u) = l /\ t # u
     /\ tokens[t].replacedBy = None /\ tokens[u].replacedBy = None) =>
      \E c \in Calls : Carries(c) /\ Pairs(c, t, u)

SessionIndInv ==
  /\ SessionTypes /\ TokenInv
  /\ \A c \in Calls : RefreshInv(c) /\ ChainInv(c)
  /\ OneEnd /\ ReuseEndsTheSignIn /\ NoSessionAfterRetirement

-----------------------------------------------------------------------------
(* The types of handlers and rows.                                           *)

LEMMA SessionIdleCall == Idle \in SessionCall /\ Idle.route = "none" /\ Idle.step = "idle"
  BY DEF Idle, SessionCall

LEMMA SignInCall ==
  ASSUME NEW call \in SessionCall, call.route = "signin"
  PROVE  call.user \in Accounts
  BY SessionIdleCall DEF SessionCall

LEMMA RefreshCall ==
  ASSUME NEW call \in SessionCall, call.route = "refresh"
  PROVE  /\ call.old \in Token /\ call.step \in {"user", "mint", "revoke", "link"}
         /\ call.step \in {"revoke", "link"} => call.new \in Token
  BY SessionIdleCall DEF SessionCall

LEMMA ChainCall ==
  ASSUME NEW call \in SessionCall, call.route = "chain"
  PROVE  /\ call.at \in Token /\ call.seen \subseteq Token /\ call.step \in {"read", "revoke"}
         /\ call.step = "revoke" => call.onto \in Token \cup {None}
  BY SessionIdleCall DEF SessionCall

LEMMA WalkCall ==
  ASSUME NEW t \in Token, NEW seen \in SUBSET Token
  PROVE  Walk(t, seen) \in SessionCall /\ Walk(t, seen).route = "chain"
  BY DEF Walk, SessionCall

LEMMA MintedRow ==
  ASSUME SessionTypes, NEW t \in Minted
  PROVE  t \in Token /\ tokens[t] \in TokenRow
  BY DEF SessionTypes, Minted

-----------------------------------------------------------------------------
LEMMA SessionInitially == SessionInit => SessionIndInv
  <1>. SUFFICES ASSUME SessionInit  PROVE SessionIndInv
    OBVIOUS
  <1>1. SessionTypes
    BY SessionIdleCall DEF SessionInit, SessionTypes
  <1>2. Minted = {} /\ Live = {}
    BY DEF SessionInit, Minted, Live
  <1>3. TokenInv
    <2>1. 0 \in 0..MaxTokens /\ 1..0 = {}
      BY SessionAssumption
    <2>. QED  BY <1>2, <2>1 DEF SessionInit, TokenInv
  <1>4. ASSUME NEW c \in Calls  PROVE RefreshInv(c) /\ ChainInv(c)
    BY SessionIdleCall DEF SessionInit, RefreshInv, ChainInv
  <1>5. OneEnd /\ ReuseEndsTheSignIn /\ NoSessionAfterRetirement
    BY <1>2 DEF OneEnd, ReuseEndsTheSignIn, NoSessionAfterRetirement
  <1>. QED  BY <1>1, <1>3, <1>4, <1>5 DEF SessionIndInv

-----------------------------------------------------------------------------
(* Steps that create no row and link none: a handler goes on, or some rows   *)
(* are revoked.                                                              *)

SessionSameRows ==
  /\ tokens' \in [Token -> TokenRow \cup {None}] /\ Minted' = Minted
  /\ \A t \in Minted :
       /\ tokens'[t].owner = tokens[t].owner /\ tokens'[t].login = tokens[t].login
       /\ tokens'[t].replacedBy = tokens[t].replacedBy
       /\ tokens'[t].held <=> tokens[t].held
       /\ tokens[t].revoked => tokens'[t].revoked

(* How a handler may go on: no rotation is left half-way, unless its sign-in *)
(* is on record.                                                             *)
Advances(c) ==
  /\ calls'[c].route = "refresh" =>
       \/ /\ calls'[c].step \in {"user", "mint"}
          /\ calls'[c].old \in Minted /\ tokens[calls'[c].old].held
       \/ /\ calls'[c].step = "link" /\ Carries(c)
          /\ calls'[c].old = calls[c].old /\ calls'[c].new = calls[c].new
          /\ tokens'[calls[c].old].revoked
  /\ calls'[c].route = "chain" => Walks(calls'[c])
  /\ Carries(c) =>
       \/ LoginOf(calls[c].old) \in raced'
       \/ Carries(c)' /\ calls'[c].old = calls[c].old /\ calls'[c].new = calls[c].new

LEMMA Conservative ==
  ASSUME SessionIndInv, SessionSameRows,
         calls' \in [Calls -> SessionCall],
         \A c \in Calls : calls'[c] = calls[c] \/ Advances(c),
         retired' \subseteq StaffAccounts, late' = late,
         raced \subseteq raced', raced' \subseteq Token, ended' \subseteq Minted,
         \A l \in ended' \ raced', t \in Minted : LoginOf(t) = l => tokens'[t].revoked,
         \A t \in Minted : tokens[t].owner \in retired' /\ ~tokens'[t].revoked => t \in late
  PROVE  SessionIndInv'
  <1>. USE DEF SessionSameRows
  <1>1. SessionTypes'
    <2>1. ended' \subseteq Token
      BY DEF Minted
    <2>. QED  BY <2>1 DEF SessionIndInv, SessionTypes
  <1>2. TokenInv'
    <2>1. PICK n \in 0..MaxTokens : Minted = 1..n
      BY DEF SessionIndInv, TokenInv
    <2>2. ASSUME NEW t \in Minted
          PROVE  /\ LoginOf(t)' \in Minted
                 /\ tokens'[t].replacedBy # None =>
                      /\ tokens'[t].replacedBy \in Minted /\ t < tokens'[t].replacedBy
                      /\ tokens'[tokens'[t].replacedBy].held /\ tokens'[t].revoked
      BY DEF SessionIndInv, TokenInv, LoginOf
    <2>. QED  BY <2>1, <2>2 DEF TokenInv
  <1>3. ASSUME NEW c \in Calls  PROVE RefreshInv(c)' /\ ChainInv(c)'
    <2>1. RefreshInv(c) /\ ChainInv(c)
      BY DEF SessionIndInv
    <2>2. ASSUME NEW d \in Calls, Carries(d)'  PROVE Carries(d) /\ calls'[d].new = calls[d].new
      <3>1. CASE calls'[d] = calls[d]
        BY <2>2, <3>1 DEF Carries
      <3>2. CASE Advances(d)
        BY <2>2, <3>2 DEF Carries, Advances
      <3>. QED  BY <3>1, <3>2
    <2>3. ChainInv(c)'
      <3>1. Walks(calls'[c]) => Walks(calls[c])'
        BY DEF Walks
      <3>2. calls'[c].route = "chain" => Walks(calls'[c])
        <4>1. CASE calls'[c] = calls[c]
          BY <2>1, <4>1 DEF ChainInv
        <4>2. CASE Advances(c)
          BY <4>2 DEF Advances
        <4>. QED  BY <4>1, <4>2
      <3>. QED  BY <3>1, <3>2 DEF ChainInv
    <2>4. CASE calls'[c] = calls[c]
      <3>. SUFFICES ASSUME calls[c].route = "refresh"  PROVE RefreshInv(c)'
        BY <2>3, <2>4 DEF RefreshInv
      <3>1. /\ calls[c].old \in Minted /\ tokens'[calls[c].old].held
            /\ calls[c].step = "link" => tokens'[calls[c].old].revoked
        BY <2>1 DEF RefreshInv
      <3>2. CASE ~Carries(c)
        <4>1. ~Carries(c)'
          BY <2>4, <3>2 DEF Carries
        <4>. QED  BY <2>4, <3>1, <4>1 DEF RefreshInv
      <3>3. CASE Carries(c)
        <4>1. /\ calls[c].new \in Minted /\ ~tokens'[calls[c].new].held /\ calls[c].old < calls[c].new
              /\ LoginOf(calls[c].new) = LoginOf(calls[c].old)
              /\ \A d \in Calls : Carries(d)' /\ calls'[d].new = calls[c].new => d = c
          BY <2>1, <2>2, <3>3 DEF RefreshInv
        <4>. QED  BY <2>4, <3>1, <4>1 DEF RefreshInv, LoginOf
      <3>. QED  BY <3>2, <3>3
    <2>5. CASE Advances(c)
      <3>. SUFFICES ASSUME calls'[c].route = "refresh"  PROVE RefreshInv(c)'
        BY <2>3 DEF RefreshInv
      <3>1. CASE /\ calls'[c].step \in {"user", "mint"}
                 /\ calls'[c].old \in Minted /\ tokens[calls'[c].old].held
        <4>1. calls'[c].step # "link" /\ ~Carries(c)'
          BY <3>1 DEF Carries
        <4>. QED  BY <3>1, <4>1 DEF RefreshInv
      <3>2. CASE /\ calls'[c].step = "link" /\ Carries(c)
                 /\ calls'[c].old = calls[c].old /\ calls'[c].new = calls[c].new
                 /\ tokens'[calls[c].old].revoked
        <4>1. /\ calls[c].old \in Minted /\ tokens[calls[c].old].held
              /\ calls[c].new \in Minted /\ ~tokens[calls[c].new].held /\ calls[c].old < calls[c].new
              /\ LoginOf(calls[c].new) = LoginOf(calls[c].old)
              /\ \A d \in Calls : Carries(d) /\ calls[d].new = calls[c].new => d = c
          BY <2>1, <3>2 DEF RefreshInv, Carries
        <4>. QED  BY <2>2, <3>2, <4>1 DEF RefreshInv, LoginOf
      <3>. QED  BY <2>5, <3>1, <3>2 DEF Advances
    <2>. QED  BY <2>3, <2>4, <2>5
  <1>4. OneEnd'
    <2>. SUFFICES ASSUME NEW l \in Token \ raced', NEW t \in Minted, NEW u \in Minted,
                         LoginOf(t) = l, LoginOf(u) = l, t # u,
                         tokens[t].replacedBy = None, tokens[u].replacedBy = None
                  PROVE  \E c \in Calls : Carries(c)' /\ Pairs(c, t, u)'
      BY DEF OneEnd, LoginOf
    <2>1. PICK c \in Calls : Carries(c) /\ Pairs(c, t, u)
      BY DEF SessionIndInv, OneEnd
    <2>2. RefreshInv(c) /\ LoginOf(calls[c].old) = l
      BY <2>1 DEF SessionIndInv, Pairs
    <2>3. Carries(c)' /\ Pairs(c, t, u)'
      BY <2>1, <2>2 DEF Advances, Carries, Pairs
    <2>. QED  BY <2>3
  <1>5. ReuseEndsTheSignIn'
    BY DEF ReuseEndsTheSignIn, Live, LoginOf
  <1>6. NoSessionAfterRetirement'
    BY DEF NoSessionAfterRetirement, Live
  <1>. QED  BY <1>1, <1>2, <1>3, <1>4, <1>5, <1>6 DEF SessionIndInv

(* One handler goes on and no row changes.                                   *)
LEMMA SessionCallStep ==
  ASSUME SessionIndInv, NEW c \in Calls, NEW call \in SessionCall, Moves(c, call), Advances(c),
         UNCHANGED <<tokens, retired, late>>,
         raced \subseteq raced', raced' \subseteq Token, ended' \subseteq Minted,
         \A l \in ended' \ raced', t \in Minted : LoginOf(t) = l => tokens[t].revoked
  PROVE  SessionIndInv'
  <1>1. calls' = [calls EXCEPT ![c] = call] /\ calls \in [Calls -> SessionCall]
    BY DEF Moves, SessionIndInv, SessionTypes
  <1>2. SessionSameRows
    BY DEF SessionSameRows, SessionIndInv, SessionTypes, Minted
  <1>3. \A d \in Calls : calls'[d] = calls[d] \/ Advances(d)
    BY <1>1
  <1>4. \A t \in Minted : tokens[t].owner \in retired' /\ ~tokens'[t].revoked => t \in late
    BY DEF SessionIndInv, NoSessionAfterRetirement, Live
  <1>. QED  BY <1>1, <1>2, <1>3, <1>4, Conservative DEF SessionIndInv, SessionTypes

(* Rows of a set are revoked and nothing else about rows changes.            *)
LEMMA Revoking ==
  ASSUME SessionIndInv, NEW S \in SUBSET Minted,
         tokens' = [t \in Token |-> IF t \in S THEN [tokens[t] EXCEPT !.revoked = TRUE] ELSE tokens[t]]
  PROVE  SessionSameRows /\ \A t \in S : tokens'[t].revoked
  <1>1. ASSUME NEW row \in TokenRow
        PROVE  LET new == [row EXCEPT !.revoked = TRUE] IN
               /\ new \in TokenRow /\ new.revoked
               /\ new.owner = row.owner /\ new.login = row.login
               /\ new.replacedBy = row.replacedBy /\ new.held = row.held
    <2>1. TRUE \in BOOLEAN
      OBVIOUS
    <2>2. [row EXCEPT !.revoked = TRUE] \in TokenRow
      BY <2>1, Zenon DEF TokenRow
    <2>. QED  BY <2>2 DEF TokenRow
  <1>2. ASSUME NEW t \in Token
        PROVE  /\ t \in Minted => tokens[t] \in TokenRow
               /\ tokens'[t] = IF t \in S THEN [tokens[t] EXCEPT !.revoked = TRUE] ELSE tokens[t]
    BY MintedRow DEF SessionIndInv
  <1>3. tokens' \in [Token -> TokenRow \cup {None}]
    BY <1>1, <1>2 DEF SessionIndInv, SessionTypes
  <1>4. Minted' = Minted
    BY <1>1, <1>2, RowAssumption DEF Minted
  <1>5. \A t \in Minted : t \in Token
    BY DEF Minted
  <1>. QED  BY <1>1, <1>2, <1>3, <1>4, <1>5 DEF SessionSameRows

-----------------------------------------------------------------------------
(* A row is created.                                                         *)

LEMMA FreshToken ==
  ASSUME SessionIndInv, NewToken \in Token
  PROVE  Minted \cup {NewToken} = 1..NewToken /\ \A t \in Minted : t < NewToken
  <1>1. PICK n \in 0..MaxTokens : Minted = 1..n
    BY DEF SessionIndInv, TokenInv
  <1>2. Cardinality(1..n) = n
    BY <1>1, FS_Interval, SessionAssumption
  <1>3. NewToken = n + 1
    BY <1>1, <1>2 DEF NewToken
  <1>. QED  BY <1>1, <1>3, SessionAssumption

LEMMA SessionCreated ==
  ASSUME SessionIndInv, NEW owner \in Accounts, NEW login \in Token, NEW held \in BOOLEAN,
         Creates(owner, login, held)
  PROVE  /\ NewToken \in Token \ Minted
         /\ tokens' \in [Token -> TokenRow \cup {None}]
         /\ Minted' = Minted \cup {NewToken}
         /\ \A t \in Minted : tokens'[t] = tokens[t]
         /\ LET row == tokens'[NewToken] IN
            /\ row.owner = owner /\ row.login = login /\ row.held = held
            /\ row.replacedBy = None /\ row.revoked = FALSE
  <1>. DEFINE row == [owner |-> owner, login |-> login, revoked |-> FALSE,
                      replacedBy |-> None, held |-> held]
  <1>1. row \in TokenRow
    <2>1. FALSE \in BOOLEAN /\ None \in Token \cup {None}
      OBVIOUS
    <2>. QED  BY <2>1, Zenon DEF TokenRow
  <1>2. NewToken \in Token /\ tokens' = [tokens EXCEPT ![NewToken] = row]
    BY DEF Creates
  <1>3. NewToken \notin Minted
    BY <1>2, FreshToken DEF Token, Minted
  <1>4. tokens' \in [Token -> TokenRow \cup {None}] /\ tokens'[NewToken] = row
    BY <1>1, <1>2 DEF SessionIndInv, SessionTypes
  <1>5. \A t \in Token : t # NewToken => tokens'[t] = tokens[t]
    BY <1>2 DEF SessionIndInv, SessionTypes
  <1>6. Minted' = Minted \cup {NewToken}
    BY <1>1, <1>2, <1>4, <1>5, RowAssumption DEF Minted
  <1>. QED  BY <1>2, <1>3, <1>4, <1>5, <1>6 DEF Minted

(* What does not depend on whose the new row is.                             *)
LEMMA CreateKeeps ==
  ASSUME SessionIndInv, NEW c \in Calls, NEW owner \in Accounts, NEW login \in Token, NEW held \in BOOLEAN,
         Creates(owner, login, held), NEW call \in SessionCall, Moves(c, call),
         login \in Minted \cup {NewToken},
         raced \subseteq raced', raced' \subseteq Token, ended' = ended, retired' = retired,
         ~Carries(c), call.route # "chain"
  PROVE  /\ SessionTypes' /\ TokenInv' /\ NoSessionAfterRetirement'
         /\ \A d \in Calls : d # c => RefreshInv(d) /\ ChainInv(d)' /\ calls'[d] = calls[d]
         /\ ChainInv(c)' /\ calls'[c] = call
  <1>. DEFINE N == NewToken
  <1>1. /\ N \in Token \ Minted /\ Minted' = Minted \cup {N}
        /\ tokens' \in [Token -> TokenRow \cup {None}]
        /\ \A t \in Minted : tokens'[t] = tokens[t]
        /\ tokens'[N].owner = owner /\ tokens'[N].login = login /\ tokens'[N].held = held
        /\ tokens'[N].replacedBy = None /\ tokens'[N].revoked = FALSE
    BY SessionCreated
  <1>2. calls' = [calls EXCEPT ![c] = call] /\ calls \in [Calls -> SessionCall]
    BY DEF Moves, SessionIndInv, SessionTypes
  <1>3. late' \subseteq Token /\ late \subseteq late' /\ (owner \in retired => N \in late')
    BY <1>1 DEF Creates, SessionIndInv, SessionTypes
  <1>4. SessionTypes'
    BY <1>1, <1>2, <1>3 DEF SessionIndInv, SessionTypes
  <1>5. TokenInv'
    <2>. HIDE DEF N
    <2>1. N \in 0..MaxTokens /\ Minted' = 1..N
      BY <1>1, FreshToken DEF Token, N
    <2>2. ASSUME NEW t \in Minted'
          PROVE  /\ LoginOf(t)' \in Minted'
                 /\ tokens'[t].replacedBy # None =>
                      /\ tokens'[t].replacedBy \in Minted' /\ t < tokens'[t].replacedBy
                      /\ tokens'[tokens'[t].replacedBy].held /\ tokens'[t].revoked
      <3>1. CASE t = N
        BY <1>1, <3>1 DEF LoginOf, N
      <3>2. CASE t # N
        BY <1>1, <2>2, <3>2 DEF SessionIndInv, TokenInv, LoginOf
      <3>. QED  BY <3>1, <3>2
    <2>. QED  BY <1>1, <2>1, <2>2 DEF SessionIndInv, TokenInv
  <1>6. NoSessionAfterRetirement'
    <2>. SUFFICES ASSUME NEW t \in Minted', ~tokens'[t].revoked, tokens'[t].owner \in retired
                  PROVE  t \in late'
      BY DEF NoSessionAfterRetirement, Live
    <2>1. CASE t = N
      BY <1>1, <1>3, <2>1
    <2>2. CASE t # N
      BY <1>1, <1>3, <2>2 DEF SessionIndInv, NoSessionAfterRetirement, Live
    <2>. QED  BY <2>1, <2>2
  <1>7. ASSUME NEW d \in Calls, d # c  PROVE RefreshInv(d) /\ ChainInv(d)' /\ calls'[d] = calls[d]
    <2>1. RefreshInv(d) /\ ChainInv(d) /\ calls'[d] = calls[d]
      BY <1>2, <1>7 DEF SessionIndInv
    <2>. QED  BY <1>1, <2>1 DEF ChainInv, Walks
  <1>8. ChainInv(c)' /\ calls'[c] = call
    BY <1>2 DEF ChainInv
  <1>. QED  BY <1>4, <1>5, <1>6, <1>7, <1>8

LEMMA SignInMintStep ==
  ASSUME SessionIndInv, NEW c \in Calls, SignInMint(c)
  PROVE  SessionIndInv'
  <1>. DEFINE N == NewToken
  <1>1. calls[c] \in SessionCall /\ calls[c].route = "signin" /\ ~Carries(c)
    BY DEF SignInMint, At, Carries, SessionIndInv, SessionTypes
  <1>2. calls[c].user \in Accounts
    BY <1>1, SignInCall
  <1>3. /\ Creates(calls[c].user, N, TRUE) /\ N \in Token /\ TRUE \in BOOLEAN /\ Moves(c, Idle)
        /\ raced' = raced /\ ended' = ended /\ retired' = retired
    BY DEF SignInMint, Creates, Ends
  <1>4. /\ N \in Token \ Minted /\ Minted' = Minted \cup {N}
        /\ \A t \in Minted : tokens'[t] = tokens[t]
        /\ tokens'[N].login = N /\ tokens'[N].replacedBy = None /\ tokens'[N].revoked = FALSE
    BY <1>2, <1>3, SessionCreated
  <1>5. /\ SessionTypes' /\ TokenInv' /\ NoSessionAfterRetirement'
        /\ \A d \in Calls : d # c => RefreshInv(d) /\ ChainInv(d)' /\ calls'[d] = calls[d]
        /\ ChainInv(c)' /\ calls'[c] = Idle
    <2>1. raced' \subseteq Token /\ N \in Minted \cup {NewToken}
      BY <1>3 DEF SessionIndInv, SessionTypes
    <2>. QED  BY <1>1, <1>2, <1>3, <2>1, SessionIdleCall, CreateKeeps
  <1>6. ASSUME NEW d \in Calls  PROVE RefreshInv(d)'
    <2>1. CASE d = c
      BY <1>5, <2>1, SessionIdleCall DEF RefreshInv
    <2>2. CASE d # c
      BY <1>4, <1>5, <2>2, SessionIdleCall DEF RefreshInv, Carries, LoginOf
    <2>. QED  BY <2>1, <2>2
  <1>7. ASSUME NEW t \in Minted  PROVE LoginOf(t)' = LoginOf(t) /\ LoginOf(t) # N
    BY <1>4 DEF SessionIndInv, TokenInv, LoginOf
  <1>8. OneEnd'
    <2>. SUFFICES ASSUME NEW l \in Token \ raced, NEW t \in Minted', NEW u \in Minted',
                         LoginOf(t)' = l, LoginOf(u)' = l, t # u,
                         tokens'[t].replacedBy = None, tokens'[u].replacedBy = None
                  PROVE  \E d \in Calls : Carries(d)' /\ Pairs(d, t, u)'
      BY <1>3 DEF OneEnd
    <2>1. t \in Minted /\ u \in Minted
      BY <1>4, <1>7 DEF LoginOf
    <2>2. PICK d \in Calls : Carries(d) /\ Pairs(d, t, u)
      BY <1>4, <1>7, <2>1 DEF SessionIndInv, OneEnd
    <2>3. d # c
      BY <1>1, <2>2
    <2>. QED  BY <1>5, <2>2, <2>3 DEF Carries, Pairs
  <1>9. ReuseEndsTheSignIn'
    <2>. SUFFICES ASSUME NEW l \in ended \ raced, NEW t \in Minted', ~tokens'[t].revoked
                  PROVE  LoginOf(t)' # l
      BY <1>3 DEF ReuseEndsTheSignIn, Live
    <2>1. CASE t = N
      BY <1>4, <2>1 DEF SessionIndInv, TokenInv, LoginOf
    <2>2. CASE t # N
      BY <1>4, <1>7, <2>2 DEF SessionIndInv, ReuseEndsTheSignIn, Live
    <2>. QED  BY <2>1, <2>2
  <1>. QED  BY <1>5, <1>6, <1>8, <1>9 DEF SessionIndInv

(* The row a rotation replaces is the only end of its chain: it is held, so  *)
(* no other rotation brings it, and if another worked on it already, the     *)
(* sign-in is on record.                                                     *)
LEMMA RefreshMintStep ==
  ASSUME SessionIndInv, NEW c \in Calls, RefreshMint(c)
  PROVE  SessionIndInv'
  <1>. DEFINE N == NewToken
              old == calls[c].old
              call == [route |-> "refresh", step |-> "revoke", old |-> old, new |-> N]
  <1>1. calls[c] \in SessionCall /\ calls[c].route = "refresh" /\ calls[c].step = "mint" /\ ~Carries(c)
    BY DEF RefreshMint, At, Carries, SessionIndInv, SessionTypes
  <1>2. old \in Minted /\ tokens[old].held /\ old \in Token /\ tokens[old] \in TokenRow
    BY <1>1, MintedRow DEF SessionIndInv, RefreshInv
  <1>3. tokens[old].owner \in Accounts /\ LoginOf(old) \in Token /\ LoginOf(old) \in Minted
    BY <1>2 DEF TokenRow, LoginOf, SessionIndInv, TokenInv
  <1>4. /\ Creates(tokens[old].owner, LoginOf(old), FALSE) /\ N \in Token /\ FALSE \in BOOLEAN
        /\ Moves(c, call) /\ ended' = ended /\ retired' = retired
        /\ raced' = IF tokens[old].revoked \/ Rotating(old) THEN raced \cup {LoginOf(old)} ELSE raced
    BY DEF RefreshMint, Creates
  <1>5. call \in SessionCall
    BY <1>2, <1>4 DEF SessionCall
  <1>6. /\ N \in Token \ Minted /\ Minted' = Minted \cup {N}
        /\ \A t \in Minted : tokens'[t] = tokens[t]
        /\ tokens'[N].login = LoginOf(old) /\ tokens'[N].replacedBy = None
        /\ tokens'[N].revoked = FALSE /\ tokens'[N].held = FALSE
    BY <1>3, <1>4, SessionCreated
  <1>7. /\ SessionTypes' /\ TokenInv' /\ NoSessionAfterRetirement'
        /\ \A d \in Calls : d # c => RefreshInv(d) /\ ChainInv(d)' /\ calls'[d] = calls[d]
        /\ ChainInv(c)' /\ calls'[c] = call
    <2>1. raced \subseteq raced' /\ raced' \subseteq Token
      BY <1>3, <1>4 DEF SessionIndInv, SessionTypes
    <2>2. LoginOf(old) \in Minted \cup {NewToken} /\ call.route # "chain"
      BY <1>3
    <2>. QED  BY <1>1, <1>3, <1>4, <1>5, <2>1, <2>2, CreateKeeps
  <1>8. ASSUME NEW d \in Calls, d # c, Carries(d)'
        PROVE  Carries(d) /\ calls'[d] = calls[d] /\ calls[d].new \in Minted
    BY <1>7, <1>8 DEF RefreshInv, Carries
  <1>9. ASSUME NEW d \in Calls  PROVE RefreshInv(d)'
    <2>1. CASE d = c
      <3>1. old < N
        BY <1>2, <1>4, FreshToken
      <3>2. \A e \in Calls : Carries(e)' /\ calls'[e].new = N => e = c
        BY <1>6, <1>8
      <3>3. tokens'[N].login = tokens'[old].login
        BY <1>2, <1>6 DEF LoginOf
      <3>4. tokens'[old].held /\ ~tokens'[N].held /\ old \in Minted' /\ N \in Minted'
        BY <1>2, <1>6
      <3>5. calls'[c].old = old /\ calls'[c].new = N /\ calls'[c].step = "revoke"
        BY <1>7
      <3>. HIDE DEF call, N, old
      <3>. QED  BY <2>1, <3>1, <3>2, <3>3, <3>4, <3>5 DEF RefreshInv, LoginOf
    <2>2. CASE d # c
      <3>1. RefreshInv(d) /\ calls'[d] = calls[d]
        BY <1>7, <2>2
      <3>2. \A e \in Calls : Carries(d) /\ Carries(e)' /\ calls'[e].new = calls[d].new => e = d
        <4>1. ASSUME NEW e \in Calls, Carries(d), Carries(e)', calls'[e].new = calls[d].new
              PROVE  e # c
          BY <1>6, <1>7, <3>1, <4>1 DEF RefreshInv, Carries
        <4>. QED  BY <1>8, <3>1, <4>1 DEF RefreshInv, Carries
      <3>. QED  BY <1>6, <3>1, <3>2 DEF RefreshInv, Carries, LoginOf
    <2>. QED  BY <2>1, <2>2
  <1>10. ASSUME LoginOf(old) \notin raced'
         PROVE  \A u \in Minted : LoginOf(u) = LoginOf(old) /\ tokens[u].replacedBy = None => u = old
    <2>. SUFFICES ASSUME NEW u \in Minted, LoginOf(u) = LoginOf(old), tokens[u].replacedBy = None,
                         u # old
                  PROVE  FALSE
      OBVIOUS
    <2>1. ~tokens[old].revoked /\ ~Rotating(old) /\ LoginOf(old) \notin raced
      BY <1>4, <1>10
    <2>2. tokens[old].replacedBy = None
      BY <1>2, <2>1 DEF SessionIndInv, TokenInv
    <2>3. PICK d \in Calls : Carries(d) /\ Pairs(d, old, u)
      BY <1>2, <1>3, <2>1, <2>2 DEF SessionIndInv, OneEnd
    <2>4. RefreshInv(d) /\ calls[d].route = "refresh" /\ calls[d].step \in {"revoke", "link"}
      BY <2>3 DEF SessionIndInv, Carries
    <2>5. calls[d].new # old
      BY <1>2, <2>3, <2>4 DEF RefreshInv
    <2>6. calls[d].old = old
      BY <2>3, <2>5 DEF Pairs
    <2>. QED  BY <2>1, <2>4, <2>6 DEF RefreshInv, Rotating, At
  <1>11. OneEnd'
    <2>. SUFFICES ASSUME NEW l \in Token \ raced', NEW t \in Minted', NEW u \in Minted',
                         LoginOf(t)' = l, LoginOf(u)' = l, t # u,
                         tokens'[t].replacedBy = None, tokens'[u].replacedBy = None
                  PROVE  \E d \in Calls : Carries(d)' /\ Pairs(d, t, u)'
      BY DEF OneEnd
    <2>0. Carries(c)' /\ calls'[c].old = old /\ calls'[c].new = N
      BY <1>7 DEF Carries
    <2>1. CASE t = N
      <3>1. u \in Minted /\ LoginOf(u) = LoginOf(old) /\ tokens[u].replacedBy = None /\ l = LoginOf(old)
        BY <1>6, <2>1 DEF LoginOf
      <3>2. u = old
        BY <1>10, <3>1
      <3>. QED  BY <2>0, <2>1, <3>2 DEF Pairs
    <2>2. CASE u = N
      <3>1. t \in Minted /\ LoginOf(t) = LoginOf(old) /\ tokens[t].replacedBy = None /\ l = LoginOf(old)
        BY <1>6, <2>2 DEF LoginOf
      <3>2. t = old
        BY <1>10, <3>1
      <3>. QED  BY <2>0, <2>2, <3>2 DEF Pairs
    <2>3. CASE t # N /\ u # N
      <3>1. /\ t \in Minted /\ u \in Minted /\ LoginOf(t) = l /\ LoginOf(u) = l
            /\ tokens[t].replacedBy = None /\ tokens[u].replacedBy = None /\ l \notin raced
        BY <1>4, <1>6, <2>3 DEF LoginOf
      <3>2. PICK d \in Calls : Carries(d) /\ Pairs(d, t, u)
        BY <3>1 DEF SessionIndInv, OneEnd
      <3>3. d # c
        BY <1>1, <3>2
      <3>. QED  BY <1>7, <3>2, <3>3 DEF Carries, Pairs
    <2>. QED  BY <2>1, <2>2, <2>3
  <1>12. ReuseEndsTheSignIn'
    <2>. SUFFICES ASSUME NEW l \in ended \ raced', NEW t \in Minted', ~tokens'[t].revoked
                  PROVE  LoginOf(t)' # l
      BY <1>4 DEF ReuseEndsTheSignIn, Live
    <2>1. l \in ended \ raced
      BY <1>4
    <2>2. CASE t = N
      <3>1. SUFFICES ASSUME LoginOf(old) = l  PROVE FALSE
        BY <1>6, <2>2 DEF LoginOf
      <3>2. ~tokens[old].revoked
        BY <1>4, <3>1
      <3>. QED  BY <1>2, <2>1, <3>1, <3>2 DEF SessionIndInv, ReuseEndsTheSignIn, Live
    <2>3. CASE t # N
      BY <1>6, <2>1, <2>3 DEF SessionIndInv, ReuseEndsTheSignIn, Live, LoginOf
    <2>. QED  BY <2>2, <2>3
  <1>. QED  BY <1>7, <1>9, <1>11, <1>12 DEF SessionIndInv

-----------------------------------------------------------------------------
(* The link: the old row leaves the ends of its chain, and its new row is    *)
(* the client's.                                                             *)
LEMMA RefreshLinkStep ==
  ASSUME SessionIndInv, NEW c \in Calls, RefreshLink(c)
  PROVE  SessionIndInv'
  <1>. DEFINE old == calls[c].old
              new == calls[c].new
  <1>1. Carries(c) /\ calls[c].step = "link" /\ calls[c].route = "refresh" /\ RefreshInv(c)
    BY DEF RefreshLink, At, Carries, SessionIndInv
  <1>2. /\ old \in Minted /\ tokens[old].revoked /\ new \in Minted /\ ~tokens[new].held /\ old < new
        /\ \A d \in Calls : Carries(d) /\ calls[d].new = new => d = c
        /\ old \in Token /\ new \in Token /\ new # None /\ old # new
    <2>1. /\ old \in Minted /\ tokens[old].revoked /\ new \in Minted /\ ~tokens[new].held /\ old < new
          /\ \A d \in Calls : Carries(d) /\ calls[d].new = new => d = c
      BY <1>1 DEF RefreshInv
    <2>2. old \in Token /\ new \in Token
      BY <2>1 DEF Minted
    <2>. QED  BY <2>1, <2>2, SessionAssumption DEF Token
  <1>. HIDE DEF old, new
  <1>3. /\ tokens' = [tokens EXCEPT ![old].replacedBy = new, ![new].held = TRUE]
        /\ UNCHANGED <<retired, late, raced, ended>> /\ calls' = [calls EXCEPT ![c] = Idle]
        /\ calls \in [Calls -> SessionCall] /\ tokens \in [Token -> TokenRow \cup {None}]
    BY DEF RefreshLink, Ends, Moves, SessionIndInv, SessionTypes, old, new
  <1>4. ASSUME NEW row \in TokenRow
        PROVE  /\ LET r == [row EXCEPT !.replacedBy = new] IN
                  /\ r \in TokenRow /\ r.owner = row.owner /\ r.login = row.login
                  /\ r.revoked = row.revoked /\ r.held = row.held /\ r.replacedBy = new
               /\ LET r == [row EXCEPT !.held = TRUE] IN
                  /\ r \in TokenRow /\ r.owner = row.owner /\ r.login = row.login
                  /\ r.revoked = row.revoked /\ r.held /\ r.replacedBy = row.replacedBy
    <2>1. TRUE \in BOOLEAN /\ new \in Token \cup {None}
      BY <1>2
    <2>2. [row EXCEPT !.replacedBy = new] \in TokenRow /\ [row EXCEPT !.held = TRUE] \in TokenRow
      BY <2>1, Zenon DEF TokenRow
    <2>. QED  BY <2>2 DEF TokenRow
  <1>5. /\ tokens'[old] = [tokens[old] EXCEPT !.replacedBy = new]
        /\ tokens'[new] = [tokens[new] EXCEPT !.held = TRUE]
        /\ \A t \in Token : t # old /\ t # new => tokens'[t] = tokens[t]
        /\ tokens' = [t \in Token |-> tokens'[t]]
    BY <1>2, <1>3
  <1>6. ASSUME NEW t \in Minted
        PROVE  /\ tokens'[t] \in TokenRow /\ t \in Minted'
               /\ tokens'[t].owner = tokens[t].owner /\ tokens'[t].login = tokens[t].login
               /\ tokens'[t].revoked = tokens[t].revoked
               /\ tokens'[t].replacedBy = IF t = old THEN new ELSE tokens[t].replacedBy
               /\ (t # new => tokens'[t].held = tokens[t].held) /\ (t = new => tokens'[t].held)
    <2>1. t \in Token /\ tokens[t] \in TokenRow
      BY MintedRow DEF SessionIndInv
    <2>2. CASE t = old
      <3>1. tokens'[t] = [tokens[t] EXCEPT !.replacedBy = new] /\ t # new
        BY <1>2, <1>5, <2>2
      <3>2. /\ tokens'[t] \in TokenRow
            /\ tokens'[t].owner = tokens[t].owner /\ tokens'[t].login = tokens[t].login
            /\ tokens'[t].revoked = tokens[t].revoked /\ tokens'[t].replacedBy = new
            /\ tokens'[t].held = tokens[t].held
        <4>1. /\ [tokens[t] EXCEPT !.replacedBy = new] \in TokenRow
              /\ [tokens[t] EXCEPT !.replacedBy = new].replacedBy = new
          BY <1>4, <2>1
        <4>2. /\ [tokens[t] EXCEPT !.replacedBy = new].owner = tokens[t].owner
              /\ [tokens[t] EXCEPT !.replacedBy = new].login = tokens[t].login
              /\ [tokens[t] EXCEPT !.replacedBy = new].revoked = tokens[t].revoked
              /\ [tokens[t] EXCEPT !.replacedBy = new].held = tokens[t].held
          BY <1>4, <2>1
        <4>. QED  BY <3>1, <4>1, <4>2, Zenon
      <3>3. t \in Minted'
        BY <2>1, <3>2, RowAssumption DEF Minted
      <3>. QED  BY <2>2, <3>1, <3>2, <3>3
    <2>3. CASE t = new
      <3>1. tokens'[t] = [tokens[t] EXCEPT !.held = TRUE] /\ t # old
        BY <1>2, <1>5, <2>3
      <3>2. /\ tokens'[t] \in TokenRow
            /\ tokens'[t].owner = tokens[t].owner /\ tokens'[t].login = tokens[t].login
            /\ tokens'[t].revoked = tokens[t].revoked /\ tokens'[t].held
            /\ tokens'[t].replacedBy = tokens[t].replacedBy
        BY <1>4, <2>1, <3>1
      <3>3. t \in Minted'
        BY <2>1, <3>2, RowAssumption DEF Minted
      <3>. QED  BY <2>3, <3>1, <3>2, <3>3
    <2>4. CASE t # old /\ t # new
      BY <1>5, <2>1, <2>4, RowAssumption DEF Minted
    <2>. QED  BY <2>2, <2>3, <2>4
  <1>7. Minted' = Minted /\ tokens' \in [Token -> TokenRow \cup {None}]
    <2>1. ASSUME NEW t \in Token, t \notin Minted  PROVE tokens'[t] = None
      BY <1>2, <1>5, <2>1 DEF Minted
    <2>2. tokens' \in [Token -> TokenRow \cup {None}]
      BY <1>5, <1>6, <2>1
    <2>. QED  BY <1>6, <2>1, <2>2 DEF Minted
  <1>8. SessionTypes'
    BY <1>3, <1>7, SessionIdleCall DEF SessionIndInv, SessionTypes
  <1>9. TokenInv'
    <2>1. ASSUME NEW t \in Minted
          PROVE  /\ LoginOf(t)' \in Minted
                 /\ tokens'[t].replacedBy # None =>
                      /\ tokens'[t].replacedBy \in Minted /\ t < tokens'[t].replacedBy
                      /\ tokens'[tokens'[t].replacedBy].held /\ tokens'[t].revoked
      <3>1. LoginOf(t)' \in Minted
        BY <1>6 DEF SessionIndInv, TokenInv, LoginOf
      <3>2. CASE t = old
        BY <1>2, <1>6, <3>1, <3>2
      <3>3. CASE t # old
        <4>1. tokens[t].replacedBy # None =>
                /\ tokens[t].replacedBy \in Minted /\ t < tokens[t].replacedBy
                /\ tokens[tokens[t].replacedBy].held /\ tokens[t].revoked
          BY DEF SessionIndInv, TokenInv
        <4>2. tokens'[t].replacedBy = tokens[t].replacedBy
          BY <1>6, <3>3
        <4>. QED  BY <1>6, <3>1, <4>1, <4>2
      <3>. QED  BY <3>2, <3>3
    <2>2. (\E n \in 0..MaxTokens : Minted' = 1..n) /\ ended' \subseteq Minted'
      BY <1>3, <1>7 DEF SessionIndInv, TokenInv
    <2>. QED  BY <1>7, <2>1, <2>2 DEF TokenInv
  <1>10. ASSUME NEW d \in Calls  PROVE RefreshInv(d)' /\ ChainInv(d)'
    <2>1. CASE d = c
      BY <1>3, <2>1, SessionIdleCall DEF RefreshInv, ChainInv
    <2>2. CASE d # c
      <3>1. RefreshInv(d) /\ ChainInv(d) /\ calls'[d] = calls[d]
        BY <1>3, <2>2 DEF SessionIndInv
      <3>2. \A e \in Calls : Carries(e)' => Carries(e) /\ calls'[e] = calls[e]
        BY <1>3, SessionIdleCall DEF Carries
      <3>3. ASSUME NEW t \in Minted, tokens[t].held  PROVE tokens'[t].held
        BY <1>6, <3>3
      <3>4. ChainInv(d)'
        BY <1>7, <3>1, <3>3 DEF ChainInv, Walks
      <3>. SUFFICES ASSUME calls[d].route = "refresh"  PROVE RefreshInv(d)'
        BY <3>1, <3>4 DEF RefreshInv
      <3>5. /\ calls[d].old \in Minted /\ tokens'[calls[d].old].held
            /\ calls[d].step = "link" => tokens'[calls[d].old].revoked
        BY <1>6, <3>1, <3>3 DEF RefreshInv
      <3>6. CASE ~Carries(d)
        <4>1. ~Carries(d)'
          BY <3>2, <3>6
        <4>. QED  BY <1>7, <3>1, <3>5, <4>1 DEF RefreshInv
      <3>7. CASE Carries(d)
        <4>1. calls[d].new # new
          BY <1>2, <2>2, <3>7
        <4>2. /\ calls[d].new \in Minted /\ ~tokens[calls[d].new].held /\ calls[d].old < calls[d].new
              /\ LoginOf(calls[d].new) = LoginOf(calls[d].old)
              /\ \A e \in Calls : Carries(e) /\ calls[e].new = calls[d].new => e = d
          BY <3>1, <3>7 DEF RefreshInv
        <4>3. /\ ~tokens'[calls[d].new].held
              /\ tokens'[calls[d].new].login = tokens'[calls[d].old].login
          BY <1>6, <3>5, <4>1, <4>2 DEF LoginOf
        <4>. QED  BY <1>7, <3>1, <3>2, <3>5, <4>2, <4>3 DEF RefreshInv, LoginOf
      <3>. QED  BY <3>6, <3>7
    <2>. QED  BY <2>1, <2>2
  <1>11. OneEnd'
    <2>. SUFFICES ASSUME NEW l \in Token \ raced, NEW t \in Minted, NEW u \in Minted,
                         tokens'[t].login = l, tokens'[u].login = l, t # u,
                         tokens'[t].replacedBy = None, tokens'[u].replacedBy = None
                  PROVE  \E d \in Calls : Carries(d)' /\ Pairs(d, t, u)'
      BY <1>3, <1>7 DEF OneEnd, LoginOf
    <2>1. /\ t # old /\ u # old /\ tokens[t].login = l /\ tokens[u].login = l
          /\ tokens[t].replacedBy = None /\ tokens[u].replacedBy = None
      BY <1>2, <1>6
    <2>2. PICK d \in Calls : Carries(d) /\ Pairs(d, t, u)
      BY <2>1 DEF SessionIndInv, OneEnd, LoginOf
    <2>3. d # c
      BY <2>1, <2>2 DEF Pairs, old
    <2>. QED  BY <1>3, <2>2, <2>3 DEF Carries, Pairs
  <1>12. ReuseEndsTheSignIn' /\ NoSessionAfterRetirement'
    <2>1. ASSUME NEW t \in Live'
          PROVE  /\ t \in Live /\ tokens'[t].owner = tokens[t].owner
                 /\ tokens'[t].login = tokens[t].login
      BY <1>6, <1>7 DEF Live
    <2>2. ReuseEndsTheSignIn'
      BY <1>3, <2>1 DEF SessionIndInv, ReuseEndsTheSignIn, LoginOf
    <2>3. NoSessionAfterRetirement'
      BY <1>3, <2>1 DEF SessionIndInv, NoSessionAfterRetirement
    <2>. QED  BY <2>2, <2>3
  <1>. QED  BY <1>8, <1>9, <1>10, <1>11, <1>12 DEF SessionIndInv

-----------------------------------------------------------------------------
(* The steps that revoke, and those that only read.                          *)

LEMMA RevokeOne ==
  ASSUME SessionIndInv, NEW t \in Minted, tokens' = Revoked(t)
  PROVE  SessionSameRows /\ tokens'[t].revoked
  <1>1. tokens' = [x \in Token |-> IF x \in {t} THEN [tokens[x] EXCEPT !.revoked = TRUE] ELSE tokens[x]]
    BY DEF Revoked, SessionIndInv, SessionTypes, Minted
  <1>2. {t} \in SUBSET Minted
    OBVIOUS
  <1>. QED  BY <1>1, <1>2, Revoking

(* With more rows revoked and the same accounts retired, what holds of       *)
(* retirement and of reuse still holds.                                      *)
LEMMA StillNone ==
  ASSUME SessionIndInv, SessionSameRows, retired' \subseteq retired
  PROVE  /\ \A t \in Minted : tokens[t].owner \in retired' /\ ~tokens'[t].revoked => t \in late
         /\ \A l \in ended \ raced, t \in Minted : LoginOf(t) = l => tokens'[t].revoked
  BY DEF SessionIndInv, SessionSameRows, NoSessionAfterRetirement, ReuseEndsTheSignIn, Live

LEMMA RefreshReadStep ==
  ASSUME SessionIndInv, NEW c \in Calls, NEW t \in Token, RefreshRead(c, t)
  PROVE  SessionIndInv'
  <1>. DEFINE call == IF tokens[t].revoked THEN Walk(t, {})
                      ELSE [route |-> "refresh", step |-> "user", old |-> t]
  <1>1. /\ t \in Minted /\ tokens[t].held /\ Moves(c, call) /\ calls[c] = Idle
        /\ UNCHANGED <<tokens, retired, late, raced, ended>> /\ calls \in [Calls -> SessionCall]
    BY DEF RefreshRead, Starts, IsIdle, SessionIndInv, SessionTypes
  <1>2. call \in SessionCall
    <2>1. [route |-> "refresh", step |-> "user", old |-> t] \in SessionCall
      BY DEF SessionCall
    <2>. QED  BY <2>1, WalkCall
  <1>3. calls'[c] = call /\ ~Carries(c)
    BY <1>1, SessionIdleCall DEF Moves, Carries
  <1>4. Advances(c)
    <2>1. CASE tokens[t].revoked
      BY <1>1, <1>3, <2>1 DEF Advances, Walk, Walks
    <2>2. CASE ~tokens[t].revoked
      BY <1>1, <1>3, <2>2 DEF Advances
    <2>. QED  BY <2>1, <2>2
  <1>5. SessionSameRows
    BY <1>1 DEF SessionSameRows, SessionIndInv, SessionTypes, Minted
  <1>6. raced' \subseteq Token /\ ended' \subseteq Minted
    BY <1>1 DEF SessionIndInv, SessionTypes, TokenInv
  <1>7. \A l \in ended' \ raced', u \in Minted : LoginOf(u) = l => tokens[u].revoked
    BY <1>1, <1>5, StillNone
  <1>. QED  BY <1>1, <1>2, <1>4, <1>6, <1>7, SessionCallStep

LEMMA RefreshUserStep ==
  ASSUME SessionIndInv, NEW c \in Calls, RefreshUser(c)
  PROVE  SessionIndInv'
  <1>. DEFINE old == calls[c].old
              call == IF tokens[old].owner \in retired THEN Walk(old, {})
                      ELSE [calls[c] EXCEPT !.step = "mint"]
  <1>1. /\ calls[c] \in SessionCall /\ calls[c].route = "refresh" /\ calls[c].step = "user"
        /\ Moves(c, call) /\ UNCHANGED <<tokens, retired, late, raced, ended>>
        /\ calls \in [Calls -> SessionCall]
    BY DEF RefreshUser, At, SessionIndInv, SessionTypes
  <1>2. old \in Minted /\ tokens[old].held /\ old \in Token
    BY <1>1 DEF SessionIndInv, RefreshInv, Minted
  <1>3. /\ [calls[c] EXCEPT !.step = "mint"] \in SessionCall
        /\ [calls[c] EXCEPT !.step = "mint"].route = "refresh"
        /\ [calls[c] EXCEPT !.step = "mint"].step = "mint"
        /\ [calls[c] EXCEPT !.step = "mint"].old = old
    BY <1>1, SessionIdleCall DEF SessionCall
  <1>4. call \in SessionCall
    BY <1>2, <1>3, WalkCall
  <1>5. calls'[c] = call /\ ~Carries(c)
    BY <1>1 DEF Moves, Carries
  <1>6. Advances(c)
    <2>1. CASE tokens[old].owner \in retired
      BY <1>2, <1>5, <2>1 DEF Advances, Walk, Walks
    <2>2. CASE tokens[old].owner \notin retired
      BY <1>2, <1>3, <1>5, <2>2 DEF Advances
    <2>. QED  BY <2>1, <2>2
  <1>7. SessionSameRows
    BY <1>1 DEF SessionSameRows, SessionIndInv, SessionTypes, Minted
  <1>8. raced' \subseteq Token /\ ended' \subseteq Minted
    BY <1>1 DEF SessionIndInv, SessionTypes, TokenInv
  <1>9. \A l \in ended' \ raced', u \in Minted : LoginOf(u) = l => tokens[u].revoked
    BY <1>1, <1>7, StillNone
  <1>. QED  BY <1>1, <1>4, <1>6, <1>8, <1>9, SessionCallStep

LEMMA RefreshRevokeStep ==
  ASSUME SessionIndInv, NEW c \in Calls, RefreshRevoke(c)
  PROVE  SessionIndInv'
  <1>. DEFINE old == calls[c].old
              call == [calls[c] EXCEPT !.step = "link"]
  <1>1. /\ calls[c] \in SessionCall /\ calls[c].route = "refresh" /\ calls[c].step = "revoke"
        /\ calls' = [calls EXCEPT ![c] = call] /\ tokens' = Revoked(old)
        /\ UNCHANGED <<retired, late, raced, ended>> /\ calls \in [Calls -> SessionCall]
    BY DEF RefreshRevoke, At, Steps, Moves, SessionIndInv, SessionTypes
  <1>2. old \in Minted
    BY <1>1 DEF SessionIndInv, RefreshInv
  <1>3. SessionSameRows /\ tokens'[old].revoked
    BY <1>1, <1>2, RevokeOne
  <1>4. call \in SessionCall /\ call.route = "refresh" /\ call.step = "link"
        /\ call.old = old /\ call.new = calls[c].new
    BY <1>1, SessionIdleCall DEF SessionCall
  <1>5. calls'[c] = call /\ \A d \in Calls : d # c => calls'[d] = calls[d]
    BY <1>1
  <1>6. Advances(c)
    BY <1>1, <1>3, <1>4, <1>5 DEF Advances, Carries
  <1>7. calls' \in [Calls -> SessionCall] /\ \A d \in Calls : calls'[d] = calls[d] \/ Advances(d)
    BY <1>1, <1>4, <1>5, <1>6
  <1>8. raced' \subseteq Token /\ ended' \subseteq Minted /\ retired' \subseteq StaffAccounts
    BY <1>1 DEF SessionIndInv, SessionTypes, TokenInv
  <1>. QED  BY <1>1, <1>3, <1>7, <1>8, StillNone, Conservative

-----------------------------------------------------------------------------
(* A walk that leaves a row goes on to a later one or is at the end of the   *)
(* chain, and then every row of the sign-in is revoked.                      *)
LEMMA LeavesRow ==
  ASSUME SessionIndInv, SessionSameRows, NEW c \in Calls, NEW t \in Minted, NEW onto,
         calls[c].route = "chain", calls[c].at = t,
         onto # None => onto \in Minted /\ tokens[onto].held /\ t < onto,
         tokens'[t].revoked, Leaves(c, t, onto), UNCHANGED <<retired, late>>
  PROVE  SessionIndInv'
  <1>. DEFINE seen == calls[c].seen
  <1>1. /\ calls \in [Calls -> SessionCall] /\ calls[c] \in SessionCall
        /\ ~Carries(c) /\ raced \subseteq Token /\ ended \subseteq Minted /\ t \in Token
    BY DEF SessionIndInv, SessionTypes, TokenInv, Carries, Minted
  <1>2. seen \subseteq Token /\ tokens[t].held /\ (\A s \in seen : s < t) /\ LoginOf(t) \in Minted
    BY <1>1, ChainCall DEF SessionIndInv, ChainInv, Walks, TokenInv
  <1>3. onto # None => onto \in Token /\ onto \notin seen \cup {t}
    <2>1. SUFFICES ASSUME onto # None  PROVE onto \in Token /\ onto \notin seen \cup {t}
      OBVIOUS
    <2>2. onto \in Token /\ t < onto
      BY <2>1 DEF Minted
    <2>3. \A s \in seen \cup {t} : s \in Token /\ s <= t
      BY <1>1, <1>2 DEF Token
    <2>. QED  BY <1>1, <2>2, <2>3 DEF Token
  <1>4. CASE onto # None
    <2>. DEFINE call == Walk(onto, seen \cup {t})
    <2>1. call \in SessionCall /\ call # Idle
      BY <1>1, <1>2, <1>3, <1>4, WalkCall, SessionIdleCall
    <2>2. After(t, onto, seen) = call
      BY <1>3, <1>4 DEF After
    <2>3. calls' = [calls EXCEPT ![c] = call] /\ ended' = ended /\ raced \subseteq raced' /\ raced' \subseteq Token
      BY <1>1, <1>2, <2>1, <2>2 DEF Leaves, Moves, Minted
    <2>4. calls'[c] = call /\ \A d \in Calls : d # c => calls'[d] = calls[d]
      BY <1>1, <2>3
    <2>5. Walks(call)
      <3>1. \A s \in seen \cup {t} : s < onto
        <4>1. onto \in Token /\ t < onto /\ \A s \in seen : s \in Token /\ s < t
          BY <1>2, <1>3, <1>4
        <4>. QED  BY <1>1, <4>1 DEF Token
      <3>. QED  BY <1>4, <3>1 DEF Walk, Walks
    <2>6. Advances(c)
      BY <1>1, <2>4, <2>5 DEF Advances, Walk
    <2>7. calls' \in [Calls -> SessionCall] /\ \A d \in Calls : calls'[d] = calls[d] \/ Advances(d)
      BY <1>1, <2>1, <2>3, <2>4, <2>6
    <2>8. retired' \subseteq StaffAccounts
      BY DEF SessionIndInv, SessionTypes
    <2>9. \A l \in ended' \ raced', u \in Minted : LoginOf(u) = l => tokens'[u].revoked
      BY <2>3, StillNone
    <2>10. \A u \in Minted : tokens[u].owner \in retired' /\ ~tokens'[u].revoked => u \in late
      BY StillNone
    <2>. QED  BY <1>1, <2>3, <2>7, <2>8, <2>9, <2>10, Conservative
  <1>5. CASE onto = None
    <2>1. After(t, onto, seen) = Idle
      BY <1>5 DEF After
    <2>2. /\ calls' = [calls EXCEPT ![c] = Idle] /\ ended' = ended \cup {LoginOf(t)}
          /\ raced' = IF tokens[t].replacedBy # None \/ Rotating(t) \/ Linking(t)
                      THEN raced \cup {LoginOf(t)} ELSE raced
      BY <1>5, <2>1 DEF Leaves, Moves
    <2>3. raced \subseteq raced' /\ raced' \subseteq Token /\ ended' \subseteq Minted
      BY <1>1, <1>2, <2>2 DEF Minted
    <2>4. calls'[c] = Idle /\ \A d \in Calls : d # c => calls'[d] = calls[d]
      BY <1>1, <2>2
    <2>5. Advances(c)
      BY <1>1, <2>4, SessionIdleCall DEF Advances
    <2>6. calls' \in [Calls -> SessionCall] /\ \A d \in Calls : calls'[d] = calls[d] \/ Advances(d)
      BY <1>1, <2>2, <2>4, <2>5, SessionIdleCall
    <2>7. ASSUME NEW l \in ended' \ raced', NEW u \in Minted, LoginOf(u) = l, ~tokens'[u].revoked
          PROVE  FALSE
      <3>1. CASE l \in ended
        BY <2>3, <2>7, <3>1, StillNone
      <3>2. CASE l \notin ended
        <4>1. l = LoginOf(t) /\ l \notin raced /\ tokens[t].replacedBy = None /\ ~Rotating(t) /\ ~Linking(t)
          BY <2>2, <2>7, <3>2
        <4>2. u # t /\ ~tokens[u].revoked
          BY <2>7 DEF SessionSameRows
        <4>3. tokens[u].replacedBy = None
          BY <4>2 DEF SessionIndInv, TokenInv
        <4>4. l \in Token
          BY <1>2, <4>1 DEF Minted
        <4>5. PICK d \in Calls : Carries(d) /\ Pairs(d, t, u)
          BY <2>7, <4>1, <4>2, <4>3, <4>4 DEF SessionIndInv, OneEnd
        <4>6. calls[d].old # t
          BY <4>1, <4>5 DEF Rotating, Linking, At, Carries
        <4>7. calls[d].new # t
          BY <1>2, <4>5 DEF SessionIndInv, RefreshInv, Carries
        <4>. QED  BY <4>5, <4>6, <4>7 DEF Pairs
      <3>. QED  BY <3>1, <3>2
    <2>8. retired' \subseteq StaffAccounts
      BY DEF SessionIndInv, SessionTypes
    <2>9. \A u \in Minted : tokens[u].owner \in retired' /\ ~tokens'[u].revoked => u \in late
      BY StillNone
    <2>. QED  BY <2>3, <2>6, <2>7, <2>8, <2>9, Conservative
  <1>. QED  BY <1>4, <1>5

LEMMA WalkReadStep ==
  ASSUME SessionIndInv, NEW c \in Calls, WalkRead(c)
  PROVE  SessionIndInv'
  <1>. DEFINE t == calls[c].at
              onto == tokens[t].replacedBy
  <1>1. /\ calls[c].route = "chain" /\ calls[c].step = "read" /\ calls[c] \in SessionCall
        /\ calls \in [Calls -> SessionCall] /\ UNCHANGED <<tokens, retired, late>>
    BY DEF WalkRead, At, SessionIndInv, SessionTypes
  <1>2. /\ t \in Minted /\ tokens[t].held /\ Walks(calls[c]) /\ t \in Token
        /\ onto # None => onto \in Minted /\ tokens[onto].held /\ t < onto
    BY <1>1 DEF SessionIndInv, ChainInv, Walks, TokenInv, Minted
  <1>3. SessionSameRows
    BY <1>1 DEF SessionSameRows, SessionIndInv, SessionTypes, Minted
  <1>4. CASE tokens[t].revoked /\ Leaves(c, t, onto)
    <2>1. tokens'[t].revoked
      BY <1>1, <1>4
    <2>. HIDE DEF t, onto
    <2>2. calls[c].at = t
      BY DEF t
    <2>. QED  BY <1>1, <1>2, <1>3, <1>4, <2>1, <2>2, LeavesRow
  <1>5. CASE /\ ~tokens[t].revoked /\ UNCHANGED <<raced, ended>>
             /\ Moves(c, [route |-> "chain", step |-> "revoke", at |-> t, seen |-> calls[c].seen, onto |-> onto])
    <2>. DEFINE call == [route |-> "chain", step |-> "revoke", at |-> t, seen |-> calls[c].seen, onto |-> onto]
    <2>1. onto \in Token \cup {None} /\ calls[c].seen \subseteq Token
      BY <1>1, <1>2, ChainCall DEF Minted
    <2>2. call \in SessionCall
      BY <1>2, <2>1 DEF SessionCall
    <2>3. calls'[c] = call /\ ~Carries(c)
      BY <1>1, <1>5 DEF Moves, Carries
    <2>4. Walks(call)
      BY <1>2 DEF Walks
    <2>5. Advances(c)
      BY <2>3, <2>4 DEF Advances
    <2>6. raced' \subseteq Token /\ ended' \subseteq Minted
      BY <1>5 DEF SessionIndInv, SessionTypes, TokenInv
    <2>7. \A l \in ended' \ raced', u \in Minted : LoginOf(u) = l => tokens[u].revoked
      BY <1>1, <1>3, <1>5, StillNone
    <2>. QED  BY <1>1, <1>5, <2>2, <2>5, <2>6, <2>7, SessionCallStep
  <1>. QED  BY <1>4, <1>5 DEF WalkRead

LEMMA WalkRevokeStep ==
  ASSUME SessionIndInv, NEW c \in Calls, WalkRevoke(c)
  PROVE  SessionIndInv'
  <1>. DEFINE t == calls[c].at
              onto == calls[c].onto
  <1>1. calls[c].route = "chain" /\ calls[c].step = "revoke"
    BY DEF WalkRevoke, At
  <1>2. /\ t \in Minted
        /\ onto # None => onto \in Minted /\ tokens[onto].held /\ t < onto
    BY <1>1 DEF SessionIndInv, ChainInv, Walks
  <1>3. tokens' = Revoked(t) /\ Leaves(c, t, onto) /\ UNCHANGED <<retired, late>>
    BY DEF WalkRevoke
  <1>4. SessionSameRows /\ tokens'[t].revoked
    BY <1>2, <1>3, RevokeOne
  <1>. QED  BY <1>1, <1>2, <1>3, <1>4, LeavesRow

LEMMA SessionDiesStep ==
  ASSUME SessionIndInv, NEW c \in Calls, SessionDies(c)
  PROVE  SessionIndInv'
  <1>1. /\ Moves(c, Idle) /\ UNCHANGED <<tokens, retired, late, ended>>
        /\ raced' = IF Carries(c) THEN raced \cup {LoginOf(calls[c].old)} ELSE raced
        /\ calls \in [Calls -> SessionCall]
    BY DEF SessionDies, Ends, At, Carries, SessionIndInv, SessionTypes
  <1>2. calls'[c] = Idle
    BY <1>1 DEF Moves
  <1>3. Advances(c)
    BY <1>1, <1>2, SessionIdleCall DEF Advances
  <1>4. Carries(c) => LoginOf(calls[c].old) \in Token
    BY DEF SessionIndInv, RefreshInv, Carries, TokenInv, Minted
  <1>5. raced \subseteq raced' /\ raced' \subseteq Token /\ ended' \subseteq Minted
    BY <1>1, <1>4 DEF SessionIndInv, SessionTypes, TokenInv
  <1>6. SessionSameRows
    BY <1>1 DEF SessionSameRows, SessionIndInv, SessionTypes, Minted
  <1>7. \A l \in ended' \ raced', u \in Minted : LoginOf(u) = l => tokens[u].revoked
    BY <1>1, <1>5, <1>6, StillNone
  <1>. QED  BY <1>1, <1>3, <1>5, <1>7, SessionIdleCall, SessionCallStep

LEMMA SignInReadStep ==
  ASSUME SessionIndInv, NEW c \in Calls, NEW u \in Accounts, SignInRead(c, u)
  PROVE  SessionIndInv'
  <1>. DEFINE call == [route |-> "signin", step |-> "mint", user |-> u]
  <1>1. /\ Moves(c, call) /\ calls[c] = Idle /\ UNCHANGED <<tokens, retired, late, raced, ended>>
        /\ calls \in [Calls -> SessionCall]
    BY DEF SignInRead, Starts, IsIdle, SessionIndInv, SessionTypes
  <1>2. call \in SessionCall
    BY DEF SessionCall
  <1>3. Advances(c)
    BY <1>1, SessionIdleCall DEF Advances, Moves, Carries
  <1>4. SessionSameRows /\ raced' \subseteq Token /\ ended' \subseteq Minted
    BY <1>1 DEF SessionSameRows, SessionIndInv, SessionTypes, TokenInv, Minted
  <1>5. \A l \in ended' \ raced', t \in Minted : LoginOf(t) = l => tokens[t].revoked
    BY <1>1, <1>4, StillNone
  <1>. QED  BY <1>1, <1>2, <1>3, <1>4, <1>5, SessionCallStep

(* Steps of no handler: a client logs out, an account is retired or restored.*)
LEMMA OutsideSteps ==
  ASSUME SessionIndInv,
         \/ \E t \in Token : Logout(t)
         \/ \E s \in StaffAccounts : RetireAccount(s) \/ RestoreAccount(s)
  PROVE  SessionIndInv'
  <1>1. /\ retired \subseteq StaffAccounts /\ raced \subseteq Token /\ ended \subseteq Minted
        /\ calls \in [Calls -> SessionCall]
    BY DEF SessionIndInv, SessionTypes, TokenInv
  <1>2. ASSUME NEW t \in Token, Logout(t)  PROVE SessionIndInv'
    <2>1. t \in Minted /\ tokens' = Revoked(t) /\ UNCHANGED <<calls, retired, late, raced, ended>>
      BY <1>2 DEF Logout, Live
    <2>2. SessionSameRows
      BY <2>1, RevokeOne
    <2>. QED  BY <1>1, <2>1, <2>2, StillNone, Conservative
  <1>3. ASSUME NEW s \in StaffAccounts, RetireAccount(s)  PROVE SessionIndInv'
    <2>1. TokensOf(s) \in SUBSET Minted
      BY DEF TokensOf, Live
    <2>2. /\ retired' = retired \cup {s} /\ UNCHANGED <<calls, late, raced, ended>>
          /\ tokens' = [t \in Token |-> IF t \in TokensOf(s)
                                        THEN [tokens[t] EXCEPT !.revoked = TRUE] ELSE tokens[t]]
      BY <1>3 DEF RetireAccount
    <2>3. SessionSameRows /\ \A t \in TokensOf(s) : tokens'[t].revoked
      BY <2>1, <2>2, Revoking
    <2>4. \A t \in Minted : tokens[t].owner \in retired' /\ ~tokens'[t].revoked => t \in late
      BY <2>2, <2>3 DEF SessionSameRows, TokensOf, Live, SessionIndInv, NoSessionAfterRetirement
    <2>5. \A l \in ended \ raced, t \in Minted : LoginOf(t) = l => tokens'[t].revoked
      BY <2>3 DEF SessionSameRows, SessionIndInv, ReuseEndsTheSignIn, Live
    <2>. QED  BY <1>1, <2>2, <2>3, <2>4, <2>5, Conservative
  <1>4. ASSUME NEW s \in StaffAccounts, RestoreAccount(s)  PROVE SessionIndInv'
    <2>1. retired' \subseteq retired /\ UNCHANGED <<calls, tokens, late, raced, ended>>
      BY <1>4 DEF RestoreAccount
    <2>2. SessionSameRows
      BY <2>1 DEF SessionSameRows, SessionIndInv, SessionTypes, Minted
    <2>. QED  BY <1>1, <2>1, <2>2, StillNone, Conservative
  <1>. QED  BY <1>2, <1>3, <1>4

-----------------------------------------------------------------------------
LEMMA SessionStep == SessionIndInv /\ [SessionNext]_sessionVars => SessionIndInv'
  <1>. SUFFICES ASSUME SessionIndInv, [SessionNext]_sessionVars  PROVE SessionIndInv'
    OBVIOUS
  <1>1. ASSUME NEW c \in Calls, NEW u \in Accounts, SignInRead(c, u)  PROVE SessionIndInv'
    BY <1>1, SignInReadStep
  <1>2. ASSUME NEW c \in Calls, NEW t \in Token, RefreshRead(c, t)  PROVE SessionIndInv'
    BY <1>2, RefreshReadStep
  <1>3. ASSUME NEW c \in Calls,
               \/ SignInMint(c) \/ RefreshUser(c) \/ RefreshMint(c) \/ RefreshRevoke(c)
               \/ RefreshLink(c) \/ WalkRead(c) \/ WalkRevoke(c) \/ SessionDies(c)
        PROVE  SessionIndInv'
    BY <1>3, SignInMintStep, RefreshUserStep, RefreshMintStep, RefreshRevokeStep,
       RefreshLinkStep, WalkReadStep, WalkRevokeStep, SessionDiesStep
  <1>4. CASE UNCHANGED sessionVars
    BY <1>4 DEF sessionVars, SessionIndInv, SessionTypes, TokenInv, RefreshInv, ChainInv, Walks, Carries,
       Pairs, OneEnd, ReuseEndsTheSignIn, NoSessionAfterRetirement, Minted, Live, LoginOf
  <1>. QED  BY <1>1, <1>2, <1>3, <1>4, OutsideSteps DEF SessionNext

(* The inductive invariant: the shape of the chains, and what a rotation or  *)
(* a walk between its statements may rely on.                                *)
THEOREM SessionInvariance == SessionSpec => []SessionIndInv
  BY SessionInitially, SessionStep, PTL DEF SessionSpec

(* Rows and handlers have their types (auth.service.ts).                     *)
THEOREM SessionTypesHold == SessionSpec => []SessionTypes
  <1>1. SessionIndInv => SessionTypes
    BY DEF SessionIndInv
  <1>. QED  BY <1>1, SessionInvariance, PTL

(* Retirement and the revocation of sessions cannot come apart: a retired    *)
(* account has no live token but one created afterwards by a handler that    *)
(* had read it before (admin.service.ts, setOfficerActive).                  *)
THEOREM RetirementEndsSessions == SessionSpec => []NoSessionAfterRetirement
  <1>1. SessionIndInv => NoSessionAfterRetirement
    BY DEF SessionIndInv
  <1>. QED  BY <1>1, SessionInvariance, PTL

(* A sign-in has one live token, and none once a token of it was used twice  *)
(* and the walk is through - unless its rotations overlapped or died:        *)
(* however long the chain and however many walks are under way               *)
(* (auth.service.ts, refresh and revokeChain).                               *)
THEOREM SignInsAreRotated == SessionSpec => []SignInsRotate
  <1>1. ASSUME SessionIndInv  PROVE OneLiveTokenPerSignIn
    <2>. SUFFICES ASSUME NEW l \in Token \ raced, NEW t \in Live, NEW u \in Live,
                         LoginOf(t) = l, LoginOf(u) = l, t # u
                  PROVE  \E c \in Calls : /\ At(c, "refresh", "revoke")
                                          /\ {calls[c].old, calls[c].new} = {t, u}
      BY DEF OneLiveTokenPerSignIn
    <2>1. /\ t \in Minted /\ u \in Minted /\ ~tokens[t].revoked /\ ~tokens[u].revoked
          /\ tokens[t].replacedBy = None /\ tokens[u].replacedBy = None
      BY <1>1 DEF Live, SessionIndInv, TokenInv
    <2>2. PICK c \in Calls : Carries(c) /\ Pairs(c, t, u)
      BY <1>1, <2>1 DEF SessionIndInv, OneEnd
    <2>3. calls[c].step = "link" => tokens[calls[c].old].revoked
      BY <1>1, <2>2 DEF SessionIndInv, RefreshInv, Carries
    <2>. QED  BY <2>1, <2>2, <2>3 DEF Carries, Pairs, At
  <1>2. SessionIndInv => SignInsRotate
    BY <1>1 DEF SignInsRotate, SessionIndInv
  <1>. QED  BY <1>2, SessionInvariance, PTL

-----------------------------------------------------------------------------
(* What holds of signing in with a password for every set of users,        *)
(* passwords and handlers in flight, and every limit.                      *)

PasswordLoginOf(c, u) == calls[c].route = "login" /\ calls[c].user = u

(* As long as no two logins of a user overlap, the one in flight carries the *)
(* count of the row, and the row is not locked.                              *)
OneLogin(u) ==
  \A c \in Calls : PasswordLoginOf(c, u) =>
    /\ \A d \in Calls : PasswordLoginOf(d, u) => c = d
    /\ calls[c].seen = failures[u].attempts
    /\ ~failures[u].locked

(* The count of the row is the count of wrong passwords, which the lock      *)
(* starts again.                                                             *)
CountIsTrue(u) ==
  IF failures[u].locked THEN wrong[u] = PasswordMax /\ failures[u].attempts = 0
  ELSE wrong[u] = failures[u].attempts

PasswordLoginInv == \A u \in Users \ overlapped : OneLogin(u) /\ CountIsTrue(u)

PasswordIndInv == PasswordTypes /\ PasswordLoginInv

-----------------------------------------------------------------------------
(* The types of handlers.                                                    *)

LEMMA PasswordIdleCall == Idle \in PasswordCall /\ Idle.route = "none" /\ Idle.step = "idle"
  BY DEF Idle, PasswordCall

LEMMA PasswordLoginCall ==
  ASSUME NEW call \in PasswordCall, call.route = "login"
  PROVE  /\ call.user \in Users /\ call.seen \in 0..PasswordMax
         /\ call.step \in {"fail", "clear"}
  BY PasswordIdleCall DEF PasswordCall

LEMMA ChangeCall ==
  ASSUME NEW call \in PasswordCall, call.route = "change"
  PROVE  call.user \in Users /\ call.to \in Secrets
  BY PasswordIdleCall DEF PasswordCall

-----------------------------------------------------------------------------
LEMMA PasswordInitially == PasswordInit => PasswordIndInv
  <1>. SUFFICES ASSUME PasswordInit  PROVE PasswordIndInv
    OBVIOUS
  <1>1. PasswordTypes
    BY PasswordIdleCall, PasswordAssumption DEF PasswordInit, PasswordTypes
  <1>2. PasswordLoginInv
    BY PasswordIdleCall DEF PasswordInit, PasswordLoginInv, OneLogin, CountIsTrue, PasswordLoginOf
  <1>. QED  BY <1>1, <1>2 DEF PasswordIndInv

(* A handler that ends without a write leaves nobody's login disturbed, and  *)
(* so does one that changes a password.                                      *)
LEMMA EndsQuietly ==
  ASSUME PasswordIndInv, NEW c \in Calls, Ends(c), UNCHANGED <<failures, wrong, overlapped>>,
         password' \in [Users -> Secrets \cup {None}]
  PROVE  PasswordIndInv'
  <1>1. calls' = [calls EXCEPT ![c] = Idle] /\ calls \in [Calls -> PasswordCall]
    BY DEF Ends, Moves, PasswordIndInv, PasswordTypes
  <1>2. PasswordTypes'
    BY <1>1, PasswordIdleCall DEF PasswordIndInv, PasswordTypes
  <1>3. ASSUME NEW d \in Calls, NEW u, PasswordLoginOf(d, u)'  PROVE PasswordLoginOf(d, u) /\ calls'[d] = calls[d]
    BY <1>1, <1>3, PasswordIdleCall DEF PasswordLoginOf
  <1>4. PasswordLoginInv'
    BY <1>3 DEF PasswordIndInv, PasswordLoginInv, OneLogin, CountIsTrue
  <1>. QED  BY <1>2, <1>4 DEF PasswordIndInv

LEMMA LoginReadStep ==
  ASSUME PasswordIndInv, NEW c \in Calls, NEW u \in Users, NEW typed \in Secrets, LoginRead(c, u, typed)
  PROVE  PasswordIndInv'
  <1>. DEFINE call == [route |-> "login", step |-> IF typed = password[u] THEN "clear" ELSE "fail",
                       user |-> u, seen |-> failures[u].attempts]
  <1>1. /\ calls[c] = Idle /\ calls' = [calls EXCEPT ![c] = call]
        /\ calls \in [Calls -> PasswordCall] /\ ~failures[u].locked
        /\ UNCHANGED <<password, failures, wrong>>
    BY DEF LoginRead, Starts, IsIdle, Moves, PasswordIndInv, PasswordTypes
  <1>2. call \in PasswordCall
    BY PasswordAssumption DEF PasswordCall, PasswordIndInv, PasswordTypes
  <1>3. overlapped' \subseteq Users /\ overlapped \subseteq overlapped'
    BY DEF LoginRead, PasswordIndInv, PasswordTypes
  <1>4. PasswordTypes'
    BY <1>1, <1>2, <1>3 DEF PasswordIndInv, PasswordTypes
  <1>5. ASSUME NEW v \in Users \ overlapped'  PROVE OneLogin(v)' /\ CountIsTrue(v)'
    <2>1. v \in Users \ overlapped /\ OneLogin(v) /\ CountIsTrue(v)
      BY <1>3, <1>5 DEF PasswordIndInv, PasswordLoginInv
    <2>2. CountIsTrue(v)'
      BY <1>1, <2>1 DEF CountIsTrue
    <2>3. ASSUME NEW d \in Calls, d # c  PROVE calls'[d] = calls[d]
      BY <1>1, <2>3
    <2>4. calls'[c] = call /\ call.route = "login" /\ call.user = u /\ call.seen = failures[u].attempts
      BY <1>1
    <2>5. CASE v = u
      <3>1. \A d \in Calls : ~PasswordLoginOf(d, u)
        BY <1>5, <2>5 DEF LoginRead, PasswordLoginOf
      <3>2. \A d \in Calls : PasswordLoginOf(d, u)' => d = c
        BY <2>3, <3>1 DEF PasswordLoginOf
      <3>. QED  BY <1>1, <2>2, <2>4, <2>5, <3>2 DEF OneLogin
    <2>6. CASE v # u
      <3>1. \A d \in Calls : PasswordLoginOf(d, v)' => PasswordLoginOf(d, v) /\ calls'[d] = calls[d]
        BY <2>3, <2>4, <2>6 DEF PasswordLoginOf
      <3>. QED  BY <1>1, <2>1, <2>2, <3>1 DEF OneLogin
    <2>. QED  BY <2>5, <2>6
  <1>. QED  BY <1>4, <1>5 DEF PasswordIndInv, PasswordLoginInv

-----------------------------------------------------------------------------
(* A login that answers: the row gets a count that is the history's, and no  *)
(* other login of the user is left.                                          *)
LEMMA LoginAnswers ==
  ASSUME PasswordIndInv, NEW c \in Calls, NEW u \in Users, PasswordLoginOf(c, u), Ends(c),
         UNCHANGED <<password, overlapped>>,
         NEW f \in [attempts : 0..PasswordMax - 1, locked : BOOLEAN], NEW n \in 0..PasswordMax + 1,
         failures' = [failures EXCEPT ![u] = f], wrong' = [wrong EXCEPT ![u] = n],
         u \notin overlapped => IF f.locked THEN n = PasswordMax /\ f.attempts = 0 ELSE n = f.attempts
  PROVE  PasswordIndInv'
  <1>1. calls' = [calls EXCEPT ![c] = Idle] /\ calls \in [Calls -> PasswordCall]
    BY DEF Ends, Moves, PasswordIndInv, PasswordTypes
  <1>2. PasswordTypes'
    BY <1>1, PasswordIdleCall DEF PasswordIndInv, PasswordTypes
  <1>3. ASSUME NEW v \in Users \ overlapped'  PROVE OneLogin(v)' /\ CountIsTrue(v)'
    <2>1. OneLogin(v) /\ CountIsTrue(v) /\ v \notin overlapped
      BY <1>3 DEF PasswordIndInv, PasswordLoginInv
    <2>2. \A d \in Calls : PasswordLoginOf(d, v)' => d # c /\ PasswordLoginOf(d, v) /\ calls'[d] = calls[d]
      BY <1>1, PasswordIdleCall DEF PasswordLoginOf
    <2>3. CASE v = u
      <3>1. \A d \in Calls : ~PasswordLoginOf(d, u)'
        BY <2>1, <2>2, <2>3 DEF OneLogin
      <3>2. failures'[u] = f /\ wrong'[u] = n
        BY DEF PasswordIndInv, PasswordTypes
      <3>. QED  BY <2>1, <2>3, <3>1, <3>2 DEF OneLogin, CountIsTrue
    <2>4. CASE v # u
      <3>1. failures'[v] = failures[v] /\ wrong'[v] = wrong[v]
        BY <2>4 DEF PasswordIndInv, PasswordTypes
      <3>. QED  BY <2>1, <2>2, <3>1 DEF OneLogin, CountIsTrue
    <2>. QED  BY <2>3, <2>4
  <1>. QED  BY <1>2, <1>3 DEF PasswordIndInv, PasswordLoginInv

LEMMA LoginFailStep ==
  ASSUME PasswordIndInv, NEW c \in Calls, LoginFail(c)
  PROVE  PasswordIndInv'
  <1>. DEFINE u == calls[c].user
              n == calls[c].seen + 1
              f == [attempts |-> IF Locks(n) THEN 0 ELSE n, locked |-> Locks(n)]
              w == IF wrong[u] > PasswordMax THEN wrong[u] ELSE wrong[u] + 1
  <1>1. calls[c] \in PasswordCall /\ calls[c].route = "login"
    BY DEF LoginFail, At, PasswordIndInv, PasswordTypes
  <1>2. u \in Users /\ PasswordLoginOf(c, u) /\ calls[c].seen \in 0..PasswordMax
    BY <1>1, PasswordLoginCall DEF PasswordLoginOf
  <1>3. f \in [attempts : 0..PasswordMax - 1, locked : BOOLEAN]
    BY <1>2, PasswordAssumption DEF Locks
  <1>4. wrong[u] \in 0..PasswordMax + 1 /\ w \in 0..PasswordMax + 1
    BY <1>2, PasswordAssumption DEF PasswordIndInv, PasswordTypes
  <1>5. ASSUME u \notin overlapped
        PROVE  IF f.locked THEN w = PasswordMax /\ f.attempts = 0 ELSE w = f.attempts
    <2>1. /\ calls[c].seen = failures[u].attempts /\ wrong[u] = failures[u].attempts
          /\ failures[u].attempts \in 0..PasswordMax - 1
      BY <1>2, <1>5 DEF PasswordIndInv, PasswordLoginInv, OneLogin, CountIsTrue, PasswordTypes
    <2>2. CASE Locks(n)
      <3>1. f.locked /\ f.attempts = 0
        BY <2>2, Zenon
      <3>2. n >= PasswordMax
        BY <2>2 DEF Locks
      <3>3. w = PasswordMax
        BY <2>1, <3>2, PasswordAssumption
      <3>. QED  BY <3>1, <3>3
    <2>3. CASE ~Locks(n)
      <3>1. ~f.locked /\ f.attempts = n
        BY <2>3, Zenon
      <3>2. w = n
        BY <2>1, PasswordAssumption
      <3>. QED  BY <3>1, <3>2
    <2>. QED  BY <2>2, <2>3
  <1>6. /\ failures' = [failures EXCEPT ![u] = f] /\ wrong' = [wrong EXCEPT ![u] = w]
        /\ Ends(c) /\ UNCHANGED <<password, overlapped>>
    BY DEF LoginFail
  <1>. QED  BY <1>2, <1>3, <1>4, <1>5, <1>6, LoginAnswers

LEMMA LoginClearStep ==
  ASSUME PasswordIndInv, NEW c \in Calls, LoginClear(c)
  PROVE  PasswordIndInv'
  <1>. DEFINE u == calls[c].user
              f == [attempts |-> 0, locked |-> FALSE]
  <1>1. calls[c] \in PasswordCall /\ calls[c].route = "login"
    BY DEF LoginClear, At, PasswordIndInv, PasswordTypes
  <1>2. u \in Users /\ PasswordLoginOf(c, u)
    BY <1>1, PasswordLoginCall DEF PasswordLoginOf
  <1>3. f \in [attempts : 0..PasswordMax - 1, locked : BOOLEAN] /\ 0 \in 0..PasswordMax + 1
    BY PasswordAssumption
  <1>4. /\ failures' = [failures EXCEPT ![u] = f] /\ wrong' = [wrong EXCEPT ![u] = 0]
        /\ Ends(c) /\ UNCHANGED <<password, overlapped>>
    BY DEF LoginClear
  <1>. QED  BY <1>2, <1>3, <1>4, LoginAnswers

(* A lock that passes: nobody who could sign in was signing in.              *)
LEMMA LockPassesStep ==
  ASSUME PasswordIndInv, NEW u \in Users, LoginLockPasses(u)
  PROVE  PasswordIndInv'
  <1>. DEFINE f == [failures[u] EXCEPT !.locked = FALSE]
              FailureRow == [attempts : 0..PasswordMax - 1, locked : BOOLEAN]
  <1>1. PasswordTypes'
    <2>0. failures[u] \in FailureRow
      BY DEF PasswordIndInv, PasswordTypes
    <2>1. f \in FailureRow /\ 0 \in 0..PasswordMax + 1
      <3>. HIDE DEF FailureRow
      <3>1. ASSUME NEW r \in FailureRow  PROVE [r EXCEPT !.locked = FALSE] \in FailureRow
        <4>1. FALSE \in BOOLEAN
          OBVIOUS
        <4>. QED  BY <4>1, Zenon DEF FailureRow
      <3>2. 0 \in 0..PasswordMax + 1
        BY PasswordAssumption
      <3>. QED  BY <2>0, <3>1, <3>2
    <2>2. failures' = [failures EXCEPT ![u] = f] /\ wrong' = [wrong EXCEPT ![u] = 0]
      BY DEF LoginLockPasses
    <2>. QED  BY <2>1, <2>2 DEF LoginLockPasses, PasswordIndInv, PasswordTypes
  <1>2. ASSUME NEW v \in Users \ overlapped'  PROVE OneLogin(v)' /\ CountIsTrue(v)'
    <2>1. OneLogin(v) /\ CountIsTrue(v) /\ UNCHANGED calls
      BY <1>2 DEF PasswordIndInv, PasswordLoginInv, LoginLockPasses
    <2>2. CASE v = u
      <3>0. failures[u] \in [attempts : 0..PasswordMax - 1, locked : BOOLEAN]
        BY DEF PasswordIndInv, PasswordTypes
      <3>1. /\ failures[u].locked /\ failures'[u].attempts = failures[u].attempts
            /\ ~failures'[u].locked /\ wrong'[u] = 0
        <4>1. failures'[u] = f /\ wrong'[u] = 0 /\ failures[u].locked
          BY DEF LoginLockPasses, PasswordIndInv, PasswordTypes
        <4>2. f.attempts = failures[u].attempts /\ ~f.locked
          BY <3>0
        <4>. QED  BY <4>1, <4>2
      <3>2. \A d \in Calls : ~PasswordLoginOf(d, u)'
        BY <2>1, <2>2, <3>1 DEF OneLogin, PasswordLoginOf
      <3>. QED  BY <2>1, <2>2, <3>1, <3>2 DEF OneLogin, CountIsTrue
    <2>3. CASE v # u
      <3>1. failures'[v] = failures[v] /\ wrong'[v] = wrong[v]
        BY <2>3 DEF LoginLockPasses, PasswordIndInv, PasswordTypes
      <3>. QED  BY <2>1, <3>1 DEF OneLogin, CountIsTrue, PasswordLoginOf
    <2>. QED  BY <2>2, <2>3
  <1>. QED  BY <1>1, <1>2 DEF PasswordIndInv, PasswordLoginInv

LEMMA ChangeReadStep ==
  ASSUME PasswordIndInv, NEW c \in Calls, NEW u \in Users, NEW new \in Secrets, ChangeRead(c, u, new)
  PROVE  PasswordIndInv'
  <1>. DEFINE call == [route |-> "change", step |-> "set", user |-> u, to |-> new]
  <1>1. /\ calls' = [calls EXCEPT ![c] = call] /\ calls \in [Calls -> PasswordCall]
        /\ UNCHANGED <<password, failures, wrong, overlapped>>
    BY DEF ChangeRead, Starts, Moves, PasswordIndInv, PasswordTypes
  <1>2. call \in PasswordCall /\ call.route # "login"
    BY DEF PasswordCall
  <1>3. PasswordTypes'
    BY <1>1, <1>2 DEF PasswordIndInv, PasswordTypes
  <1>4. \A d \in Calls, v \in Users : PasswordLoginOf(d, v)' => PasswordLoginOf(d, v) /\ calls'[d] = calls[d]
    BY <1>1, <1>2 DEF PasswordLoginOf
  <1>5. PasswordLoginInv'
    BY <1>1, <1>4 DEF PasswordIndInv, PasswordLoginInv, OneLogin, CountIsTrue
  <1>. QED  BY <1>3, <1>5 DEF PasswordIndInv

LEMMA ChangeSetStep ==
  ASSUME PasswordIndInv, NEW c \in Calls, ChangeSet(c)
  PROVE  PasswordIndInv'
  <1>1. calls[c] \in PasswordCall /\ calls[c].route = "change"
    BY DEF ChangeSet, At, PasswordIndInv, PasswordTypes
  <1>2. calls[c].user \in Users /\ calls[c].to \in Secrets
    BY <1>1, ChangeCall
  <1>3. password' \in [Users -> Secrets \cup {None}]
    BY <1>2 DEF ChangeSet, PasswordIndInv, PasswordTypes
  <1>. QED  BY <1>3, EndsQuietly DEF ChangeSet

-----------------------------------------------------------------------------
LEMMA PasswordStep == PasswordIndInv /\ [PasswordNext]_passwordVars => PasswordIndInv'
  <1>. SUFFICES ASSUME PasswordIndInv, [PasswordNext]_passwordVars  PROVE PasswordIndInv'
    OBVIOUS
  <1>1. ASSUME NEW c \in Calls, NEW u \in Users, NEW s \in Secrets, LoginRead(c, u, s)  PROVE PasswordIndInv'
    BY <1>1, LoginReadStep
  <1>2. ASSUME NEW c \in Calls, NEW u \in Users, NEW s \in Secrets, ChangeRead(c, u, s)  PROVE PasswordIndInv'
    BY <1>2, ChangeReadStep
  <1>3. ASSUME NEW c \in Calls, LoginFail(c)  PROVE PasswordIndInv'
    BY <1>3, LoginFailStep
  <1>4. ASSUME NEW c \in Calls, LoginClear(c)  PROVE PasswordIndInv'
    BY <1>4, LoginClearStep
  <1>5. ASSUME NEW c \in Calls, ChangeSet(c)  PROVE PasswordIndInv'
    BY <1>5, ChangeSetStep
  <1>6. ASSUME NEW c \in Calls, PasswordDies(c)  PROVE PasswordIndInv'
    BY <1>6, EndsQuietly DEF PasswordDies, PasswordIndInv, PasswordTypes
  <1>7. ASSUME NEW u \in Users, LoginLockPasses(u)  PROVE PasswordIndInv'
    BY <1>7, LockPassesStep
  <1>8. CASE UNCHANGED passwordVars
    BY <1>8 DEF passwordVars, PasswordIndInv, PasswordTypes, PasswordLoginInv, OneLogin, CountIsTrue, PasswordLoginOf
  <1>. QED  BY <1>1, <1>2, <1>3, <1>4, <1>5, <1>6, <1>7, <1>8 DEF PasswordNext

(* The inductive invariant: what a login in flight may rely on, and what the *)
(* row's count says of the passwords that were typed.                        *)
THEOREM PasswordInvariance == PasswordSpec => []PasswordIndInv
  BY PasswordInitially, PasswordStep, PTL DEF PasswordSpec

(* Every account and every handler of it keeps its type: a counter never     *)
(* reaches the limit it is compared with (auth.service.ts, customerLogin).   *)
THEOREM PasswordTypesHold == PasswordSpec => []PasswordTypes
  <1>1. PasswordIndInv => PasswordTypes
    BY DEF PasswordIndInv
  <1>. QED  BY <1>1, PasswordInvariance, PTL

(* Wrong passwords in a row lock an account when they reach the limit and    *)
(* not before, unless two logins of it overlapped: for any limit.            *)
THEOREM LocksAtTheLimit == PasswordSpec => []LockAtTheLimit
  <1>1. PasswordIndInv => LockAtTheLimit
    <2>. SUFFICES ASSUME PasswordIndInv, NEW u \in Users \ overlapped
                  PROVE  wrong[u] <= PasswordMax /\ (failures[u].locked <=> wrong[u] = PasswordMax)
      BY DEF LockAtTheLimit
    <2>1. CountIsTrue(u) /\ failures[u] \in [attempts : 0..PasswordMax - 1, locked : BOOLEAN]
      BY DEF PasswordIndInv, PasswordLoginInv, PasswordTypes
    <2>. QED  BY <2>1, PasswordAssumption DEF CountIsTrue
  <1>. QED  BY <1>1, PasswordInvariance, PTL

-----------------------------------------------------------------------------


(* What a handler of a code may be about to do, route by route.              *)
CodeCallShape(call) ==
  \/ call = Idle
  \/ /\ call \in [route : CodeRoutes, step : {"guess"}, row : OtpRow, code : Code]
     /\ call.row.code = call.code /\ call.row.attempts < CodeMax
  \/ call \in [route : {"register", "confirm", "token"}, step : {"set", "wipe"}, code : Code]
  \/ call \in [route : {"verify"}, step : {"reset"}, code : Code]

CodeShapes == \A c \in Calls : CodeCallShape(calls[c])

(* A code is one row; it is written down no later than it is sent, and       *)
(* nothing is known of a code that is still to come.                         *)
CodesAreSent ==
  /\ \A r \in otpRows : r.code <= sent /\ (r.attempts = CodeMax => r.locked)
  /\ \A r, q \in otpRows : r.code = q.code => r = q
  /\ \A k \in Code : k > sent =>
       guesses[k] = 0 /\ opened[k] = 0 /\ \A c \in Calls : ~WorksFrom(c, k)

(* The row of a code counts the wrong guesses at it.                         *)
RowCounts(k) ==
  \A r \in otpRows : r.code = k =>
    r.attempts = guesses[k] /\ (r.locked <=> guesses[k] = CodeMax)

(* The one handler that works from a code: the row is as it read it, and the *)
(* password is not set before the handler gets there.                        *)
Bearer(k) ==
  \A c \in Calls : WorksFrom(c, k) =>
    /\ \A d \in Calls : WorksFrom(d, k) => c = d
    /\ \A r \in otpRows : r.code = k =>
         /\ ~r.locked
         /\ calls[c].step = "guess" => calls[c].row = r
         /\ ~At(c, "register", "set")
    /\ ~At(c, "confirm", "wipe") => opened[k] = 0

(* A code that has set a password is gone, or its handler is about to remove *)
(* it.                                                                       *)
OpenedOnce(k) ==
  /\ opened[k] <= 1
  /\ opened[k] = 1 =>
       \/ \A r \in otpRows : r.code # k
       \/ \E c \in Calls : At(c, "confirm", "wipe") /\ WorksFrom(c, k)

CodeKept(k) == RowCounts(k) /\ Bearer(k) /\ OpenedOnce(k)

CodeInv ==
  /\ CodeTypes /\ CodeShapes /\ CodesAreSent
  /\ \A k \in Code \ shared : CodeKept(k)

-----------------------------------------------------------------------------
LEMMA CodeShapeTypes ==
  /\ \A call : CodeCallShape(call) => call \in CodeCall
  /\ Idle.route = "none" /\ Idle.step = "idle" /\ CodeCallShape(Idle)
  BY DEF CodeCallShape, CodeCall, CodeRoutes, Idle

(* A handler that goes on, or ends, and whom it leaves alone.                *)
LEMMA CodeMoves ==
  ASSUME CodeInv, NEW c \in Calls, NEW call, CodeCallShape(call), Moves(c, call)
  PROVE  /\ calls' \in [Calls -> CodeCall] /\ CodeShapes' /\ calls'[c] = call
         /\ \A d \in Calls : d # c => calls'[d] = calls[d]
  <1>1. /\ calls' = [calls EXCEPT ![c] = call] /\ calls \in [Calls -> CodeCall]
        /\ call \in CodeCall
    BY CodeShapeTypes DEF Moves, CodeInv, CodeTypes
  <1>2. \A d \in Calls : d # c => calls'[d] = calls[d]
    BY <1>1
  <1>3. CodeShapes'
    BY <1>1, <1>2 DEF CodeInv, CodeShapes
  <1>. QED  BY <1>1, <1>2, <1>3

LEMMA CodeInitially == CodeInit => CodeInv
  <1>. SUFFICES ASSUME CodeInit  PROVE CodeInv
    OBVIOUS
  <1>0. \A c \in Calls : calls[c] = Idle
    BY DEF CodeInit
  <1>1. CodeShapes
    BY <1>0, CodeShapeTypes DEF CodeShapes
  <1>2. CodeTypes
    BY CodeShapeTypes, CodeAssumption DEF CodeInit, CodeTypes, Code
  <1>3. CodesAreSent
    BY <1>0 DEF CodeInit, CodesAreSent, Code, WorksFrom, IsIdle
  <1>4. \A k \in Code : CodeKept(k)
    BY <1>0 DEF CodeInit, CodeKept, RowCounts, Bearer, OpenedOnce, WorksFrom, IsIdle
  <1>. QED  BY <1>1, <1>2, <1>3, <1>4 DEF CodeInv

LEMMA RequestCodeStep ==
  ASSUME CodeInv, RequestCode
  PROVE  CodeInv'
  <1>. DEFINE row == [code |-> sent + 1, attempts |-> 0, locked |-> FALSE]
  <1>1. /\ otpRows' = otpRows \cup {row} /\ sent' = sent + 1 /\ sent + 1 \in Code
        /\ sent \in 0..MaxCodes
        /\ UNCHANGED <<calls, resetTokens, guesses, opened, shared>>
    BY CodeAssumption DEF RequestCode, Code, CodeInv, CodeTypes
  <1>2. row \in OtpRow
    <2>1. FALSE \in BOOLEAN /\ 0 \in 0..CodeMax /\ sent + 1 \in Code
      BY <1>1, CodeAssumption
    <2>. QED  BY <2>1, Zenon DEF OtpRow
  <1>3. CodeTypes' /\ CodeShapes'
    <2>1. sent' \in 0..MaxCodes
      BY <1>1 DEF Code
    <2>2. otpRows' \subseteq OtpRow
      BY <1>1, <1>2 DEF CodeInv, CodeTypes
    <2>. QED  BY <1>1, <2>1, <2>2 DEF CodeInv, CodeTypes, CodeShapes
  <1>4. row.code = sent + 1 /\ row.attempts = 0 /\ ~row.locked
    BY Zenon
  <1>. HIDE DEF row
  <1>5. CodesAreSent'
    <2>1. \A r \in otpRows : r.code \in Code /\ r.code <= sent
      BY DEF CodeInv, CodesAreSent, CodeTypes, OtpRow
    <2>2. \A r \in otpRows' : r.code <= sent' /\ (r.attempts = CodeMax => r.locked)
      BY <1>1, <1>4, <2>1, CodeAssumption DEF Code, CodeInv, CodesAreSent
    <2>3. \A r, q \in otpRows' : r.code = q.code => r = q
      <3>. SUFFICES ASSUME NEW r \in otpRows', NEW q \in otpRows', r.code = q.code  PROVE r = q
        OBVIOUS
      <3>1. CASE r \in otpRows /\ q \in otpRows
        BY <3>1 DEF CodeInv, CodesAreSent
      <3>2. CASE r = row \/ q = row
        BY <1>1, <1>4, <2>1, <3>2 DEF Code
      <3>. QED  BY <1>1, <3>1, <3>2
    <2>4. \A k \in Code : k > sent' =>
            guesses'[k] = 0 /\ opened'[k] = 0 /\ \A c \in Calls : ~WorksFrom(c, k)'
      <3>. SUFFICES ASSUME NEW k \in Code, k > sent'
                    PROVE  guesses[k] = 0 /\ opened[k] = 0 /\ \A c \in Calls : ~WorksFrom(c, k)
        BY <1>1 DEF WorksFrom, IsIdle
      <3>1. k > sent
        BY <1>1 DEF Code
      <3>. QED  BY <3>1 DEF CodeInv, CodesAreSent
    <2>. QED  BY <2>2, <2>3, <2>4 DEF CodesAreSent
  <1>6. ASSUME NEW k \in Code \ shared'  PROVE CodeKept(k)'
    <2>1. CodeKept(k) /\ k \in Code
      BY <1>1, <1>6 DEF CodeInv
    <2>2. CASE k = sent + 1
      <3>1. sent + 1 > sent
        BY <1>1 DEF Code
      <3>2. guesses[k] = 0 /\ opened[k] = 0 /\ \A c \in Calls : ~WorksFrom(c, k)
        BY <2>1, <2>2, <3>1 DEF CodeInv, CodesAreSent
      <3>3. \A r \in otpRows' : r.code = k => r = row
        BY <1>1, <2>2, <3>1 DEF CodeInv, CodesAreSent, Code
      <3>4. RowCounts(k)'
        BY <1>1, <1>4, <3>2, <3>3, CodeAssumption DEF RowCounts
      <3>. QED  BY <1>1, <3>2, <3>4 DEF CodeKept, Bearer, OpenedOnce, WorksFrom, IsIdle
    <2>3. CASE k # sent + 1
      <3>1. \A r \in otpRows' : r.code = k => r \in otpRows
        BY <1>1, <1>4, <2>3
      <3>. QED  BY <1>1, <2>1, <3>1 DEF CodeKept, RowCounts, Bearer, OpenedOnce, WorksFrom, IsIdle, At
    <2>. QED  BY <2>2, <2>3
  <1>. QED  BY <1>3, <1>5, <1>6 DEF CodeInv

(* What is kept of a code of which no handler's work, and no row, has        *)
(* changed.                                                                  *)
LEMMA CodeUntouched ==
  ASSUME NEW k \in Code, CodeKept(k), guesses'[k] = guesses[k], opened'[k] = opened[k],
         \A d \in Calls : WorksFrom(d, k) \/ WorksFrom(d, k)' => calls'[d] = calls[d],
         \A r \in otpRows' : r.code = k => r \in otpRows
  PROVE  CodeKept(k)'
  <1>1. \A d \in Calls : WorksFrom(d, k)' => WorksFrom(d, k)
    BY DEF WorksFrom, IsIdle
  <1>2. RowCounts(k)'
    BY DEF CodeKept, RowCounts
  <1>3. Bearer(k)'
    <2>. SUFFICES ASSUME NEW c \in Calls, WorksFrom(c, k)'
                  PROVE  /\ \A d \in Calls : WorksFrom(d, k)' => c = d
                         /\ \A r \in otpRows' : r.code = k =>
                              /\ ~r.locked
                              /\ calls'[c].step = "guess" => calls'[c].row = r
                              /\ ~At(c, "register", "set")'
                         /\ ~At(c, "confirm", "wipe")' => opened'[k] = 0
      BY DEF Bearer
    <2>1. WorksFrom(c, k) /\ calls'[c] = calls[c]
      BY <1>1
    <2>. QED  BY <1>1, <2>1 DEF CodeKept, Bearer, At
  <1>4. OpenedOnce(k)'
    <2>1. opened[k] = 1 =>
            \/ \A r \in otpRows' : r.code # k
            \/ \E c \in Calls : At(c, "confirm", "wipe") /\ WorksFrom(c, k)
      BY DEF CodeKept, OpenedOnce
    <2>2. ASSUME NEW c \in Calls, At(c, "confirm", "wipe"), WorksFrom(c, k)
          PROVE  At(c, "confirm", "wipe")' /\ WorksFrom(c, k)'
      BY <2>2 DEF At, WorksFrom, IsIdle
    <2>. QED  BY <2>1, <2>2 DEF CodeKept, OpenedOnce
  <1>. QED  BY <1>2, <1>3, <1>4 DEF CodeKept

LEMMA CodeReadStep ==
  ASSUME CodeInv, NEW c \in Calls, NEW route \in CodeRoutes, NEW guess \in 0..MaxCodes,
         CodeRead(c, route, guess)
  PROVE  CodeInv'
  <1>1. PICK row \in otpRows :
          /\ IsNewest(row) /\ ~row.locked
          /\ Starts(c, IF guess = row.code THEN WithCode(route, FirstStep(route), row.code)
                       ELSE [route |-> route, step |-> "guess", row |-> row, code |-> row.code])
          /\ shared' = IF \E d \in Calls : WorksFrom(d, row.code)
                       THEN shared \cup {row.code} ELSE shared
          /\ UNCHANGED <<otpRows, sent, resetTokens, guesses, opened>>
    BY DEF CodeRead
  <1>2. row \in OtpRow /\ row.code \in Code /\ row.attempts < CodeMax
    BY <1>1, CodeAssumption DEF CodeInv, CodeTypes, CodesAreSent, OtpRow
  <1>3. PICK call : /\ Starts(c, call) /\ CodeCallShape(call) /\ call # Idle
                    /\ call.route = route /\ call.route # "token" /\ call.code = row.code
                    /\ call.step \in {"guess", "wipe", "set", "reset"}
                    /\ call.step = "guess" => call.row = row
                    /\ ~(call.route = "register" /\ call.step = "set")
                    /\ ~(call.route = "confirm" /\ call.step = "wipe")
    <2>1. CASE guess = row.code
      <3>. DEFINE call == WithCode(route, FirstStep(route), row.code)
      <3>1. Starts(c, call)
        BY <1>1, <2>1
      <3>2. call.route = route /\ call.step = FirstStep(route) /\ call.code = row.code
        BY DEF WithCode
      <3>3. /\ route = "register" => FirstStep(route) = "wipe"
            /\ route = "confirm" => FirstStep(route) = "set"
            /\ route = "verify" => FirstStep(route) = "reset"
            /\ route \in {"register", "confirm", "verify"}
        BY DEF FirstStep, CodeRoutes
      <3>4. CodeCallShape(call)
        BY <1>2, <3>3 DEF WithCode, CodeCallShape
      <3>5. call # Idle
        BY <3>2, <3>3 DEF Idle
      <3>. HIDE DEF call
      <3>. QED  BY <3>1, <3>2, <3>3, <3>4, <3>5
    <2>2. CASE guess # row.code
      <3>. DEFINE call == [route |-> route, step |-> "guess", row |-> row, code |-> row.code]
      <3>1. Starts(c, call)
        BY <1>1, <2>2
      <3>2. CodeCallShape(call)
        BY <1>2 DEF CodeCallShape
      <3>3. call # Idle /\ route # "token"
        BY DEF Idle, CodeRoutes
      <3>4. call.route = route /\ call.step = "guess" /\ call.code = row.code /\ call.row = row
        OBVIOUS
      <3>. HIDE DEF call
      <3>. QED  BY <3>1, <3>2, <3>3, <3>4
    <2>. QED  BY <2>1, <2>2
  <1>4. /\ calls' \in [Calls -> CodeCall] /\ CodeShapes' /\ calls'[c] = call
        /\ \A d \in Calls : d # c => calls'[d] = calls[d]
        /\ calls[c] = Idle
    BY <1>3, CodeMoves DEF Starts, IsIdle
  <1>5. shared' \subseteq Code /\ shared \subseteq shared'
    BY <1>1, <1>2 DEF CodeInv, CodeTypes
  <1>6. CodeTypes'
    BY <1>1, <1>4, <1>5 DEF CodeInv, CodeTypes
  <1>7. \A k : ~WorksFrom(c, k) /\ (WorksFrom(c, k)' <=> k = row.code)
    BY <1>3, <1>4 DEF WorksFrom, IsIdle
  <1>8. \A d \in Calls : \A k : d # c => (WorksFrom(d, k)' <=> WorksFrom(d, k))
    BY <1>4 DEF WorksFrom, IsIdle
  <1>9. CodesAreSent'
    <2>1. row.code <= sent /\ sent \in 0..MaxCodes
      BY DEF CodeInv, CodesAreSent, CodeTypes
    <2>2. ASSUME NEW k \in Code, k > sent, NEW d \in Calls  PROVE ~WorksFrom(d, k)'
      BY <1>2, <1>7, <1>8, <2>1, <2>2 DEF CodeInv, CodesAreSent, Code
    <2>. QED  BY <1>1, <2>2 DEF CodeInv, CodesAreSent
  <1>10. ASSUME NEW k \in Code \ shared'  PROVE CodeKept(k)'
    <2>1. CodeKept(k)
      BY <1>5, <1>10 DEF CodeInv
    <2>2. CASE k = row.code
      <3>1. \A d \in Calls : ~WorksFrom(d, k)
        BY <1>1, <1>10, <2>2
      <3>2. \A d \in Calls : WorksFrom(d, k)' => d = c
        BY <1>8, <3>1
      <3>3. opened[k] = 0
        <4>1. opened[k] # 1
          BY <2>1, <2>2, <3>1 DEF CodeKept, OpenedOnce
        <4>. QED  BY <2>1, <4>1 DEF CodeKept, OpenedOnce, CodeInv, CodeTypes
      <3>4. \A r \in otpRows : r.code = k => r = row
        BY <2>2 DEF CodeInv, CodesAreSent
      <3>5. RowCounts(k)' /\ OpenedOnce(k)'
        BY <1>1, <2>1, <3>3 DEF CodeKept, RowCounts, OpenedOnce
      <3>6. Bearer(k)'
        <4>1. \A r \in otpRows' : r.code = k => r = row /\ ~r.locked
          BY <1>1, <3>4
        <4>2. ~At(c, "register", "set")' /\ (calls'[c].step = "guess" => calls'[c].row = row)
          BY <1>3, <1>4 DEF At
        <4>. QED  BY <1>1, <3>2, <3>3, <4>1, <4>2 DEF Bearer
      <3>. QED  BY <3>5, <3>6 DEF CodeKept
    <2>3. CASE k # row.code
      <3>1. \A d \in Calls : WorksFrom(d, k) \/ WorksFrom(d, k)' => calls'[d] = calls[d]
        BY <1>4, <1>7, <2>3
      <3>. QED  BY <1>1, <2>1, <3>1, CodeUntouched
    <2>. QED  BY <2>2, <2>3
  <1>. QED  BY <1>4, <1>6, <1>9, <1>10 DEF CodeInv

-----------------------------------------------------------------------------
(* The one handler at work on a code: nothing is said of a code another      *)
(* handler works from, and the row it read is the row there is.              *)
LEMMA CodeWorker ==
  ASSUME CodeInv, NEW c \in Calls, calls[c].route # "token", calls[c] # Idle
  PROVE  /\ calls[c].code \in Code /\ WorksFrom(c, calls[c].code)
         /\ \A k : WorksFrom(c, k) => k = calls[c].code
  BY DEF CodeInv, CodeShapes, CodeCallShape, WorksFrom, IsIdle

(* The end of a handler of another code, or of a reset token, moves nothing. *)
LEMMA CodeStopsElsewhere ==
  ASSUME CodeInv, NEW c \in Calls, NEW k \in Code \ shared, ~WorksFrom(c, k),
         \A d \in Calls : d # c => calls'[d] = calls[d], ~WorksFrom(c, k)',
         guesses'[k] = guesses[k], opened'[k] = opened[k],
         \A r \in otpRows' : r.code = k => r \in otpRows
  PROVE  CodeKept(k)'
  <1>1. CodeKept(k)
    BY DEF CodeInv
  <1>2. \A d \in Calls : WorksFrom(d, k) \/ WorksFrom(d, k)' => calls'[d] = calls[d]
    OBVIOUS
  <1>. QED  BY <1>1, <1>2, CodeUntouched

(* Rows that are rewritten one by one, each under its own code.              *)
LEMMA CodeRowsSent ==
  ASSUME CodeInv, NEW f, otpRows' = {f[r] : r \in otpRows},
         \A r \in otpRows : f[r].code = r.code /\ (f[r].attempts = CodeMax => f[r].locked),
         sent' = sent,
         \A k \in Code : k > sent => guesses'[k] = 0 /\ opened'[k] = 0,
         \A k \in Code, c \in Calls : WorksFrom(c, k)' => WorksFrom(c, k)
  PROVE  CodesAreSent'
  <1>1. \A r \in otpRows' : \E q \in otpRows :
          r = f[q] /\ r.code = q.code /\ (r.attempts = CodeMax => r.locked)
    OBVIOUS
  <1>2. \A r \in otpRows' : r.code <= sent /\ (r.attempts = CodeMax => r.locked)
    BY <1>1 DEF CodeInv, CodesAreSent
  <1>3. \A r, q \in otpRows' : r.code = q.code => r = q
    BY <1>1 DEF CodeInv, CodesAreSent
  <1>. QED  BY <1>2, <1>3 DEF CodeInv, CodesAreSent

LEMMA CodeWrongStep ==
  ASSUME CodeInv, NEW c \in Calls, CodeWrong(c)
  PROVE  CodeInv'
  <1>. DEFINE row == calls[c].row
              k == calls[c].row.code
              n == calls[c].row.attempts + 1
              f == [r \in otpRows |-> IF r.code = k
                                      THEN [r EXCEPT !.attempts = n, !.locked = (n >= CodeMax)] ELSE r]
  <1>1. /\ calls[c].step = "guess" /\ Moves(c, Idle)
        /\ otpRows' = {f[r] : r \in otpRows}
        /\ guesses' = [guesses EXCEPT ![k] = IF @ > CodeMax THEN @ ELSE @ + 1]
        /\ UNCHANGED <<sent, resetTokens, opened, shared>>
    BY DEF CodeWrong, Ends
  <1>2. /\ calls[c] \in [route : CodeRoutes, step : {"guess"}, row : OtpRow, code : Code]
        /\ k = calls[c].code /\ row.attempts < CodeMax
    <2>1. CodeCallShape(calls[c]) /\ calls[c].step = "guess"
      BY <1>1 DEF CodeInv, CodeShapes
    <2>. QED  BY <2>1 DEF CodeCallShape, Idle
  <1>3. /\ calls' \in [Calls -> CodeCall] /\ CodeShapes' /\ calls'[c] = Idle
        /\ \A d \in Calls : d # c => calls'[d] = calls[d]
    BY <1>1, CodeShapeTypes, CodeMoves
  <1>4. row \in OtpRow /\ k \in Code /\ WorksFrom(c, k)
    BY <1>2 DEF OtpRow, WorksFrom, IsIdle, Idle, CodeRoutes
  <1>5. row.attempts \in 0..CodeMax /\ n \in 1..CodeMax
    BY <1>2, <1>4, CodeAssumption DEF OtpRow
  <1>6. \A j : ~WorksFrom(c, j)' /\ (WorksFrom(c, j) => j = k)
    BY <1>2, <1>3 DEF WorksFrom, IsIdle
  <1>7. ASSUME NEW r \in otpRows
        PROVE  /\ f[r] \in OtpRow /\ f[r].code = r.code
               /\ r.code = k => f[r].attempts = n /\ (f[r].locked <=> n = CodeMax)
               /\ r.code # k => f[r] = r
    <2>1. r \in OtpRow
      BY DEF CodeInv, CodeTypes
    <2>2. CASE r.code = k
      <3>1. (n >= CodeMax) \in BOOLEAN
        OBVIOUS
      <3>2. f[r] = [r EXCEPT !.attempts = n, !.locked = (n >= CodeMax)]
        BY <2>2
      <3>3. n \in 0..CodeMax
        BY <1>5, CodeAssumption
      <3>4. f[r] \in OtpRow
        BY <2>1, <3>1, <3>2, <3>3, Zenon DEF OtpRow
      <3>5. f[r].attempts = n /\ f[r].locked = (n >= CodeMax) /\ f[r].code = r.code
        BY <2>1, <3>2, Zenon DEF OtpRow
      <3>6. (n >= CodeMax) <=> (n = CodeMax)
        BY <1>5, CodeAssumption
      <3>. QED  BY <2>2, <3>4, <3>5, <3>6
    <2>3. CASE r.code # k
      BY <2>1, <2>3
    <2>. QED  BY <2>2, <2>3
  <1>. HIDE DEF f, n
  <1>8. guesses[k] \in 0..CodeMax + 1 /\ guesses' \in [Code -> 0..CodeMax + 1]
    BY <1>1, <1>4, CodeAssumption DEF CodeInv, CodeTypes
  <1>9. CodeTypes'
    <2>1. otpRows' \subseteq OtpRow
      BY <1>1, <1>7
    <2>. QED  BY <1>1, <1>3, <1>8, <2>1 DEF CodeInv, CodeTypes
  <1>10. \A j \in Code : j # k => guesses'[j] = guesses[j]
    BY <1>1 DEF CodeInv, CodeTypes
  <1>11. CodesAreSent'
    <2>1. ~(k > sent)
      BY <1>4 DEF CodeInv, CodesAreSent
    <2>2. \A j \in Code : j > sent => guesses'[j] = 0 /\ opened'[j] = 0
      BY <1>1, <1>10, <2>1 DEF CodeInv, CodesAreSent
    <2>3. \A j \in Code, d \in Calls : WorksFrom(d, j)' => WorksFrom(d, j)
      BY <1>3, <1>6 DEF WorksFrom, IsIdle
    <2>4. \A r \in otpRows : f[r].code = r.code /\ (f[r].attempts = CodeMax => f[r].locked)
      BY <1>7 DEF CodeInv, CodesAreSent
    <2>. QED  BY <1>1, <2>2, <2>3, <2>4, CodeRowsSent
  <1>12. ASSUME NEW j \in Code \ shared'  PROVE CodeKept(j)'
    <2>1. CodeKept(j) /\ j \in Code \ shared
      BY <1>1, <1>12 DEF CodeInv
    <2>2. CASE j = k
      <3>1. \A d \in Calls : ~WorksFrom(d, j)'
        BY <1>3, <1>4, <1>6, <2>1, <2>2 DEF CodeKept, Bearer, WorksFrom, IsIdle
      <3>2. opened[j] = 0
        BY <1>1, <1>4, <2>1, <2>2 DEF CodeKept, Bearer, At
      <3>3. ASSUME NEW r \in otpRows, r.code = k  PROVE row = r /\ guesses[k] = row.attempts
        BY <1>1, <1>4, <2>1, <2>2, <3>3 DEF CodeKept, Bearer, RowCounts
      <3>4. ASSUME NEW r \in otpRows', r.code = k
            PROVE  r.attempts = guesses'[k] /\ (r.locked <=> guesses'[k] = CodeMax)
        <4>1. PICK q \in otpRows : r = f[q] /\ q.code = k
          BY <1>1, <1>7, <3>4
        <4>2. guesses[k] = row.attempts /\ guesses[k] + 1 = n /\ guesses[k] < CodeMax
          BY <1>2, <3>3, <4>1 DEF n
        <4>3. guesses'[k] = n
          BY <1>1, <1>4, <1>8, <4>2, CodeAssumption DEF CodeInv, CodeTypes
        <4>. QED  BY <1>7, <4>1, <4>3
      <3>. QED  BY <1>1, <2>2, <3>1, <3>2, <3>4 DEF CodeKept, RowCounts, Bearer, OpenedOnce
    <2>3. CASE j # k
      <3>1. \A r \in otpRows' : r.code = j => r \in otpRows
        BY <1>1, <1>7, <2>3
      <3>. QED  BY <1>1, <1>3, <1>6, <1>10, <2>1, <2>3, <3>1, CodeStopsElsewhere
    <2>. QED  BY <2>2, <2>3
  <1>. QED  BY <1>3, <1>9, <1>11, <1>12 DEF CodeInv

LEMMA CodeExchangedStep ==
  ASSUME CodeInv, NEW c \in Calls, CodeExchanged(c)
  PROVE  CodeInv'
  <1>. DEFINE k == calls[c].code
              f == [r \in otpRows |-> IF r.code = k THEN [r EXCEPT !.attempts = 0] ELSE r]
  <1>1. /\ calls[c].step = "reset" /\ Moves(c, Idle)
        /\ otpRows' = {f[r] : r \in otpRows}
        /\ resetTokens' \subseteq resetTokens \cup {k}
        /\ guesses' = [guesses EXCEPT ![k] = IF \E r \in otpRows : r.code = k THEN 0 ELSE @]
        /\ UNCHANGED <<sent, opened, shared>>
    BY DEF CodeExchanged, Ends
  <1>2. calls[c] \in [route : {"verify"}, step : {"reset"}, code : Code]
    <2>1. CodeCallShape(calls[c]) /\ calls[c].step = "reset"
      BY <1>1 DEF CodeInv, CodeShapes
    <2>. QED  BY <2>1 DEF CodeCallShape, Idle
  <1>3. /\ calls' \in [Calls -> CodeCall] /\ CodeShapes' /\ calls'[c] = Idle
        /\ \A d \in Calls : d # c => calls'[d] = calls[d]
    BY <1>1, CodeShapeTypes, CodeMoves
  <1>4. k \in Code /\ WorksFrom(c, k)
    BY <1>2 DEF WorksFrom, IsIdle, Idle
  <1>5. \A j : ~WorksFrom(c, j)' /\ (WorksFrom(c, j) => j = k)
    BY <1>2, <1>3 DEF WorksFrom, IsIdle
  <1>6. ASSUME NEW r \in otpRows
        PROVE  /\ f[r] \in OtpRow /\ f[r].code = r.code /\ f[r].locked = r.locked
               /\ r.code = k => f[r].attempts = 0
               /\ r.code # k => f[r] = r
    <2>1. r \in OtpRow
      BY DEF CodeInv, CodeTypes
    <2>2. CASE r.code = k
      <3>1. f[r] = [r EXCEPT !.attempts = 0]
        BY <2>2
      <3>2. 0 \in 0..CodeMax
        BY CodeAssumption
      <3>3. f[r] \in OtpRow
        BY <2>1, <3>1, <3>2, Zenon DEF OtpRow
      <3>4. f[r].attempts = 0 /\ f[r].locked = r.locked /\ f[r].code = r.code
        BY <2>1, <3>1, Zenon DEF OtpRow
      <3>. QED  BY <2>2, <3>3, <3>4
    <2>3. CASE r.code # k
      BY <2>1, <2>3
    <2>. QED  BY <2>2, <2>3
  <1>. HIDE DEF f
  <1>7. guesses[k] \in 0..CodeMax + 1 /\ guesses' \in [Code -> 0..CodeMax + 1]
    BY <1>1, <1>4, CodeAssumption DEF CodeInv, CodeTypes
  <1>8. CodeTypes'
    <2>1. otpRows' \subseteq OtpRow
      BY <1>1, <1>6
    <2>. QED  BY <1>1, <1>3, <1>4, <1>7, <2>1 DEF CodeInv, CodeTypes
  <1>9. \A j \in Code : j # k => guesses'[j] = guesses[j]
    BY <1>1 DEF CodeInv, CodeTypes
  <1>10. CodesAreSent'
    <2>1. ~(k > sent)
      BY <1>4 DEF CodeInv, CodesAreSent
    <2>2. \A j \in Code : j > sent => guesses'[j] = 0 /\ opened'[j] = 0
      BY <1>1, <1>9, <2>1 DEF CodeInv, CodesAreSent
    <2>3. \A j \in Code, d \in Calls : WorksFrom(d, j)' => WorksFrom(d, j)
      BY <1>3, <1>5 DEF WorksFrom, IsIdle
    <2>4. \A r \in otpRows : f[r].code = r.code /\ (f[r].attempts = CodeMax => f[r].locked)
      BY <1>6, CodeAssumption DEF CodeInv, CodesAreSent
    <2>. QED  BY <1>1, <2>2, <2>3, <2>4, CodeRowsSent
  <1>11. ASSUME NEW j \in Code \ shared'  PROVE CodeKept(j)'
    <2>1. CodeKept(j) /\ j \in Code \ shared
      BY <1>1, <1>11 DEF CodeInv
    <2>2. CASE j = k
      <3>1. \A d \in Calls : ~WorksFrom(d, j)'
        BY <1>3, <1>4, <1>5, <2>1, <2>2 DEF CodeKept, Bearer, WorksFrom, IsIdle
      <3>2. opened[j] = 0
        BY <1>2, <1>4, <2>1, <2>2 DEF CodeKept, Bearer, At
      <3>3. ASSUME NEW r \in otpRows', r.code = k
            PROVE  r.attempts = guesses'[k] /\ (r.locked <=> guesses'[k] = CodeMax)
        <4>1. PICK q \in otpRows : r = f[q] /\ q.code = k
          BY <1>1, <1>6, <3>3
        <4>2. ~q.locked
          BY <1>4, <2>1, <2>2, <4>1 DEF CodeKept, Bearer
        <4>3. guesses'[k] = 0
          BY <1>1, <1>4, <4>1 DEF CodeInv, CodeTypes
        <4>4. r.attempts = 0 /\ ~r.locked
          BY <1>6, <4>1, <4>2
        <4>. QED  BY <4>3, <4>4, CodeAssumption
      <3>. QED  BY <1>1, <2>2, <3>1, <3>2, <3>3 DEF CodeKept, RowCounts, Bearer, OpenedOnce
    <2>3. CASE j # k
      <3>1. \A r \in otpRows' : r.code = j => r \in otpRows
        BY <1>1, <1>6, <2>3
      <3>. QED  BY <1>1, <1>3, <1>5, <1>9, <2>1, <2>3, <3>1, CodeStopsElsewhere
    <2>. QED  BY <2>2, <2>3
  <1>. QED  BY <1>3, <1>8, <1>10, <1>11 DEF CodeInv

LEMMA TokenReadStep ==
  ASSUME CodeInv, NEW c \in Calls, NEW code \in Code, TokenRead(c, code)
  PROVE  CodeInv'
  <1>. DEFINE call == WithCode("token", "set", code)
  <1>1. /\ Moves(c, call) /\ calls[c] = Idle
        /\ UNCHANGED <<otpRows, sent, resetTokens, guesses, opened, shared>>
    BY DEF TokenRead, Starts, IsIdle
  <1>2. CodeCallShape(call) /\ call.route = "token"
    BY DEF CodeCallShape, WithCode
  <1>. HIDE DEF call
  <1>3. /\ calls' \in [Calls -> CodeCall] /\ CodeShapes' /\ calls'[c] = call
        /\ \A d \in Calls : d # c => calls'[d] = calls[d]
    BY <1>1, <1>2, CodeMoves
  <1>4. \A k : ~WorksFrom(c, k) /\ ~WorksFrom(c, k)'
    BY <1>1, <1>2, <1>3 DEF WorksFrom, IsIdle
  <1>5. \A k \in Code, d \in Calls : WorksFrom(d, k)' => WorksFrom(d, k)
    BY <1>3, <1>4 DEF WorksFrom, IsIdle
  <1>6. CodeTypes' /\ CodesAreSent'
    BY <1>1, <1>3, <1>5 DEF CodeInv, CodeTypes, CodesAreSent
  <1>7. \A k \in Code \ shared' : CodeKept(k)'
    BY <1>1, <1>3, <1>4, CodeStopsElsewhere
  <1>. QED  BY <1>3, <1>6, <1>7 DEF CodeInv

(* The two writes after a right code.                                        *)
LEMMA CodeThenDoes ==
  ASSUME CodeInv, NEW c \in Calls, calls[c].step \in {"set", "wipe"}
  PROVE  LET next == ThenDoes(calls[c]) IN
         /\ CodeCallShape(next) /\ calls[c].code \in Code /\ calls[c] # Idle
         /\ calls[c].route \in {"register", "confirm", "token"}
         /\ next # Idle => /\ next.route = calls[c].route /\ next.code = calls[c].code
                           /\ next.step \in {"set", "wipe"} /\ next.step # calls[c].step
                           /\ next.step = "set" => calls[c].route = "register"
                           /\ next.step = "wipe" => calls[c].route # "register"
         /\ calls[c].route = "confirm" /\ calls[c].step = "set" =>
              next.step = "wipe" /\ next # Idle
         /\ calls[c].route = "register" /\ calls[c].step = "set" => next = Idle
  <1>1. calls[c] \in [route : {"register", "confirm", "token"}, step : {"set", "wipe"}, code : Code]
    <2>1. CodeCallShape(calls[c])
      BY DEF CodeInv, CodeShapes
    <2>. QED  BY <2>1 DEF CodeCallShape, Idle
  <1>2. CASE calls[c].route = "register"
    BY <1>1, <1>2, CodeShapeTypes DEF ThenDoes, WithCode, CodeCallShape, Idle
  <1>3. CASE calls[c].route # "register"
    BY <1>1, <1>3, CodeShapeTypes DEF ThenDoes, WithCode, CodeCallShape, Idle
  <1>. QED  BY <1>2, <1>3

LEMMA CodeWipeStep ==
  ASSUME CodeInv, NEW c \in Calls, CodeWipe(c)
  PROVE  CodeInv'
  <1>. DEFINE next == ThenDoes(calls[c])
  <1>1. /\ calls[c].step = "wipe" /\ otpRows' = {} /\ Moves(c, next)
        /\ UNCHANGED <<sent, resetTokens, guesses, opened, shared>>
    BY DEF CodeWipe
  <1>2. /\ CodeCallShape(next) /\ calls[c].code \in Code /\ calls[c] # Idle
        /\ next # Idle => /\ next.route = calls[c].route /\ next.code = calls[c].code
                          /\ next.step = "set" /\ calls[c].route = "register"
    BY <1>1, CodeThenDoes
  <1>. HIDE DEF next
  <1>3. /\ calls' \in [Calls -> CodeCall] /\ CodeShapes' /\ calls'[c] = next
        /\ \A d \in Calls : d # c => calls'[d] = calls[d]
    BY <1>1, <1>2, CodeMoves
  <1>4. \A k : WorksFrom(c, k)' => WorksFrom(c, k) /\ ~At(c, "confirm", "wipe")
    BY <1>2, <1>3 DEF WorksFrom, IsIdle, At
  <1>5. \A d \in Calls : \A k : WorksFrom(d, k)' => WorksFrom(d, k)
    BY <1>3, <1>4 DEF WorksFrom, IsIdle
  <1>6. CodeTypes' /\ CodesAreSent'
    BY <1>1, <1>3, <1>5 DEF CodeInv, CodeTypes, CodesAreSent
  <1>7. ASSUME NEW k \in Code \ shared'  PROVE CodeKept(k)'
    <2>1. CodeKept(k)
      BY <1>1, <1>7 DEF CodeInv
    <2>2. RowCounts(k)' /\ OpenedOnce(k)'
      BY <1>1, <2>1 DEF CodeKept, RowCounts, OpenedOnce
    <2>3. ASSUME NEW d \in Calls, WorksFrom(d, k)'
          PROVE  /\ \A e \in Calls : WorksFrom(e, k)' => d = e
                 /\ ~At(d, "confirm", "wipe")' => opened'[k] = 0
      <3>1. WorksFrom(d, k) /\ \A e \in Calls : WorksFrom(e, k)' => d = e
        BY <1>5, <2>1, <2>3 DEF CodeKept, Bearer
      <3>2. CASE d = c
        BY <1>1, <1>4, <2>1, <2>3, <3>1, <3>2 DEF CodeKept, Bearer
      <3>3. CASE d # c
        <4>1. At(d, "confirm", "wipe")' <=> At(d, "confirm", "wipe")
          BY <1>3, <3>3 DEF At
        <4>. QED  BY <1>1, <2>1, <3>1, <4>1 DEF CodeKept, Bearer
      <3>. QED  BY <3>1, <3>2, <3>3
    <2>. QED  BY <1>1, <2>2, <2>3 DEF CodeKept, Bearer
  <1>. QED  BY <1>3, <1>6, <1>7 DEF CodeInv

LEMMA CodeSetStep ==
  ASSUME CodeInv, NEW c \in Calls, CodeSet(c)
  PROVE  CodeInv'
  <1>. DEFINE next == ThenDoes(calls[c])
              k == calls[c].code
  <1>1. /\ calls[c].step = "set" /\ Moves(c, next)
        /\ opened' = IF calls[c].route = "token" THEN opened
                     ELSE [opened EXCEPT ![k] = IF @ > 1 THEN @ ELSE @ + 1]
        /\ UNCHANGED <<otpRows, sent, resetTokens, guesses, shared>>
    BY DEF CodeSet
  <1>2. /\ CodeCallShape(next) /\ k \in Code /\ calls[c] # Idle
        /\ calls[c].route \in {"register", "confirm", "token"}
        /\ next # Idle => /\ next.route = calls[c].route /\ next.code = k
                          /\ next.step = "wipe" /\ calls[c].route # "register"
        /\ calls[c].route = "confirm" => next # Idle
    BY <1>1, CodeThenDoes
  <1>. HIDE DEF next
  <1>3. /\ calls' \in [Calls -> CodeCall] /\ CodeShapes' /\ calls'[c] = next
        /\ \A d \in Calls : d # c => calls'[d] = calls[d]
    BY <1>1, <1>2, CodeMoves
  <1>4. \A j : (WorksFrom(c, j) => j = k) /\ (WorksFrom(c, j)' => WorksFrom(c, j) /\ At(c, "confirm", "wipe")')
    BY <1>2, <1>3 DEF WorksFrom, IsIdle, At
  <1>5. \A d \in Calls : \A j : WorksFrom(d, j)' => WorksFrom(d, j)
    BY <1>3, <1>4 DEF WorksFrom, IsIdle
  <1>6. opened' \in [Code -> 0..2] /\ \A j \in Code : j # k => opened'[j] = opened[j]
    BY <1>1, <1>2 DEF CodeInv, CodeTypes
  <1>7. CodeTypes'
    BY <1>1, <1>3, <1>6 DEF CodeInv, CodeTypes
  <1>8. CodesAreSent'
    <2>1. ASSUME NEW j \in Code, j > sent  PROVE opened'[j] = 0
      <3>1. opened[j] = 0 /\ ~WorksFrom(c, j)
        BY <2>1 DEF CodeInv, CodesAreSent
      <3>2. j # k \/ calls[c].route = "token"
        BY <1>2, <3>1 DEF WorksFrom, IsIdle
      <3>. QED  BY <1>1, <1>6, <3>1, <3>2
    <2>. QED  BY <1>1, <1>5, <2>1 DEF CodeInv, CodesAreSent
  <1>9. ASSUME NEW j \in Code \ shared'  PROVE CodeKept(j)'
    <2>1. CodeKept(j) /\ j \in Code \ shared
      BY <1>1, <1>9 DEF CodeInv
    <2>2. CASE WorksFrom(c, j)
      <3>1. j = k /\ calls[c].route \in {"register", "confirm"} /\ ~At(c, "confirm", "wipe")
        BY <1>1, <1>2, <1>4, <2>2 DEF WorksFrom, At
      <3>2. opened[j] = 0
        BY <2>1, <2>2, <3>1 DEF CodeKept, Bearer
      <3>3. opened'[j] = 1
        BY <1>1, <1>2, <3>1, <3>2 DEF CodeInv, CodeTypes
      <3>4. \A d \in Calls : WorksFrom(d, j)' => d = c /\ At(c, "confirm", "wipe")'
        BY <1>4, <1>5, <2>1, <2>2 DEF CodeKept, Bearer
      <3>5. calls[c].route = "register" => \A r \in otpRows : r.code # j
        BY <1>1, <2>1, <2>2 DEF CodeKept, Bearer, At
      <3>6. calls[c].route = "confirm" => At(c, "confirm", "wipe")' /\ WorksFrom(c, j)'
        BY <1>2, <1>3, <3>1 DEF At, WorksFrom, IsIdle
      <3>7. RowCounts(j)'
        BY <1>1, <2>1 DEF CodeKept, RowCounts
      <3>8. OpenedOnce(j)'
        BY <1>1, <3>1, <3>3, <3>5, <3>6 DEF OpenedOnce
      <3>9. Bearer(j)'
        <4>1. ASSUME NEW r \in otpRows', r.code = j  PROVE ~r.locked
          BY <1>1, <2>1, <2>2, <4>1 DEF CodeKept, Bearer
        <4>. QED  BY <3>4, <4>1 DEF Bearer, At
      <3>. QED  BY <3>7, <3>8, <3>9 DEF CodeKept
    <2>3. CASE ~WorksFrom(c, j)
      <3>1. j # k \/ calls[c].route = "token"
        BY <1>2, <2>3 DEF WorksFrom, IsIdle
      <3>2. opened'[j] = opened[j]
        BY <1>1, <1>6, <3>1
      <3>. QED  BY <1>1, <1>3, <1>4, <2>1, <2>3, <3>2, CodeStopsElsewhere
    <2>. QED  BY <2>2, <2>3
  <1>. QED  BY <1>3, <1>7, <1>8, <1>9 DEF CodeInv

LEMMA CodeDiesStep ==
  ASSUME CodeInv, NEW c \in Calls, CodeDies(c)
  PROVE  CodeInv'
  <1>1. /\ calls[c] # Idle /\ Moves(c, Idle)
        /\ shared' = IF At(c, "confirm", "wipe") THEN shared \cup {calls[c].code} ELSE shared
        /\ UNCHANGED <<otpRows, sent, resetTokens, guesses, opened>>
    BY DEF CodeDies, Ends, IsIdle
  <1>2. calls[c].code \in Code
    <2>1. CodeCallShape(calls[c])
      BY DEF CodeInv, CodeShapes
    <2>. QED  BY <1>1, <2>1 DEF CodeCallShape
  <1>3. /\ calls' \in [Calls -> CodeCall] /\ CodeShapes' /\ calls'[c] = Idle
        /\ \A d \in Calls : d # c => calls'[d] = calls[d]
    BY <1>1, CodeShapeTypes, CodeMoves
  <1>4. \A d \in Calls : \A k : WorksFrom(d, k)' => WorksFrom(d, k) /\ d # c
    BY <1>3 DEF WorksFrom, IsIdle
  <1>5. shared \subseteq shared' /\ shared' \subseteq Code
    BY <1>1, <1>2 DEF CodeInv, CodeTypes
  <1>6. CodeTypes' /\ CodesAreSent'
    BY <1>1, <1>3, <1>4, <1>5 DEF CodeInv, CodeTypes, CodesAreSent
  <1>7. ASSUME NEW k \in Code \ shared'  PROVE CodeKept(k)'
    <2>1. CodeKept(k) /\ k \in Code \ shared
      BY <1>5, <1>7 DEF CodeInv
    <2>2. CASE WorksFrom(c, k)
      <3>1. ~At(c, "confirm", "wipe")
        BY <1>1, <1>7, <2>2 DEF WorksFrom
      <3>2. opened[k] = 0 /\ \A d \in Calls : ~WorksFrom(d, k)'
        BY <1>4, <2>1, <2>2, <3>1 DEF CodeKept, Bearer
      <3>. QED  BY <1>1, <2>1, <3>2 DEF CodeKept, RowCounts, Bearer, OpenedOnce
    <2>3. CASE ~WorksFrom(c, k)
      BY <1>1, <1>3, <1>4, <2>1, <2>3, CodeStopsElsewhere
    <2>. QED  BY <2>2, <2>3
  <1>. QED  BY <1>3, <1>6, <1>7 DEF CodeInv

-----------------------------------------------------------------------------
LEMMA CodeStep == CodeInv /\ [CodeNext]_codeVars => CodeInv'
  <1>. SUFFICES ASSUME CodeInv, [CodeNext]_codeVars  PROVE CodeInv'
    OBVIOUS
  <1>1. CASE RequestCode
    BY <1>1, RequestCodeStep
  <1>2. ASSUME NEW c \in Calls, NEW route \in CodeRoutes, NEW guess \in 0..MaxCodes,
               CodeRead(c, route, guess)
        PROVE  CodeInv'
    BY <1>2, CodeReadStep
  <1>3. ASSUME NEW c \in Calls, CodeWrong(c)  PROVE CodeInv'
    BY <1>3, CodeWrongStep
  <1>4. ASSUME NEW c \in Calls, CodeExchanged(c)  PROVE CodeInv'
    BY <1>4, CodeExchangedStep
  <1>5. ASSUME NEW c \in Calls, CodeWipe(c)  PROVE CodeInv'
    BY <1>5, CodeWipeStep
  <1>6. ASSUME NEW c \in Calls, CodeSet(c)  PROVE CodeInv'
    BY <1>6, CodeSetStep
  <1>7. ASSUME NEW c \in Calls, CodeDies(c)  PROVE CodeInv'
    BY <1>7, CodeDiesStep
  <1>8. ASSUME NEW c \in Calls, NEW code \in Code, TokenRead(c, code)  PROVE CodeInv'
    BY <1>8, TokenReadStep
  <1>9. CASE UNCHANGED codeVars
    <2>1. /\ UNCHANGED <<calls, otpRows, sent, resetTokens, guesses, opened, shared>>
          /\ \A d \in Calls : \A k : WorksFrom(d, k)' <=> WorksFrom(d, k)
      BY <1>9 DEF codeVars, WorksFrom, IsIdle
    <2>2. CodeTypes' /\ CodeShapes' /\ CodesAreSent'
      BY <2>1 DEF CodeInv, CodeTypes, CodeShapes, CodesAreSent
    <2>3. \A k \in Code \ shared' : CodeKept(k)'
      BY <2>1, CodeUntouched DEF CodeInv
    <2>. QED  BY <2>2, <2>3 DEF CodeInv
  <1>. QED  BY <1>1, <1>2, <1>3, <1>4, <1>5, <1>6, <1>7, <1>8, <1>9 DEF CodeNext

(* What a handler that works from a code may rely on, as long as no other    *)
(* did.                                                                      *)
THEOREM CodeInvariance == CodeSpec => []CodeInv
  BY CodeInitially, CodeStep, PTL DEF CodeSpec

(* Of a code nobody shared, whatever the limit and however many handlers:    *)
(* wrong guesses in a row lock it when they reach the limit and not before,  *)
(* and it sets a password once (otp.service.ts, verifyOtp; auth.service.ts). *)
THEOREM CodesAreSpent == CodeSpec => []CodeIsSpent
  <1>1. CodeInv => CodeIsSpent
    <2>. SUFFICES ASSUME CodeInv, NEW k \in Code \ shared
                  PROVE  /\ \A r \in otpRows : r.code = k =>
                              guesses[k] <= CodeMax /\ (r.locked <=> guesses[k] = CodeMax)
                         /\ opened[k] <= 1
      BY DEF CodeIsSpent
    <2>1. CodeKept(k)
      BY DEF CodeInv
    <2>2. ASSUME NEW r \in otpRows, r.code = k  PROVE guesses[k] <= CodeMax
      <3>1. r.attempts = guesses[k] /\ r \in OtpRow
        BY <2>1, <2>2 DEF CodeKept, RowCounts, CodeInv, CodeTypes
      <3>. QED  BY <3>1, CodeAssumption DEF OtpRow
    <2>. QED  BY <2>1, <2>2 DEF CodeKept, RowCounts, OpenedOnce
  <1>. QED  BY <1>1, CodeInvariance, PTL

-----------------------------------------------------------------------------
(* What holds of staff accounts for every set of roles, regions, e-mails   *)
(* and phones, and any number of accounts and handlers in flight.          *)

(* What ManagedAccountsAreOurs says of one row.                              *)
Ours(row) ==
  /\ row.role \in ManagedRoles <=> ~row.mirrored
  /\ row.role \in ManagedRoles => (row.role = "ADMIN" <=> row.region = None)
  /\ row.by \in Regions => row.role \in FieldRoles

Ids == \E n \in 0..MaxStaff : Existing = 1..n

(* What a handler relies on between its statements: a profile is that of a   *)
(* managed account, and keeps its region; a sign-in writes an account that   *)
(* is not, with what the ERP may say.                                        *)
CreateInv(call) == call.route = "account" => Ours(call.row) /\ ~call.row.mirrored
ProfileInv(call) ==
  call.route = "profile" =>
    /\ call.id \in Existing
    /\ staffRows[call.id].role \in ManagedRoles
    /\ staffRows[call.id].role = "ADMIN" <=> call.data.region = None
AccountLoginInv(call) ==
  call.route = "weblogin" =>
    /\ call.step = "erp" /\ call.local # None =>
         call.local \in Existing /\ staffRows[call.local].role \notin ManagedRoles
    /\ call.step # "erp" => call.erp.role \notin ManagedRoles
    /\ call.step \in {"sync", "retry"} =>
         call.id \in Existing /\ staffRows[call.id].role \notin ManagedRoles
CallInv(call) == CreateInv(call) /\ ProfileInv(call) /\ AccountLoginInv(call)

AccountIndInv ==
  /\ StaffTypes /\ Ids /\ ManagedAccountsAreOurs
  /\ \A c \in Calls : CallInv(calls[c])

-----------------------------------------------------------------------------
(* Types of handlers and rows.                                               *)

LEMMA AccountIdleCall == Idle \in StaffCall /\ CallInv(Idle) /\ Idle.route = "none"
  BY DEF Idle, StaffCall, CallInv, CreateInv, ProfileInv, AccountLoginInv

LEMMA AccountCreateCall ==
  ASSUME NEW call \in StaffCall, call.route = "account"
  PROVE  call.row \in StaffRow
  BY AccountIdleCall DEF StaffCall

LEMMA ProfileCall ==
  ASSUME NEW call \in StaffCall, call.route = "profile"
  PROVE  call.id \in StaffId /\ call.saw \in Profile /\ call.data \in Profile
  BY AccountIdleCall DEF StaffCall

LEMMA AccountLoginCall ==
  ASSUME NEW call \in StaffCall, call.route = "weblogin"
  PROVE  /\ call.step \in {"erp", "email", "create", "sync", "retry"}
         /\ call.step = "erp" => call.local \in StaffId \cup {None}
         /\ call.step # "erp" => call.erp \in FromErp
         /\ call.step \in {"sync", "retry"} => call.id \in StaffId
  BY AccountIdleCall DEF StaffCall

LEMMA ExistingRow ==
  ASSUME StaffTypes, NEW i \in Existing
  PROVE  i \in StaffId /\ staffRows[i] \in StaffRow
  BY DEF StaffTypes, Existing

LEMMA RegionOfCode == ASSUME NEW code  PROVE tryRegionFromBpClusterCode(code) \in CallerScope
  BY ScopeAssumption DEF tryRegionFromBpClusterCode, CallerScope

LEMMA FreshId ==
  ASSUME AccountIndInv, NewStaff \in StaffId
  PROVE  NewStaff \notin Existing /\ Existing \cup {NewStaff} = 1..NewStaff
  <1>1. PICK n \in 0..MaxStaff : Existing = 1..n
    BY DEF AccountIndInv, Ids
  <1>2. Cardinality(1..n) = n
    BY <1>1, FS_Interval, StaffAssumption
  <1>3. NewStaff = n + 1
    BY <1>1, <1>2 DEF NewStaff
  <1>. QED  BY <1>1, <1>3, StaffAssumption

-----------------------------------------------------------------------------
LEMMA AccountInitially == StaffInit => AccountIndInv
  <1>. SUFFICES ASSUME StaffInit  PROVE AccountIndInv
    OBVIOUS
  <1>1. StaffTypes /\ Existing = {}
    BY AccountIdleCall DEF StaffInit, StaffTypes, Existing
  <1>2. Ids
    <2>1. 0 \in 0..MaxStaff /\ 1..0 = {}
      BY StaffAssumption
    <2>. QED  BY <1>1, <2>1 DEF Ids
  <1>3. \A c \in Calls : CallInv(calls[c])
    BY AccountIdleCall DEF StaffInit
  <1>. QED  BY <1>1, <1>2, <1>3 DEF AccountIndInv, ManagedAccountsAreOurs

(* A step that keeps every account, and no managed one of which becomes a    *)
(* mirrored one or the other way around, keeps what other handlers rely on.  *)
Keeps ==
  /\ Existing \subseteq Existing'
  /\ \A i \in Existing :
       /\ staffRows[i].role \in ManagedRoles => staffRows'[i].role = staffRows[i].role
       /\ staffRows[i].role \notin ManagedRoles => staffRows'[i].role \notin ManagedRoles

LEMMA CallKeeps ==
  ASSUME Keeps, NEW call, CallInv(call)
  PROVE  CallInv(call)'
  <1>1. ProfileInv(call)'
    BY DEF CallInv, ProfileInv, Keeps
  <1>2. AccountLoginInv(call)'
    BY DEF CallInv, AccountLoginInv, Keeps
  <1>. QED  BY <1>1, <1>2 DEF CallInv, CreateInv, Ours

LEMMA AccountGoes ==
  ASSUME AccountIndInv, Keeps, StaffTypes', Ids', ManagedAccountsAreOurs',
         NEW c \in Calls, NEW call \in StaffCall, Moves(c, call), CallInv(call)'
  PROVE  AccountIndInv'
  <1>1. calls \in [Calls -> StaffCall] /\ calls' = [calls EXCEPT ![c] = call]
    BY DEF AccountIndInv, StaffTypes, Moves
  <1>2. ASSUME NEW d \in Calls  PROVE CallInv(calls[d])'
    <2>1. CASE d = c
      BY <1>1, <2>1
    <2>2. CASE d # c
      <3>1. calls'[d] = calls[d] /\ CallInv(calls[d])
        BY <1>1, <2>2 DEF AccountIndInv
      <3>2. \A x : CallInv(x) => CallInv(x)'
        BY CallKeeps
      <3>. QED  BY <3>1, <3>2
    <2>. QED  BY <2>1, <2>2
  <1>. QED  BY <1>2 DEF AccountIndInv

(* A step that writes no account.                                            *)
LEMMA Reads ==
  ASSUME AccountIndInv, NEW c \in Calls, NEW call \in StaffCall, Moves(c, call),
         UNCHANGED staffRows, CallInv(call)
  PROVE  AccountIndInv'
  <1>1. Keeps /\ Ids' /\ ManagedAccountsAreOurs'
    BY DEF AccountIndInv, Keeps, Ids, ManagedAccountsAreOurs, Existing
  <1>2. StaffTypes'
    BY DEF AccountIndInv, StaffTypes, Moves
  <1>3. CallInv(call)'
    BY <1>1, CallKeeps
  <1>. QED  BY <1>1, <1>2, <1>3, AccountGoes

(* A step that writes one account.                                           *)
LEMMA Writes ==
  ASSUME AccountIndInv, NEW c \in Calls, NEW call \in StaffCall, Moves(c, call), CallInv(call)',
         NEW i \in Existing, NEW row \in StaffRow, Ours(row),
         staffRows' = [staffRows EXCEPT ![i] = row],
         staffRows[i].role \in ManagedRoles => row.role = staffRows[i].role,
         staffRows[i].role \notin ManagedRoles => row.role \notin ManagedRoles
  PROVE  AccountIndInv'
  <1>1. i \in StaffId /\ staffRows \in [StaffId -> StaffRow \cup {None}]
    BY ExistingRow DEF AccountIndInv, StaffTypes
  <1>2. \A j \in StaffId : staffRows'[j] = IF j = i THEN row ELSE staffRows[j]
    BY <1>1
  <1>3. Existing' = Existing
    BY <1>1, <1>2, StaffRowAssumption DEF Existing
  <1>4. StaffTypes'
    BY <1>1 DEF AccountIndInv, StaffTypes, Moves
  <1>5. Ids'
    BY <1>3 DEF AccountIndInv, Ids
  <1>6. ManagedAccountsAreOurs'
    <2>. SUFFICES ASSUME NEW j \in Existing  PROVE Ours(staffRows'[j])
      BY <1>3 DEF ManagedAccountsAreOurs, Ours
    <2>1. Ours(staffRows[j]) /\ j \in StaffId
      BY DEF AccountIndInv, ManagedAccountsAreOurs, Ours, Existing
    <2>. QED  BY <1>2, <2>1
  <1>7. Keeps
    BY <1>2, <1>3 DEF Keeps, Existing
  <1>. QED  BY <1>4, <1>5, <1>6, <1>7, AccountGoes

(* A step that creates one.                                                  *)
LEMMA Inserts ==
  ASSUME AccountIndInv, NEW c \in Calls, NEW next \in StaffCall,
         NEW row \in StaffRow, Ours(row), InsertStaff(c, row, next),
         next = Idle \/ (/\ next.route = "weblogin" /\ next.step = "sync" /\ next.id = NewStaff
                         /\ next.erp.role \notin ManagedRoles /\ row.role \notin ManagedRoles)
  PROVE  AccountIndInv'
  <1>1. CASE Collides(NewStaff, row.email, row.phone)
    <2>1. Moves(c, Idle) /\ UNCHANGED staffRows
      BY <1>1 DEF InsertStaff, Ends
    <2>. QED  BY <2>1, AccountIdleCall, Reads
  <1>2. CASE ~Collides(NewStaff, row.email, row.phone)
    <2>. DEFINE N == NewStaff
    <2>1. N \in StaffId /\ staffRows' = [staffRows EXCEPT ![N] = row] /\ Moves(c, next)
      BY <1>2 DEF InsertStaff
    <2>2. N \notin Existing /\ Existing \cup {N} = 1..N
      BY <2>1, FreshId
    <2>. HIDE DEF N
    <2>3. staffRows \in [StaffId -> StaffRow \cup {None}]
      BY DEF AccountIndInv, StaffTypes
    <2>4. \A j \in StaffId : staffRows'[j] = IF j = N THEN row ELSE staffRows[j]
      BY <2>1, <2>3
    <2>5. Existing' = Existing \cup {N}
      BY <2>1, <2>4, StaffRowAssumption DEF Existing
    <2>6. StaffTypes'
      BY <2>1, <2>3 DEF AccountIndInv, StaffTypes, Moves
    <2>7. Ids'
      BY <2>1, <2>2, <2>5, StaffAssumption DEF Ids, StaffId
    <2>8. ManagedAccountsAreOurs'
      <3>. SUFFICES ASSUME NEW j \in Existing \cup {N}  PROVE Ours(staffRows'[j])
        BY <2>5 DEF ManagedAccountsAreOurs, Ours
      <3>1. j # N => Ours(staffRows[j]) /\ j \in StaffId
        BY DEF AccountIndInv, ManagedAccountsAreOurs, Ours, Existing
      <3>. QED  BY <2>1, <2>4, <3>1
    <2>9. Keeps
      BY <2>2, <2>4, <2>5 DEF Keeps, Existing
    <2>10. CallInv(next)'
      <3>1. CASE next = Idle
        BY <2>9, <3>1, AccountIdleCall, CallKeeps
      <3>2. CASE next # Idle
        <4>1. /\ next.route = "weblogin" /\ next.step = "sync" /\ next.id = N
              /\ next.erp.role \notin ManagedRoles /\ row.role \notin ManagedRoles
          BY <3>2 DEF N
        <4>. QED  BY <2>1, <2>4, <2>5, <4>1 DEF CallInv, CreateInv, ProfileInv, AccountLoginInv
      <3>. QED  BY <3>1, <3>2
    <2>. QED  BY <2>1, <2>6, <2>7, <2>8, <2>9, <2>10, AccountGoes
  <1>. QED  BY <1>1, <1>2

-----------------------------------------------------------------------------
(* The steps.                                                                *)

LEMMA CreateOfficerStep ==
  ASSUME AccountIndInv, NEW c \in Calls, NEW role \in Roles, NEW region \in CallerScope,
         NEW email \in Emails, NEW phone \in Phones, NEW scope \in CallerScope,
         createOfficer(c, role, region, email, phone, scope)
  PROVE  AccountIndInv'
  <1>. DEFINE given == IF scope # None THEN scope ELSE region
              place == IF role = "ADMIN" /\ scope = None THEN None ELSE given
              row == [role |-> role, region |-> place, email |-> email, phone |-> phone,
                      by |-> scope, mirrored |-> FALSE]
              call == [route |-> "account", step |-> "create", row |-> row]
  <1>1. /\ role \in ManagedRoles /\ RegionalAdminMayManage(scope, role, given)
        /\ role = "ADMIN" <=> region = None
        /\ Moves(c, call) /\ UNCHANGED staffRows
    BY DEF createOfficer, Starts
  <1>2. place \in CallerScope
    BY DEF CallerScope
  <1>3. scope # None => role \in FieldRoles
    BY <1>1 DEF RegionalAdminMayManage
  <1>4. role = "ADMIN" => scope = None
    BY <1>3, StaffAssumption
  <1>5. role = "ADMIN" <=> place = None
    BY <1>1, <1>4
  <1>. HIDE DEF place
  <1>6. row \in StaffRow
    BY <1>2 DEF StaffRow
  <1>7. Ours(row) /\ ~row.mirrored
    BY <1>1, <1>3, <1>5, ScopeAssumption DEF Ours
  <1>. HIDE DEF row
  <1>8. call \in StaffCall /\ CallInv(call)
    BY <1>6, <1>7 DEF StaffCall, CallInv, CreateInv, ProfileInv, AccountLoginInv
  <1>. QED  BY <1>1, <1>8, Reads

LEMMA UpdateProfileStep ==
  ASSUME AccountIndInv, NEW c \in Calls, NEW i \in StaffId, NEW phone \in Phones,
         NEW region \in CallerScope, NEW scope \in CallerScope,
         updateOfficerProfile(c, i, phone, region, scope)
  PROVE  AccountIndInv'
  <1>. DEFINE row == staffRows[i]
              saw == [phone |-> row.phone, region |-> row.region]
              data == [phone |-> phone, region |-> IF region = None THEN row.region ELSE region]
              call == [route |-> "profile", step |-> "update", id |-> i, saw |-> saw, data |-> data]
  <1>1. /\ i \in Existing /\ row.role \in ManagedRoles /\ (row.role = "ADMIN" => region = None)
        /\ Moves(c, call) /\ UNCHANGED staffRows
    BY DEF updateOfficerProfile, Starts
  <1>2. row \in StaffRow /\ Ours(row)
    BY <1>1, ExistingRow DEF AccountIndInv, ManagedAccountsAreOurs, Ours
  <1>. HIDE DEF row
  <1>3. saw \in Profile /\ data \in Profile
    BY <1>2 DEF StaffRow, Profile
  <1>4. row.role = "ADMIN" <=> data.region = None
    BY <1>1, <1>2 DEF Ours
  <1>. HIDE DEF saw, data
  <1>5. call \in StaffCall
    BY <1>3 DEF StaffCall
  <1>6. CallInv(call)
    BY <1>1, <1>4 DEF CallInv, CreateInv, ProfileInv, AccountLoginInv, row
  <1>. QED  BY <1>1, <1>5, <1>6, Reads

LEMMA ProfileUpdateStep ==
  ASSUME AccountIndInv, NEW c \in Calls, ProfileUpdate(c)
  PROVE  AccountIndInv'
  <1>. DEFINE i == calls[c].id  saw == calls[c].saw  data == calls[c].data
              phone  == IF data.phone = saw.phone THEN staffRows[i].phone ELSE data.phone
              region == IF data.region = saw.region THEN staffRows[i].region ELSE data.region
              row == [staffRows[i] EXCEPT !.phone = phone, !.region = region]
  <1>1. /\ calls[c] \in StaffCall /\ calls[c].route = "profile" /\ CallInv(calls[c])
        /\ Moves(c, Idle)
        /\ staffRows' = IF Collides(i, staffRows[i].email, phone) THEN staffRows
                        ELSE [staffRows EXCEPT ![i].phone = phone, ![i].region = region]
    BY DEF ProfileUpdate, At, Ends, AccountIndInv, StaffTypes
  <1>2. /\ i \in Existing /\ staffRows[i].role \in ManagedRoles
        /\ staffRows[i].role = "ADMIN" <=> data.region = None
        /\ data \in Profile
    BY <1>1, ProfileCall DEF CallInv, ProfileInv
  <1>3. staffRows[i] \in StaffRow /\ Ours(staffRows[i])
    BY <1>2, ExistingRow DEF AccountIndInv, ManagedAccountsAreOurs, Ours
  <1>4. /\ phone \in Phones /\ region \in CallerScope
        /\ staffRows[i].role = "ADMIN" <=> region = None
    BY <1>2, <1>3 DEF StaffRow, Profile, Ours
  <1>. HIDE DEF phone, region
  <1>5. row \in StaffRow /\ row.role = staffRows[i].role /\ Ours(row)
    <2>1. /\ row \in StaffRow /\ row.role = staffRows[i].role /\ row.region = region
          /\ row.by = staffRows[i].by /\ row.mirrored = staffRows[i].mirrored
      BY <1>3, <1>4 DEF StaffRow
    <2>. QED  BY <1>3, <1>4, <2>1 DEF Ours
  <1>6. CASE Collides(i, staffRows[i].email, phone)
    BY <1>1, <1>6, AccountIdleCall, Reads
  <1>7. CASE ~Collides(i, staffRows[i].email, phone)
    <2>1. staffRows' = [staffRows EXCEPT ![i] = row]
      <3>1. staffRows' = [staffRows EXCEPT ![i].phone = phone, ![i].region = region]
        BY <1>1, <1>7
      <3>2. staffRows \in [StaffId -> StaffRow \cup {None}] /\ i \in StaffId
        BY <1>2, ExistingRow DEF AccountIndInv, StaffTypes
      <3>. QED  BY <3>1, <3>2
    <2>2. CallInv(Idle)'
      BY AccountIdleCall DEF Idle, CallInv, CreateInv, ProfileInv, AccountLoginInv
    <2>. QED  BY <1>1, <1>2, <1>5, <2>1, <2>2, AccountIdleCall, Writes
  <1>. QED  BY <1>6, <1>7

LEMMA WebLoginStep ==
  ASSUME AccountIndInv, NEW c \in Calls, NEW local \in StaffId \cup {None}, WebLogin(c, local)
  PROVE  AccountIndInv'
  <1>. DEFINE call == [route |-> "weblogin", step |-> "erp", local |-> local]
  <1>1. call \in StaffCall /\ Moves(c, call) /\ UNCHANGED staffRows
    BY DEF WebLogin, Starts, StaffCall
  <1>2. CallInv(call)
    BY DEF WebLogin, CallInv, CreateInv, ProfileInv, AccountLoginInv
  <1>. QED  BY <1>1, <1>2, Reads

LEMMA ErpVouchesStep ==
  ASSUME AccountIndInv, NEW c \in Calls, NEW role \in Roles, NEW code, NEW email \in Emails,
         NEW phone \in Phones, ErpVouches(c, role, code, email, phone)
  PROVE  AccountIndInv'
  <1>. DEFINE local == calls[c].local
              erp == [role |-> role, region |-> tryRegionFromBpClusterCode(code),
                      email |-> email, phone |-> phone]
              sync == [route |-> "weblogin", step |-> "sync", erp |-> erp, id |-> local]
              byEmail == [route |-> "weblogin", step |-> "email", erp |-> erp]
              call == IF role \in ManagedRoles THEN Idle ELSE IF local # None THEN sync ELSE byEmail
  <1>1. /\ calls[c] \in StaffCall /\ calls[c].route = "weblogin" /\ calls[c].step = "erp"
        /\ CallInv(calls[c]) /\ Moves(c, call) /\ UNCHANGED staffRows
    BY DEF ErpVouches, At, AccountIndInv, StaffTypes
  <1>2. /\ local \in StaffId \cup {None}
        /\ local # None => local \in Existing /\ staffRows[local].role \notin ManagedRoles
    BY <1>1, AccountLoginCall DEF CallInv, AccountLoginInv
  <1>3. erp \in FromErp /\ erp.role = role
    BY RegionOfCode DEF FromErp
  <1>. HIDE DEF erp, local
  <1>4. CASE role \in ManagedRoles
    BY <1>1, <1>4, AccountIdleCall, Reads
  <1>5. CASE role \notin ManagedRoles /\ local # None
    <2>1. sync \in StaffCall
      BY <1>2, <1>3, <1>5 DEF StaffCall
    <2>2. CallInv(sync)
      BY <1>2, <1>3, <1>5 DEF CallInv, CreateInv, ProfileInv, AccountLoginInv
    <2>. QED  BY <1>1, <1>5, <2>1, <2>2, Reads
  <1>6. CASE role \notin ManagedRoles /\ local = None
    <2>1. byEmail \in StaffCall
      BY <1>3 DEF StaffCall
    <2>2. CallInv(byEmail)
      BY <1>3, <1>6 DEF CallInv, CreateInv, ProfileInv, AccountLoginInv
    <2>. QED  BY <1>1, <1>6, <2>1, <2>2, Reads
  <1>. QED  BY <1>4, <1>5, <1>6

LEMMA LoginByEmailStep ==
  ASSUME AccountIndInv, NEW c \in Calls, LoginByEmail(c)
  PROVE  AccountIndInv'
  <1>. DEFINE erp == calls[c].erp
              found == {i \in Existing : staffRows[i].email = erp.email}
              sync(i) == [route |-> "weblogin", step |-> "sync", erp |-> erp, id |-> i]
  <1>1. /\ calls[c] \in StaffCall /\ calls[c].route = "weblogin" /\ calls[c].step = "email"
        /\ CallInv(calls[c]) /\ UNCHANGED staffRows
    BY DEF LoginByEmail, At, AccountIndInv, StaffTypes
  <1>2. erp \in FromErp /\ erp.role \notin ManagedRoles
    BY <1>1, AccountLoginCall DEF CallInv, AccountLoginInv
  <1>3. CASE found = {}
    <2>. DEFINE call == [calls[c] EXCEPT !.step = "create"]
    <2>1. Moves(c, call)
      BY <1>3 DEF LoginByEmail, Steps
    <2>2. call \in StaffCall /\ call.route = "weblogin" /\ call.step = "create" /\ call.erp = erp
      BY <1>1, AccountIdleCall DEF StaffCall
    <2>3. CallInv(call)
      BY <1>2, <2>2 DEF CallInv, CreateInv, ProfileInv, AccountLoginInv
    <2>. QED  BY <1>1, <2>1, <2>2, <2>3, Reads
  <1>4. CASE found # {}
    <2>1. PICK i \in found :
            Moves(c, IF MayBeMirrored(staffRows[i].role) THEN sync(i) ELSE Idle)
      BY <1>4 DEF LoginByEmail
    <2>2. i \in Existing /\ i \in StaffId
      BY DEF Existing
    <2>. HIDE DEF erp, found
    <2>3. CASE MayBeMirrored(staffRows[i].role)
      <3>1. sync(i) \in StaffCall
        BY <1>2, <2>2 DEF StaffCall
      <3>2. CallInv(sync(i))
        BY <1>2, <2>2, <2>3 DEF CallInv, CreateInv, ProfileInv, AccountLoginInv, MayBeMirrored
      <3>. QED  BY <1>1, <2>1, <2>3, <3>1, <3>2, Reads
    <2>4. CASE ~MayBeMirrored(staffRows[i].role)
      BY <1>1, <2>1, <2>4, AccountIdleCall, Reads
    <2>. QED  BY <2>3, <2>4
  <1>. QED  BY <1>3, <1>4

LEMMA CreateInsertStep ==
  ASSUME AccountIndInv, NEW c \in Calls, CreateInsert(c)
  PROVE  AccountIndInv'
  <1>1. /\ calls[c] \in StaffCall /\ calls[c].route = "account" /\ CallInv(calls[c])
        /\ InsertStaff(c, calls[c].row, Idle)
    BY DEF CreateInsert, At, AccountIndInv, StaffTypes
  <1>2. calls[c].row \in StaffRow /\ Ours(calls[c].row)
    BY <1>1, AccountCreateCall DEF CallInv, CreateInv
  <1>. QED  BY <1>1, <1>2, AccountIdleCall, Inserts

LEMMA LoginInsertStep ==
  ASSUME AccountIndInv, NEW c \in Calls, LoginInsert(c)
  PROVE  AccountIndInv'
  <1>. DEFINE erp == calls[c].erp
              row == [role |-> erp.role, region |-> erp.region, email |-> erp.email,
                      phone |-> erp.phone, by |-> "erp", mirrored |-> TRUE]
              next == [route |-> "weblogin", step |-> "sync", erp |-> erp, id |-> NewStaff]
  <1>1. /\ calls[c] \in StaffCall /\ calls[c].route = "weblogin" /\ calls[c].step = "create"
        /\ CallInv(calls[c]) /\ InsertStaff(c, row, next)
    BY DEF LoginInsert, At, AccountIndInv, StaffTypes
  <1>2. erp \in FromErp /\ erp.role \notin ManagedRoles
    BY <1>1, AccountLoginCall DEF CallInv, AccountLoginInv
  <1>. HIDE DEF erp
  <1>3. row \in StaffRow /\ row.role = erp.role /\ row.mirrored = TRUE /\ row.by = "erp"
    BY <1>2 DEF StaffRow, FromErp
  <1>4. Ours(row)
    BY <1>2, <1>3, StaffAssumption DEF Ours
  <1>5. CASE Collides(NewStaff, row.email, row.phone)
    <2>1. Moves(c, Idle) /\ UNCHANGED staffRows
      BY <1>1, <1>5 DEF InsertStaff, Ends
    <2>. QED  BY <2>1, AccountIdleCall, Reads
  <1>6. CASE ~Collides(NewStaff, row.email, row.phone)
    <2>1. NewStaff \in StaffId
      BY <1>1, <1>6 DEF InsertStaff
    <2>2. next \in StaffCall
      BY <1>2, <2>1 DEF StaffCall
    <2>3. /\ next.route = "weblogin" /\ next.step = "sync" /\ next.id = NewStaff
          /\ next.erp.role \notin ManagedRoles /\ row.role \notin ManagedRoles
      BY <1>2, <1>3
    <2>. HIDE DEF row, next
    <2>. QED  BY <1>1, <1>3, <1>4, <2>2, <2>3, Inserts
  <1>. QED  BY <1>5, <1>6

(* What the ERP writes into an account that is not managed.                  *)
LEMMA MirrorStep ==
  ASSUME AccountIndInv, NEW c \in Calls, NEW i \in Existing, staffRows[i].role \notin ManagedRoles,
         NEW erp \in FromErp, erp.role \notin ManagedRoles,
         NEW email \in Emails, NEW phone \in Phones,
         staffRows' = Mirrored(i, erp, email, phone), Moves(c, Idle)
  PROVE  AccountIndInv'
  <1>. DEFINE row == [staffRows[i] EXCEPT !.role = erp.role, !.region = erp.region, !.email = email,
                                          !.phone = phone, !.mirrored = TRUE]
  <1>1. /\ staffRows[i] \in StaffRow /\ i \in StaffId /\ Ours(staffRows[i])
        /\ staffRows \in [StaffId -> StaffRow \cup {None}]
    BY ExistingRow DEF AccountIndInv, StaffTypes, ManagedAccountsAreOurs, Ours
  <1>2. staffRows' = [staffRows EXCEPT ![i] = row]
    BY <1>1 DEF Mirrored
  <1>3. /\ row \in StaffRow /\ row.role = erp.role /\ row.mirrored = TRUE
        /\ row.by = staffRows[i].by
    <2>1. TRUE \in BOOLEAN
      OBVIOUS
    <2>. QED  BY <1>1, <2>1 DEF StaffRow, FromErp
  <1>4. Ours(row)
    <2>1. staffRows[i].by \notin Regions
      BY <1>1, StaffAssumption DEF Ours
    <2>. QED  BY <1>3, <2>1 DEF Ours
  <1>5. CallInv(Idle)'
    BY DEF Idle, CallInv, CreateInv, ProfileInv, AccountLoginInv
  <1>. HIDE DEF row
  <1>. QED  BY <1>2, <1>3, <1>4, <1>5, AccountIdleCall, Writes

LEMMA LoginSyncStep ==
  ASSUME AccountIndInv, NEW c \in Calls, LoginSync(c)
  PROVE  AccountIndInv'
  <1>. DEFINE erp == calls[c].erp  i == calls[c].id
  <1>1. /\ calls[c] \in StaffCall /\ calls[c].route = "weblogin" /\ calls[c].step = "sync"
        /\ CallInv(calls[c])
    BY DEF LoginSync, At, AccountIndInv, StaffTypes
  <1>2. /\ erp \in FromErp /\ erp.role \notin ManagedRoles
        /\ i \in Existing /\ staffRows[i].role \notin ManagedRoles
    BY <1>1, AccountLoginCall DEF CallInv, AccountLoginInv
  <1>3. CASE Collides(i, erp.email, erp.phone)
    <2>. DEFINE call == [calls[c] EXCEPT !.step = "retry"]
    <2>1. Moves(c, call) /\ UNCHANGED staffRows
      BY <1>3 DEF LoginSync, Steps
    <2>2. /\ call \in StaffCall /\ call.route = "weblogin" /\ call.step = "retry"
          /\ call.erp = erp /\ call.id = i
      BY <1>1, AccountIdleCall DEF StaffCall
    <2>3. CallInv(call)
      BY <1>2, <2>2 DEF CallInv, CreateInv, ProfileInv, AccountLoginInv
    <2>. QED  BY <2>1, <2>2, <2>3, Reads
  <1>4. CASE ~Collides(i, erp.email, erp.phone)
    <2>1. staffRows' = Mirrored(i, erp, erp.email, erp.phone) /\ Moves(c, Idle)
      BY <1>4 DEF LoginSync, Ends
    <2>2. erp.email \in Emails /\ erp.phone \in Phones
      BY <1>2 DEF FromErp
    <2>. QED  BY <1>2, <2>1, <2>2, MirrorStep
  <1>. QED  BY <1>3, <1>4

LEMMA LoginRetryStep ==
  ASSUME AccountIndInv, NEW c \in Calls, LoginRetry(c)
  PROVE  AccountIndInv'
  <1>. DEFINE erp == calls[c].erp  i == calls[c].id
  <1>1. /\ calls[c] \in StaffCall /\ calls[c].route = "weblogin" /\ calls[c].step = "retry"
        /\ CallInv(calls[c]) /\ Moves(c, Idle)
        /\ staffRows' = Mirrored(i, erp, staffRows[i].email, staffRows[i].phone)
    BY DEF LoginRetry, At, Ends, AccountIndInv, StaffTypes
  <1>2. /\ erp \in FromErp /\ erp.role \notin ManagedRoles
        /\ i \in Existing /\ staffRows[i].role \notin ManagedRoles
    BY <1>1, AccountLoginCall DEF CallInv, AccountLoginInv
  <1>3. staffRows[i].email \in Emails /\ staffRows[i].phone \in Phones
    BY <1>2, ExistingRow DEF AccountIndInv, StaffRow
  <1>. QED  BY <1>1, <1>2, <1>3, MirrorStep

-----------------------------------------------------------------------------
LEMMA AccountStep == AccountIndInv /\ [StaffNext]_staffVars => AccountIndInv'
  <1>. SUFFICES ASSUME AccountIndInv, [StaffNext]_staffVars  PROVE AccountIndInv'
    OBVIOUS
  <1>1. ASSUME NEW c \in Calls, StaffDies(c)  PROVE AccountIndInv'
    BY <1>1, AccountIdleCall, Reads DEF StaffDies, Ends
  <1>2. CASE UNCHANGED staffVars
    BY <1>2 DEF staffVars, AccountIndInv, StaffTypes, Ids, ManagedAccountsAreOurs, Existing, CallInv,
       CreateInv, ProfileInv, AccountLoginInv
  <1>. QED  BY <1>1, <1>2, CreateOfficerStep, UpdateProfileStep, ProfileUpdateStep, WebLoginStep,
            ErpVouchesStep, LoginByEmailStep, CreateInsertStep, LoginInsertStep, LoginSyncStep,
            LoginRetryStep DEF StaffNext

(* The inductive invariant: every account is managed here or mirrored from   *)
(* the ERP, and every handler between its statements works on one of its     *)
(* kind.                                                                     *)
THEOREM AccountInvariance == StaffSpec => []AccountIndInv
  BY AccountInitially, AccountStep, PTL DEF StaffSpec

(* An account of a managed role was created by an admin and is never written *)
(* by the ERP, it has a region exactly if it is not an admin's, and a        *)
(* regional admin created none but field staff, whatever sign-ins, creations *)
(* and edits of any number of accounts overlap (staffWebLogin of             *)
(* auth.service.ts, createOfficer of admin.service.ts).                      *)
THEOREM AccountsAreOurs == StaffSpec => []ManagedAccountsAreOurs
  <1>1. AccountIndInv => ManagedAccountsAreOurs
    BY DEF AccountIndInv
  <1>. QED  BY <1>1, AccountInvariance, PTL
=============================================================================
