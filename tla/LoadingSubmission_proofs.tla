---------------------- MODULE LoadingSubmission_proofs ----------------------
(***************************************************************************)
(* What holds of the submission handlers for every set of distributors,    *)
(* handlers in flight, admins, forms, capacities and feeds, and for every  *)
(* number of attempts at a reference.                                      *)
(***************************************************************************)
EXTENDS LoadingSubmission, Counting

(* What a handler carries from one statement to the next.  Before its INSERT *)
(* it has found every earlier suffix of its customer taken; after it, the    *)
(* row is there for good.                                                    *)
HandlerInv ==
  \A c \in Calls :
    /\ calls[c].step \in {"check", "insert"} =>
         /\ calls[c].customer \in Customers
         /\ calls[c].lines \in Forms
         /\ calls[c].capacity \in Capacities
    /\ calls[c].step = "insert" =>
         /\ calls[c].ref \in Reference
         /\ calls[c].ref.customer = calls[c].customer
         /\ \A ref \in Reference :
              (/\ ref.customer = calls[c].customer
               /\ ref.attempt < calls[c].ref.attempt) => Taken(ref)
    /\ calls[c].step \in {"admins", "tell", "update"} =>
         calls[c].ref \in Reference /\ Taken(calls[c].ref)

(* A handler that will tell every admin, still active, who does not know.    *)
WillTell(c, ref) ==
  /\ calls[c].ref = ref
  /\ \/ calls[c].step = "admins"
     \/ calls[c].step = "tell" /\ active \subseteq told[ref] \cup calls[c].tell

HeardInv ==
  \A ref \in Reference :
    Taken(ref) => \/ ref \in lost
                  \/ active \subseteq told[ref]
                  \/ \E c \in Calls : WillTell(c, ref)

IndInv ==
  /\ TypeOK /\ HandlerInv /\ HeardInv
  /\ ReferencesHaveNoGaps /\ RefusedOnlyWhenFull /\ CartonsMirrorLines

-----------------------------------------------------------------------------
(* Sums over the lines of a form.                                            *)

LEMMA QuantitiesAreASum ==
  ASSUME NEW lines, NEW S
  PROVE  MapThenSumSet(LAMBDA i : lines[i].quantity, S)
           = SumFunctionOnSet([i \in S |-> lines[i].quantity], S)
  <1>. DEFINE v == [i \in S |-> lines[i].quantity]
              B(g) == [s \in SUBSET S |-> IF s = {} THEN 0
                                          ELSE lines[Pick(s)].quantity + g[s \ {Pick(s)}]]
              V(g) == [s \in SUBSET S |-> IF s = {} THEN 0 ELSE v[Pick(s)] + g[s \ {Pick(s)}]]
  <1>1. MapThenSumSet(LAMBDA i : lines[i].quantity, S) = (CHOOSE g : g = B(g))[S]
    BY Zenon DEF MapThenSumSet, MapThenFoldSet, Pick
  <1>2. SumFunctionOnSet(v, S) = (CHOOSE g : g = V(g))[S]
    BY Zenon, SumByDefinition DEF Adds
  <1>3. ASSUME NEW g  PROVE B(g) = V(g)
    <2>1. ASSUME NEW s \in SUBSET S, s # {}  PROVE v[Pick(s)] = lines[Pick(s)].quantity
      <3>1. Pick(s) \in S
        BY <2>1, PickIsIn
      <3>. QED  BY <3>1
    <2>. QED  BY <2>1
  <1>. HIDE DEF B, V
  <1>4. \A g : (g = B(g)) <=> (g = V(g))
    BY <1>3
  <1>5. (CHOOSE g : g = B(g)) = (CHOOSE g : g = V(g))
    BY <1>4
  <1>. QED  BY <1>1, <1>2, <1>5

LEMMA TotalIsNat == ASSUME NEW lines \in Forms  PROVE Total(lines) \in Nat
  <1>. DEFINE v == [i \in DOMAIN lines |-> lines[i].quantity]
  <1>1. IsFiniteSet(DOMAIN lines) /\ \A i \in DOMAIN lines : v[i] \in Nat
    BY FormsAssumption
  <1>2. Total(lines) = SumFunctionOnSet(v, DOMAIN lines)
    BY QuantitiesAreASum DEF Total
  <1>. HIDE DEF v
  <1>. QED  BY <1>1, <1>2, SumIsNat

-----------------------------------------------------------------------------
(* The records the handlers build have the types of their tables.            *)

LEMMA IdleType == Idle \in Call /\ Idle.step = "idle"
  BY DEF Idle, Call

LEMMA CreatedType ==
  ASSUME NEW call \in Call, call.lines \in Forms, call.capacity \in Capacities
  PROVE  /\ Created(call) \in Row
         /\ Created(call) # None
         /\ Created(call).cartons = Total(Created(call).lines)
  <1>1. Total(call.lines) \in Nat
    BY TotalIsNat
  <1>2. Created(call) \in Row
    BY <1>1 DEF Created, Row
  <1>. QED  BY <1>2, RowAssumption DEF Created

LEMMA EditedType ==
  ASSUME NEW call \in Call, NEW row \in Row, row.cartons = Total(row.lines)
  PROVE  /\ Edited(row, call) \in Row
         /\ Edited(row, call) # None
         /\ Edited(row, call).cartons = Total(Edited(row, call).lines)
  <1>1. CASE call.lines = <<>>
    <2>1. Edited(row, call) \in Row
      BY <1>1 DEF Edited, OrElse, Call, Row
    <2>. QED  BY <1>1, <2>1, RowAssumption DEF Edited, Row
  <1>2. CASE call.lines # <<>>
    <2>1. call.lines \in Forms /\ Total(call.lines) \in Nat
      BY <1>2, TotalIsNat DEF Call
    <2>2. Edited(row, call) \in Row
      BY <1>2, <2>1 DEF Edited, OrElse, Call, Row
    <2>. QED  BY <1>2, <2>2, RowAssumption DEF Edited, Row
  <1>. QED  BY <1>1, <1>2

LEMMA TellingType ==
  ASSUME NEW call \in Call, NEW left \in SUBSET Admins
  PROVE  /\ Telling(call, left) \in Call
         /\ left = {} => Telling(call, left) = Idle
         /\ left # {} => /\ Telling(call, left).step = "tell"
                         /\ Telling(call, left).tell = left
                         /\ Telling(call, left).ref = call.ref
  BY IdleType DEF Telling, Call

-----------------------------------------------------------------------------
(* The initial state.                                                        *)
LEMMA Initially == Init => IndInv
  <1>. SUFFICES ASSUME Init  PROVE IndInv
    OBVIOUS
  <1>1. TypeOK
    BY IdleType DEF Init, TypeOK
  <1>2. \A ref \in Reference : ~Taken(ref)
    BY DEF Init, Taken
  <1>3. HandlerInv
    BY IdleType DEF Init, HandlerInv
  <1>4. RefusedOnlyWhenFull
    BY DEF Init, RefusedOnlyWhenFull
  <1>5. ReferencesHaveNoGaps /\ CartonsMirrorLines /\ HeardInv
    BY <1>2 DEF ReferencesHaveNoGaps, CartonsMirrorLines, HeardInv
  <1>. QED  BY <1>1, <1>3, <1>4, <1>5 DEF IndInv

-----------------------------------------------------------------------------
(* What each step leaves intact.                                             *)

(* Steps that touch neither the table nor the handlers.                      *)
LEMMA QuietStep ==
  ASSUME IndInv, TypeOK', active' \subseteq active, fresh' \subseteq Customers,
         UNCHANGED <<rows, calls, told, lost, refused>>
  PROVE  IndInv'
  <1>1. HandlerInv'
    BY DEF IndInv, HandlerInv, Taken
  <1>2. HeardInv'
    BY DEF IndInv, HeardInv, WillTell, Taken
  <1>. QED
    BY <1>1, <1>2 DEF IndInv, ReferencesHaveNoGaps, RefusedOnlyWhenFull,
                      CartonsMirrorLines, Taken

(* What the handlers other than c rely on is kept by a step of c that takes  *)
(* no row away.                                                              *)
LEMMA OthersStay ==
  ASSUME IndInv, NEW c \in Calls, NEW call, calls' = [calls EXCEPT ![c] = call],
         \A ref \in Reference : Taken(ref) => Taken(ref)',
         NEW d \in Calls, d # c
  PROVE  /\ calls'[d] = calls[d]
         /\ calls[d].step \in {"check", "insert"} =>
              /\ calls'[d].customer \in Customers
              /\ calls'[d].lines \in Forms
              /\ calls'[d].capacity \in Capacities
         /\ calls[d].step = "insert" =>
              /\ calls'[d].ref \in Reference
              /\ calls'[d].ref.customer = calls'[d].customer
              /\ \A ref \in Reference :
                   (/\ ref.customer = calls'[d].customer
                    /\ ref.attempt < calls'[d].ref.attempt) => Taken(ref)'
         /\ calls[d].step \in {"admins", "tell", "update"} =>
              calls'[d].ref \in Reference /\ Taken(calls[d].ref)'
  <1>1. calls'[d] = calls[d]
    BY DEF IndInv, TypeOK
  <1>. QED  BY <1>1 DEF IndInv, HandlerInv

(* A handler before its row exists moves on: nothing else changes.           *)
LEMMA BeforeRow ==
  ASSUME IndInv, NEW c \in Calls, NEW call \in Call,
         calls[c].step \in {"idle", "check", "insert", "update"},
         calls' = [calls EXCEPT ![c] = call], refused' = refused,
         UNCHANGED <<fresh, rows, active, told, lost>>,
         call.step \in {"idle", "check", "insert", "update"},
         call.step \in {"check", "insert"} =>
           /\ call.customer \in Customers /\ call.lines \in Forms
           /\ call.capacity \in Capacities,
         call.step = "insert" =>
           /\ call.ref \in Reference /\ call.ref.customer = call.customer
           /\ \A ref \in Reference :
                (ref.customer = call.customer /\ ref.attempt < call.ref.attempt)
                  => Taken(ref),
         call.step = "update" => call.ref \in Reference /\ Taken(call.ref)
  PROVE  IndInv'
  <1>1. TypeOK'
    BY DEF IndInv, TypeOK
  <1>2. calls'[c] = call
    BY DEF IndInv, TypeOK
  <1>3. \A ref \in Reference : Taken(ref)' <=> Taken(ref)
    BY DEF Taken
  <1>4. HandlerInv'
    <2>. SUFFICES ASSUME NEW d \in Calls
                  PROVE  HandlerInv!(d)'
      BY DEF HandlerInv
    <2>1. CASE d = c
      BY <1>2, <1>3, <2>1
    <2>2. CASE d # c
      BY <1>3, <2>2, OthersStay
    <2>. QED  BY <2>1, <2>2
  <1>5. HeardInv'
    <2>1. \A d \in Calls, ref \in Reference : WillTell(d, ref) => WillTell(d, ref)'
      <3>. SUFFICES ASSUME NEW d \in Calls, NEW ref \in Reference, WillTell(d, ref)
                    PROVE  WillTell(d, ref)'
        OBVIOUS
      <3>1. d # c
        BY DEF WillTell
      <3>. QED  BY <3>1 DEF WillTell, IndInv, TypeOK
    <2>. QED  BY <2>1, <1>3 DEF IndInv, HeardInv
  <1>. QED
    BY <1>1, <1>3, <1>4, <1>5 DEF IndInv, ReferencesHaveNoGaps,
       RefusedOnlyWhenFull, CartonsMirrorLines, Taken
-----------------------------------------------------------------------------
(* The INSERT, the notices, the edit, a death on the way and the routes that *)
(* act on a load.                                                            *)

LEMMA InsertStep ==
  ASSUME IndInv, NEW c \in Calls, Insert(c)
  PROVE  IndInv'
  <1>. DEFINE new == calls[c].ref
              row == Created(calls[c])
              next == [Idle EXCEPT !.step = "admins", !.ref = new]
  <1>1. /\ new \in Reference /\ new.customer = calls[c].customer /\ ~Taken(new)
        /\ \A ref \in Reference :
             (ref.customer = new.customer /\ ref.attempt < new.attempt) => Taken(ref)
        /\ calls[c] \in Call /\ calls[c].step = "insert"
    BY DEF Insert, IndInv, HandlerInv, TypeOK
  <1>2. row \in Row /\ row # None /\ row.cartons = Total(row.lines)
    BY <1>1, CreatedType DEF IndInv, HandlerInv
  <1>3. next \in Call /\ next.step = "admins" /\ next.ref = new
    BY <1>1, IdleType DEF Call
  <1>4. rows' = [rows EXCEPT ![new] = row] /\ calls' = [calls EXCEPT ![c] = next]
        /\ UNCHANGED <<fresh, active, told, lost, refused>>
    BY DEF Insert, Moves
  <1>. HIDE DEF row, next
  <1>5. TypeOK'
    BY <1>1, <1>2, <1>3, <1>4 DEF IndInv, TypeOK
  <1>6. \A ref \in Reference : Taken(ref)' <=> (Taken(ref) \/ ref = new)
    BY <1>1, <1>2, <1>4 DEF Taken, IndInv, TypeOK
  <1>7. HandlerInv'
    <2>. SUFFICES ASSUME NEW d \in Calls  PROVE HandlerInv!(d)'
      BY DEF HandlerInv
    <2>1. CASE d = c
      <3>1. calls'[d] = next
        BY <1>4, <2>1 DEF IndInv, TypeOK
      <3>. QED  BY <3>1, <1>1, <1>3, <1>6
    <2>2. CASE d # c
      BY <1>4, <1>6, <2>2, OthersStay
    <2>. QED  BY <2>1, <2>2
  <1>8. HeardInv'
    <2>. SUFFICES ASSUME NEW ref \in Reference, Taken(ref)'
                  PROVE  HeardInv!(ref)!2'
      BY DEF HeardInv
    <2>1. CASE ref = new
      <3>1. WillTell(c, ref)'
        BY <1>3, <1>4, <2>1 DEF WillTell, IndInv, TypeOK
      <3>. QED  BY <3>1
    <2>2. CASE ref # new
      <3>1. HeardInv!(ref)!2
        BY <1>6, <2>2 DEF IndInv, HeardInv
      <3>2. ASSUME NEW d \in Calls, WillTell(d, ref)  PROVE WillTell(d, ref)'
        <4>1. d # c
          BY <1>1, <3>2 DEF WillTell
        <4>. QED  BY <4>1, <1>4, <3>2 DEF WillTell, IndInv, TypeOK
      <3>. QED  BY <3>1, <3>2, <1>4
    <2>. QED  BY <2>1, <2>2
  <1>9. ReferencesHaveNoGaps'
    <2>. SUFFICES ASSUME NEW ref \in Reference, Taken(ref)', ref.attempt > 1
                  PROVE  Taken([ref EXCEPT !.attempt = ref.attempt - 1])'
      BY DEF ReferencesHaveNoGaps
    <2>. DEFINE prev == [ref EXCEPT !.attempt = ref.attempt - 1]
    <2>1. /\ prev \in Reference /\ prev.customer = ref.customer
          /\ prev.attempt < ref.attempt
      BY AttemptsAssumption DEF Reference
    <2>. HIDE DEF prev
    <2>2. CASE ref = new
      BY <1>1, <1>6, <2>1, <2>2 DEF prev
    <2>3. CASE ref # new
      BY <1>6, <2>1, <2>3 DEF prev, IndInv, ReferencesHaveNoGaps
    <2>. QED  BY <2>2, <2>3
  <1>10. RefusedOnlyWhenFull'
    BY <1>4, <1>6 DEF IndInv, RefusedOnlyWhenFull
  <1>11. CartonsMirrorLines'
    BY <1>1, <1>2, <1>4, <1>6 DEF IndInv, CartonsMirrorLines, TypeOK
  <1>. QED  BY <1>5, <1>7, <1>8, <1>9, <1>10, <1>11 DEF IndInv

(* A handler that ran out of suffixes met every one of them taken.           *)
LEMMA GiveUpStep ==
  ASSUME IndInv, NEW c \in Calls, calls[c].step = "insert", Taken(calls[c].ref),
         calls[c].ref.attempt = MAX_REFERENCE_ATTEMPTS, Ends(c),
         refused' = refused \cup {calls[c].customer},
         UNCHANGED <<fresh, rows, active, told, lost>>
  PROVE  IndInv'
  <1>1. calls[c].customer \in Customers
    BY DEF IndInv, HandlerInv
  <1>2. ASSUME NEW ref \in Reference, ref.customer = calls[c].customer
        PROVE  Taken(ref)
    <2>1. /\ calls[c].ref \in Reference
          /\ calls[c].ref.customer = calls[c].customer
          /\ ref.attempt < calls[c].ref.attempt => Taken(ref)
      BY <1>2 DEF IndInv, HandlerInv
    <2>2. CASE ref.attempt = MAX_REFERENCE_ATTEMPTS
      <3>1. ref = calls[c].ref
        BY <1>2, <2>1, <2>2 DEF Reference
      <3>. QED  BY <3>1
    <2>3. CASE ref.attempt # MAX_REFERENCE_ATTEMPTS
      BY <2>1, <2>3, AttemptsAssumption DEF Reference
    <2>. QED  BY <2>2, <2>3
  <1>3. calls' = [calls EXCEPT ![c] = Idle]
    BY DEF Ends, Moves
  <1>4. TypeOK'
    BY <1>1, <1>3, IdleType DEF IndInv, TypeOK
  <1>5. \A ref \in Reference : Taken(ref)' <=> Taken(ref)
    BY DEF Taken
  <1>6. HandlerInv'
    <2>. SUFFICES ASSUME NEW d \in Calls  PROVE HandlerInv!(d)'
      BY DEF HandlerInv
    <2>1. CASE d = c
      BY <1>3, <2>1, IdleType DEF IndInv, TypeOK
    <2>2. CASE d # c
      BY <1>3, <1>5, <2>2, OthersStay
    <2>. QED  BY <2>1, <2>2
  <1>7. HeardInv'
    <2>1. ASSUME NEW d \in Calls, NEW ref \in Reference, WillTell(d, ref)
          PROVE  WillTell(d, ref)'
      <3>1. d # c
        BY <2>1 DEF WillTell
      <3>. QED  BY <3>1, <2>1, <1>3 DEF WillTell, IndInv, TypeOK
    <2>. QED  BY <2>1, <1>5 DEF IndInv, HeardInv
  <1>8. RefusedOnlyWhenFull'
    BY <1>2, <1>5 DEF IndInv, RefusedOnlyWhenFull
  <1>. QED
    BY <1>4, <1>5, <1>6, <1>7, <1>8 DEF IndInv, ReferencesHaveNoGaps,
       CartonsMirrorLines, Taken
(* Notices and deaths: nobody is forgotten but by a handler that died.       *)
LEMMA AfterRow ==
  ASSUME IndInv, NEW c \in Calls, NEW call \in Call,
         calls' = [calls EXCEPT ![c] = call], TypeOK',
         UNCHANGED <<fresh, rows, active, refused>>,
         \A ref \in Reference : told[ref] \subseteq told'[ref],
         lost \subseteq lost',
         call.step \in {"idle", "tell"},
         call.step = "tell" =>
           call.ref = calls[c].ref /\ calls[c].step \in {"admins", "tell"},
         \A ref \in Reference : WillTell(c, ref) =>
           \/ ref \in lost'
           \/ active \subseteq told'[ref]
           \/ /\ call.step = "tell" /\ call.ref = ref
              /\ active \subseteq told'[ref] \cup call.tell
  PROVE  IndInv'
  <1>1. calls'[c] = call
    BY DEF IndInv, TypeOK
  <1>2. \A ref \in Reference : Taken(ref)' <=> Taken(ref)
    BY DEF Taken
  <1>3. HandlerInv'
    <2>. SUFFICES ASSUME NEW d \in Calls  PROVE HandlerInv!(d)'
      BY DEF HandlerInv
    <2>1. CASE d = c
      BY <1>1, <1>2, <2>1 DEF IndInv, HandlerInv
    <2>2. CASE d # c
      BY <1>2, <2>2, OthersStay
    <2>. QED  BY <2>1, <2>2
  <1>4. HeardInv'
    <2>. SUFFICES ASSUME NEW ref \in Reference, Taken(ref)'
                  PROVE  HeardInv!(ref)!2'
      BY DEF HeardInv
    <2>1. HeardInv!(ref)!2
      BY <1>2 DEF IndInv, HeardInv
    <2>2. CASE ref \in lost \/ active \subseteq told[ref]
      BY <2>2
    <2>3. ASSUME NEW d \in Calls, WillTell(d, ref)
          PROVE  HeardInv!(ref)!2'
      <3>1. CASE d = c
        <4>1. (/\ call.step = "tell" /\ call.ref = ref
               /\ active \subseteq told'[ref] \cup call.tell) => WillTell(c, ref)'
          BY <1>1 DEF WillTell
        <4>. QED  BY <4>1, <2>3, <3>1
      <3>2. CASE d # c
        <4>1. calls'[d] = calls[d]
          BY <3>2 DEF IndInv, TypeOK
        <4>2. WillTell(d, ref)'
          BY <4>1, <2>3 DEF WillTell
        <4>. QED  BY <4>2
      <3>. QED  BY <3>1, <3>2
    <2>. QED  BY <2>1, <2>2, <2>3
  <1>. QED
    BY <1>2, <1>3, <1>4 DEF IndInv, ReferencesHaveNoGaps,
       RefusedOnlyWhenFull, CartonsMirrorLines, Taken

(* A row is rewritten where it is.                                           *)
LEMMA RowStep ==
  ASSUME IndInv, NEW x \in Reference, Taken(x), NEW row \in Row,
         row.cartons = Total(row.lines),
         rows' = [rows EXCEPT ![x] = row],
         calls' \in [Calls -> Call],
         \A d \in Calls : calls'[d] = calls[d]
           \/ (calls'[d].step = "idle" /\ calls[d].step = "update"),
         UNCHANGED <<fresh, active, told, lost, refused>>
  PROVE  IndInv'
  <1>1. TypeOK'
    BY DEF IndInv, TypeOK
  <1>2. row # None
    BY RowAssumption
  <1>3. \A ref \in Reference : Taken(ref)' <=> Taken(ref)
    BY <1>2 DEF Taken, IndInv, TypeOK
  <1>4. HandlerInv'
    <2>. SUFFICES ASSUME NEW d \in Calls  PROVE HandlerInv!(d)'
      BY DEF HandlerInv
    <2>1. CASE calls'[d] = calls[d]
      BY <1>3, <2>1 DEF IndInv, HandlerInv
    <2>2. CASE calls'[d].step = "idle"
      BY <2>2
    <2>. QED  BY <2>1, <2>2
  <1>5. HeardInv'
    <2>1. ASSUME NEW d \in Calls, NEW ref \in Reference, WillTell(d, ref)
          PROVE  WillTell(d, ref)'
      <3>1. calls'[d] = calls[d]
        BY <2>1 DEF WillTell
      <3>. QED  BY <3>1, <2>1 DEF WillTell
    <2>. QED  BY <2>1, <1>3 DEF IndInv, HeardInv
  <1>6. ReferencesHaveNoGaps'
    <2>. SUFFICES ASSUME NEW ref \in Reference, Taken(ref)', ref.attempt > 1
                  PROVE  Taken([ref EXCEPT !.attempt = ref.attempt - 1])'
      BY DEF ReferencesHaveNoGaps
    <2>. DEFINE prev == [ref EXCEPT !.attempt = ref.attempt - 1]
    <2>1. prev \in Reference
      BY AttemptsAssumption DEF Reference
    <2>2. Taken(prev)
      BY <1>3 DEF IndInv, ReferencesHaveNoGaps
    <2>. HIDE DEF prev
    <2>. QED  BY <1>3, <2>1, <2>2 DEF prev
  <1>7. RefusedOnlyWhenFull'
    BY <1>3 DEF IndInv, RefusedOnlyWhenFull
  <1>8. CartonsMirrorLines'
    BY <1>3 DEF IndInv, CartonsMirrorLines, TypeOK
  <1>. QED  BY <1>1, <1>4, <1>5, <1>6, <1>7, <1>8 DEF IndInv

-----------------------------------------------------------------------------
LEMMA Inductive == IndInv /\ [Next]_vars => IndInv'
  <1>. SUFFICES ASSUME IndInv, [Next]_vars  PROVE IndInv'
    OBVIOUS
  <1>. USE DEF Moves, Ends
  <1>1. ASSUME NEW k \in Customers, AcceptTerms(k) \/ TermsAge(k)  PROVE IndInv'
    <2>1. TypeOK' /\ fresh' \subseteq Customers
      BY <1>1 DEF AcceptTerms, TermsAge, IndInv, TypeOK
    <2>. QED  BY <1>1, <2>1, QuietStep DEF AcceptTerms, TermsAge
  <1>2. ASSUME NEW a \in Admins, Deactivate(a)  PROVE IndInv'
    <2>1. TypeOK' /\ fresh' \subseteq Customers
      BY <1>2 DEF Deactivate, IndInv, TypeOK
    <2>. QED  BY <1>2, <2>1, QuietStep DEF Deactivate
  <1>3. ASSUME NEW ref \in Reference, ActedOn(ref)  PROVE IndInv'
    <2>. DEFINE row == [rows[ref] EXCEPT !.pending = FALSE]
    <2>1. rows[ref] \in Row /\ rows[ref].cartons = Total(rows[ref].lines)
      BY <1>3 DEF ActedOn, Taken, IndInv, TypeOK, CartonsMirrorLines
    <2>2. row \in Row /\ row.cartons = Total(row.lines)
      BY <2>1 DEF Row
    <2>3. rows' = [rows EXCEPT ![ref] = row]
      BY <1>3 DEF ActedOn
    <2>4. /\ Taken(ref) /\ calls' \in [Calls -> Call]
          /\ UNCHANGED <<fresh, calls, active, told, lost, refused>>
      BY <1>3 DEF ActedOn, IndInv, TypeOK
    <2>. HIDE DEF row
    <2>. QED  BY <2>2, <2>3, <2>4, RowStep
  <1>4. ASSUME NEW c \in Calls, NEW k \in Customers, NEW lines \in Forms,
               NEW capacity \in Capacities, SubmitRead(c, k, lines, capacity)
        PROVE  IndInv'
    <2>. DEFINE call == [Idle EXCEPT !.step = "check", !.customer = k,
                                     !.lines = lines, !.capacity = capacity]
    <2>1. /\ call \in Call /\ call.step = "check" /\ call.customer = k
          /\ call.lines = lines /\ call.capacity = capacity
      BY IdleType DEF Call
    <2>2. /\ calls' = [calls EXCEPT ![c] = call] /\ calls[c].step = "idle"
          /\ UNCHANGED <<fresh, rows, active, told, lost, refused>>
      BY <1>4 DEF SubmitRead
    <2>. HIDE DEF call
    <2>. QED  BY <2>1, <2>2, BeforeRow
  <1>5. ASSUME NEW c \in Calls, NEW ref \in Reference,
               NEW lines \in Forms \cup {None},
               NEW capacity \in Capacities \cup {None},
               EditRead(c, ref, lines, capacity)
        PROVE  IndInv'
    <2>. DEFINE call == [Idle EXCEPT !.step = "update", !.customer = ref.customer,
                !.ref = ref, !.lines = OrElse(lines, <<>>), !.capacity = capacity]
    <2>1. OrElse(lines, <<>>) \in Forms \cup {<<>>} /\ ref.customer \in Customers
      BY DEF OrElse, Reference
    <2>2. call \in Call /\ call.step = "update" /\ call.ref = ref
      BY <2>1, IdleType DEF Call
    <2>3. /\ calls' = [calls EXCEPT ![c] = call] /\ calls[c].step = "idle"
          /\ Taken(ref) /\ UNCHANGED <<fresh, rows, active, told, lost, refused>>
      BY <1>5 DEF EditRead
    <2>. HIDE DEF call
    <2>. QED  BY <2>2, <2>3, BeforeRow
  <1>6. ASSUME NEW c \in Calls, CheckLoad(c)  PROVE IndInv'
    <2>1. /\ calls[c] \in Call /\ calls[c].step = "check"
          /\ calls[c].customer \in Customers /\ calls[c].lines \in Forms
          /\ calls[c].capacity \in Capacities
          /\ UNCHANGED <<fresh, rows, active, told, lost, refused>>
      BY <1>6 DEF CheckLoad, IndInv, HandlerInv, TypeOK
    <2>2. PICK owed \in Feeds :
            IF Accepts(owed, calls[c])
            THEN calls' = [calls EXCEPT ![c] = [calls[c] EXCEPT
                   !.step = "insert", !.owed = owed,
                   !.ref = [customer |-> calls[c].customer,
                            attempt |-> FirstAttempt(calls[c].customer)]]]
            ELSE calls' = [calls EXCEPT ![c] = Idle]
      BY <1>6 DEF CheckLoad
    <2>3. CASE Accepts(owed, calls[c])
      <3>. DEFINE first == [customer |-> calls[c].customer,
                            attempt |-> FirstAttempt(calls[c].customer)]
                  call == [calls[c] EXCEPT !.step = "insert", !.owed = owed,
                                           !.ref = first]
      <3>1. /\ first \in Reference /\ first.customer = calls[c].customer
            /\ first.attempt = 1
        BY <2>1, AttemptsAssumption DEF Reference, FirstAttempt
      <3>2. \A ref \in Reference : ~(ref.attempt < first.attempt)
        BY <3>1, AttemptsAssumption DEF Reference
      <3>. HIDE DEF first
      <3>3. /\ call \in Call /\ call.step = "insert" /\ call.ref = first
            /\ call.customer = calls[c].customer /\ call.lines = calls[c].lines
            /\ call.capacity = calls[c].capacity
        BY <2>1, <3>1 DEF Call
      <3>4. calls' = [calls EXCEPT ![c] = call]
        BY <2>2, <2>3 DEF first
      <3>. HIDE DEF call
      <3>. QED  BY <2>1, <3>1, <3>2, <3>3, <3>4, BeforeRow
    <2>4. CASE ~Accepts(owed, calls[c])
      BY <2>1, <2>2, <2>4, IdleType, BeforeRow
    <2>. QED  BY <2>3, <2>4
  <1>7. ASSUME NEW c \in Calls, Insert(c)  PROVE IndInv'
    BY <1>7, InsertStep
  <1>8. ASSUME NEW c \in Calls, Duplicate(c)  PROVE IndInv'
    <2>1. /\ calls[c] \in Call /\ calls[c].step = "insert" /\ Taken(calls[c].ref)
          /\ calls[c].customer \in Customers /\ calls[c].lines \in Forms
          /\ calls[c].capacity \in Capacities /\ calls[c].ref \in Reference
          /\ calls[c].ref.customer = calls[c].customer
          /\ \A ref \in Reference : (/\ ref.customer = calls[c].customer
                /\ ref.attempt < calls[c].ref.attempt) => Taken(ref)
          /\ UNCHANGED <<fresh, rows, active, told, lost>>
      BY <1>8 DEF Duplicate, IndInv, HandlerInv, TypeOK
    <2>2. CASE calls[c].ref.attempt = MAX_REFERENCE_ATTEMPTS
      BY <1>8, <2>1, <2>2, GiveUpStep DEF Duplicate, GivesUp
    <2>3. CASE calls[c].ref.attempt # MAX_REFERENCE_ATTEMPTS
      <3>. DEFINE up == [calls[c].ref EXCEPT !.attempt = calls[c].ref.attempt + 1]
                  call == [calls[c] EXCEPT !.ref = up]
      <3>1. /\ up \in Reference /\ up.customer = calls[c].customer
            /\ up.attempt = calls[c].ref.attempt + 1
        BY <2>1, <2>3, AttemptsAssumption DEF Reference
      <3>2. ASSUME NEW ref \in Reference, ref.customer = calls[c].customer,
                   ref.attempt < up.attempt
            PROVE  Taken(ref)
        <4>1. CASE ref.attempt = calls[c].ref.attempt
          <5>1. ref = calls[c].ref
            BY <2>1, <3>2, <4>1 DEF Reference
          <5>. QED  BY <5>1, <2>1
        <4>2. CASE ref.attempt # calls[c].ref.attempt
          BY <2>1, <3>1, <3>2, <4>2, AttemptsAssumption DEF Reference
        <4>. QED  BY <4>1, <4>2
      <3>3. calls' = [calls EXCEPT ![c] = call] /\ refused' = refused
        BY <1>8, <2>1, <2>3 DEF Duplicate, GivesUp, Call, Reference
      <3>. HIDE DEF up
      <3>4. /\ call \in Call /\ call.step = "insert" /\ call.ref = up
            /\ call.customer = calls[c].customer /\ call.lines = calls[c].lines
            /\ call.capacity = calls[c].capacity
        BY <2>1, <3>1 DEF Call
      <3>. HIDE DEF call
      <3>. QED  BY <2>1, <3>1, <3>2, <3>3, <3>4, BeforeRow
    <2>. QED  BY <2>2, <2>3
  <1>9. ASSUME NEW c \in Calls, FindAdmins(c)  PROVE IndInv'
    <2>. DEFINE call == Telling(calls[c], active)
    <2>1. /\ calls[c] \in Call /\ active \in SUBSET Admins
          /\ calls[c].step = "admins" /\ calls' = [calls EXCEPT ![c] = call]
          /\ UNCHANGED <<fresh, rows, active, told, lost, refused>>
      BY <1>9 DEF FindAdmins, Recipients, IndInv, TypeOK
    <2>2. /\ call \in Call /\ call.step \in {"idle", "tell"}
          /\ call.step = "tell" => call.ref = calls[c].ref
          /\ active = {} \/ (call.step = "tell" /\ call.tell = active
                             /\ call.ref = calls[c].ref)
      BY <2>1, TellingType, IdleType
    <2>. HIDE DEF call
    <2>3. TypeOK'
      BY <2>1, <2>2 DEF IndInv, TypeOK
    <2>. QED  BY <2>1, <2>2, <2>3, AfterRow DEF WillTell
  <1>10. ASSUME NEW c \in Calls, TellAdmin(c)  PROVE IndInv'
    <2>1. PICK a \in calls[c].tell :
            /\ told' = [told EXCEPT ![calls[c].ref] = @ \cup {a}]
            /\ calls' = [calls EXCEPT ![c] = Telling(calls[c], calls[c].tell \ {a})]
      BY <1>10 DEF TellAdmin
    <2>. DEFINE rest == calls[c].tell \ {a}
                call == Telling(calls[c], rest)
                new  == calls[c].ref
    <2>2. /\ calls[c] \in Call /\ rest \in SUBSET Admins /\ a \in Admins
          /\ calls[c].step = "tell" /\ new \in Reference
          /\ UNCHANGED <<fresh, rows, active, lost, refused>>
      BY <1>10 DEF TellAdmin, IndInv, TypeOK, HandlerInv, Call
    <2>3. /\ told' = [told EXCEPT ![new] = @ \cup {a}]
          /\ calls' = [calls EXCEPT ![c] = call]
      BY <2>1
    <2>4. /\ call \in Call /\ call.step \in {"idle", "tell"}
          /\ call.step = "tell" => call.ref = new
          /\ rest = {} \/ (call.step = "tell" /\ call.tell = rest /\ call.ref = new)
      BY <2>2, TellingType, IdleType
    <2>. HIDE DEF call
    <2>5. TypeOK'
      BY <2>2, <2>3, <2>4 DEF IndInv, TypeOK
    <2>6. /\ \A ref \in Reference : told[ref] \subseteq told'[ref]
          /\ told'[new] = told[new] \cup {a}
      BY <2>2, <2>3 DEF IndInv, TypeOK
    <2>7. ASSUME NEW ref \in Reference, WillTell(c, ref)
          PROVE  \/ active \subseteq told'[ref]
                 \/ /\ call.step = "tell" /\ call.ref = ref
                    /\ active \subseteq told'[ref] \cup call.tell
      <3>1. ref = new /\ active \subseteq told[ref] \cup calls[c].tell
        BY <2>2, <2>7 DEF WillTell
      <3>2. active \subseteq told'[ref] \cup rest
        BY <3>1, <2>6
      <3>. QED  BY <3>1, <3>2, <2>4
    <2>. QED  BY <2>2, <2>3, <2>4, <2>5, <2>6, <2>7, AfterRow
  <1>11. ASSUME NEW c \in Calls, EditWrite(c)  PROVE IndInv'
    <2>. DEFINE x == calls[c].ref
                row == Edited(rows[x], calls[c])
    <2>1. /\ calls[c] \in Call /\ calls[c].step = "update" /\ x \in Reference
          /\ Taken(x) /\ calls' = [calls EXCEPT ![c] = Idle]
          /\ rows' = [rows EXCEPT ![x] = row]
          /\ UNCHANGED <<fresh, active, told, lost, refused>>
      BY <1>11 DEF EditWrite, IndInv, HandlerInv, TypeOK
    <2>2. rows[x] \in Row /\ rows[x].cartons = Total(rows[x].lines)
      BY <2>1 DEF Taken, IndInv, TypeOK, CartonsMirrorLines
    <2>3. row \in Row /\ row.cartons = Total(row.lines)
      BY <2>1, <2>2, EditedType
    <2>4. /\ calls' \in [Calls -> Call]
          /\ \A d \in Calls : calls'[d] = calls[d]
               \/ (calls'[d].step = "idle" /\ calls[d].step = "update")
      BY <2>1, IdleType DEF IndInv, TypeOK
    <2>. HIDE DEF x, row
    <2>. QED  BY <2>1, <2>3, <2>4, RowStep
  <1>12. ASSUME NEW c \in Calls, Crash(c)  PROVE IndInv'
    <2>1. /\ calls' = [calls EXCEPT ![c] = Idle]
          /\ UNCHANGED <<fresh, rows, active, told, refused>>
          /\ lost \subseteq lost'
      BY <1>12 DEF Crash
    <2>2. TypeOK'
      BY <1>12, IdleType DEF Crash, IndInv, TypeOK, HandlerInv
    <2>3. \A ref \in Reference : WillTell(c, ref) => ref \in lost'
      BY <1>12 DEF Crash, WillTell
    <2>. QED  BY <2>1, <2>2, <2>3, IdleType, AfterRow
  <1>13. CASE UNCHANGED vars
    <2>1. TypeOK'
      BY <1>13 DEF vars, IndInv, TypeOK
    <2>. QED  BY <1>13, <2>1, QuietStep DEF vars, IndInv, TypeOK
  <1>. QED
    BY <1>1, <1>2, <1>3, <1>4, <1>5, <1>6, <1>7, <1>8, <1>9, <1>10, <1>11, <1>12,
       <1>13 DEF Next, Environment, Start, Continue
-----------------------------------------------------------------------------
(* The inductive invariant holds of every behaviour of the handlers.         *)
THEOREM Invariance == Spec => []IndInv
  BY Initially, Inductive, PTL DEF Spec

(* Every record of the submission handlers keeps its type; no reference      *)
(* beyond the last suffix is ever tried.                                     *)
THEOREM TypeCorrect == Spec => []TypeOK
  <1>1. IndInv => TypeOK
    BY DEF IndInv
  <1>. QED  BY <1>1, Invariance, PTL

(* However many submissions race, one distributor's references of a day are  *)
(* handed out without gaps.                                                  *)
THEOREM NoGaps == Spec => []ReferencesHaveNoGaps
  <1>1. IndInv => ReferencesHaveNoGaps
    BY DEF IndInv
  <1>. QED  BY <1>1, Invariance, PTL

(* No loser of a race for references is refused while one is free.           *)
THEOREM RefusedWhenFull == Spec => []RefusedOnlyWhenFull
  <1>1. IndInv => RefusedOnlyWhenFull
    BY DEF IndInv
  <1>. QED  BY <1>1, Invariance, PTL

(* quantityCartons is the sum of the lines through any race of edits.        *)
THEOREM CartonsMirror == Spec => []CartonsMirrorLines
  <1>1. IndInv => CartonsMirrorLines
    BY DEF IndInv
  <1>. QED  BY <1>1, Invariance, PTL

(* Every active admin hears of every request whose handler did not die.      *)
THEOREM AdminsHear == Spec => []AdminsHearOfRequest
  <1>1. IndInv => AdminsHearOfRequest
    BY DEF IndInv, HeardInv, WillTell, AdminsHearOfRequest, Announced
  <1>. QED  BY <1>1, Invariance, PTL

-----------------------------------------------------------------------------
(* The check of a load, for lines that copy what the picker listed.          *)

(* The line says of a product what the product says of itself.               *)
Echoes(line, p) ==
  line.productId = p.productId /\ line.spec = p.spec /\ line.productName = p.productName

(* The key such a line is looked up by.                                      *)
FirstKey(x) ==
  IF x.productId # None THEN IdKey(x) ELSE IF x.spec # None THEN SpecKey(x) ELSE NameKey(x)

(* The lines that can only mean p, and those looked up by a key.             *)
Meaning(owed, lines, p) == {i \in DOMAIN lines : OnlyNames(owed, lines[i], p)}
LookedUp(owed, lines, key) == {i \in DOMAIN lines : keyFor(owed, lines[i]) = key}
Quantities(lines, S) == MapThenSumSet(LAMBDA i : lines[i].quantity, S)

LEMMA KeysDiffer ==
  ASSUME NEW x, NEW y
  PROVE  IdKey(x) # SpecKey(y) /\ IdKey(x) # NameKey(y) /\ SpecKey(x) # NameKey(y)
  <1>1. IdKey(x)[1] = "id" /\ SpecKey(x)[1] = "ns" /\ NameKey(x)[1] = "n"
    BY DEF IdKey, SpecKey, NameKey
  <1>2. IdKey(y)[1] = "id" /\ SpecKey(y)[1] = "ns" /\ NameKey(y)[1] = "n"
    BY DEF IdKey, SpecKey, NameKey
  <1>3. "id" # "ns" /\ "id" # "n" /\ "ns" # "n"
    OBVIOUS
  <1>. QED  BY <1>1, <1>2, <1>3

LEMMA KeysSay ==
  ASSUME NEW x, NEW y
  PROVE  /\ IdKey(x) = IdKey(y) => x.productId = y.productId
         /\ SpecKey(x) = SpecKey(y) => x.productName = y.productName /\ x.spec = y.spec
         /\ NameKey(x) = NameKey(y) => x.productName = y.productName
  BY DEF IdKey, SpecKey, NameKey

(* The line is looked up by the key of its product.                          *)
LEMMA FoundByItsKey ==
  ASSUME NEW owed, NEW p \in owed, NEW line, Echoes(line, p)
  PROVE  keyFor(owed, line) = FirstKey(p)
  <1>1. /\ IdKey(line) = IdKey(p) /\ SpecKey(line) = SpecKey(p) /\ NameKey(line) = NameKey(p)
        /\ KeysOf(line) = KeysOf(p)
    BY DEF Echoes, IdKey, SpecKey, NameKey, KeysOf
  <1>2. KeysOf(p) \subseteq Known(owed)
    BY DEF Known
  <1>3. KeysOf(line) \cap Known(owed) = KeysOf(p)
    BY <1>1, <1>2
  <1>4. /\ IdKey(p) \in KeysOf(p) <=> p.productId # None
        /\ SpecKey(p) \in KeysOf(p) <=> p.spec # None
        /\ NameKey(p) \in KeysOf(p)
    BY KeysDiffer DEF KeysOf
  <1>. QED  BY <1>1, <1>3, <1>4 DEF keyFor, FirstKey

(* A key under which the line is the product's own is nobody else's.         *)
LEMMA KeyIsItsOwn ==
  ASSUME NEW owed, NEW p \in owed, NEW line, Echoes(line, p), OnlyNames(owed, line, p),
         NEW q \in owed, FirstKey(p) \in KeysOf(q)
  PROVE  q = p
  <1>1. /\ IdKey(p) \in KeysOf(q) => q.productId # None /\ IdKey(q) = IdKey(p)
        /\ SpecKey(p) \in KeysOf(q) => SpecKey(q) = SpecKey(p)
        /\ NameKey(p) \in KeysOf(q) => NameKey(q) = NameKey(p)
    BY KeysDiffer DEF KeysOf
  <1>2. Names(line, q)
    <2>1. CASE p.productId # None
      BY <1>1, <2>1, KeysSay DEF FirstKey, Names, Echoes
    <2>2. CASE p.productId = None /\ p.spec # None
      BY <1>1, <2>2, KeysSay DEF FirstKey, Names, Echoes
    <2>3. CASE p.productId = None /\ p.spec = None
      BY <1>1, <2>3, KeysSay DEF FirstKey, Names, Echoes
    <2>. QED  BY <2>1, <2>2, <2>3
  <1>. QED  BY <1>2 DEF OnlyNames

LEMMA LeftOfOne ==
  ASSUME NEW p, p.quantityLeft \in Nat
  PROVE  MapThenSumSet(LAMBDA q : q.quantityLeft, {p}) = p.quantityLeft
  <1>. DEFINE S == {p}
              v == [q \in S |-> q.quantityLeft]
              B(g) == [s \in SUBSET S |-> IF s = {} THEN 0
                                          ELSE Pick(s).quantityLeft + g[s \ {Pick(s)}]]
              V(g) == [s \in SUBSET S |-> IF s = {} THEN 0 ELSE v[Pick(s)] + g[s \ {Pick(s)}]]
  <1>1. MapThenSumSet(LAMBDA q : q.quantityLeft, S) = (CHOOSE g : g = B(g))[S]
    BY Zenon DEF MapThenSumSet, MapThenFoldSet, Pick
  <1>2. SumFunctionOnSet(v, S) = (CHOOSE g : g = V(g))[S]
    BY Zenon, SumByDefinition DEF Adds
  <1>3. ASSUME NEW g  PROVE B(g) = V(g)
    <2>1. ASSUME NEW s \in SUBSET S, s # {}  PROVE v[Pick(s)] = Pick(s).quantityLeft
      <3>1. Pick(s) \in S
        BY <2>1, PickIsIn
      <3>. QED  BY <3>1
    <2>. QED  BY <2>1
  <1>4. SumFunctionOnSet(v, {} \cup {p}) = v[p] + SumFunctionOnSet(v, {})
    <2>1. IsFiniteSet({}) /\ p \notin {} /\ v[p] \in Int /\ \A i \in {} : v[i] \in Int
      BY FS_EmptySet
    <2>. HIDE DEF v
    <2>. QED  BY <2>1, SumOfOneMore
  <1>5. SumFunctionOnSet(v, {}) = 0 /\ {} \cup {p} = S /\ v[p] = p.quantityLeft
    BY SumOfNone
  <1>. HIDE DEF B, V, v
  <1>6. \A g : (g = B(g)) <=> (g = V(g))
    BY <1>3
  <1>7. (CHOOSE g : g = B(g)) = (CHOOSE g : g = V(g))
    BY <1>6
  <1>8. MapThenSumSet(LAMBDA q : q.quantityLeft, S) = SumFunctionOnSet(v, S)
    BY <1>1, <1>2, <1>7
  <1>. QED  BY <1>4, <1>5, <1>8

(* What the handlers check through the keys is what the check is for.        *)
LEMMA ChecksWhatIsOwed ==
  ASSUME NEW owed \in Feeds \cup {{}}, NEW lines \in Forms, WithinQuantityLeft(owed, lines),
         \A i \in DOMAIN lines, p \in owed :
           OnlyNames(owed, lines[i], p) => Echoes(lines[i], p)
  PROVE  WithinOwed(owed, lines)
  <1>. SUFFICES ASSUME NEW p \in owed
                PROVE  Quantities(lines, Meaning(owed, lines, p)) <= p.quantityLeft
    BY DEF WithinOwed, Quantities, Meaning
  <1>1. p.quantityLeft \in Nat
    BY FeedsAssumption
  <1>2. CASE Meaning(owed, lines, p) = {}
    <2>. DEFINE M == Meaning(owed, lines, p)
                w == [i \in M |-> lines[i].quantity]
    <2>. HIDE DEF M
    <2>1. Quantities(lines, M) = SumFunctionOnSet(w, M)
      BY QuantitiesAreASum DEF Quantities
    <2>. HIDE DEF w
    <2>2. M = {} /\ SumFunctionOnSet(w, {}) = 0
      BY <1>2, SumOfNone DEF M
    <2>3. Quantities(lines, M) = 0
      BY <2>1, <2>2
    <2>. QED  BY <1>1, <2>3 DEF M
  <1>3. CASE Meaning(owed, lines, p) # {}
    <2>. DEFINE key == FirstKey(p)
                M == Meaning(owed, lines, p)
                L == LookedUp(owed, lines, key)
                v == [i \in L |-> lines[i].quantity]
                w == [i \in M |-> lines[i].quantity]
    <2>1. PICK n \in DOMAIN lines : OnlyNames(owed, lines[n], p) /\ Echoes(lines[n], p)
      BY <1>3 DEF Meaning
    <2>2. key \in KeysOf(p) /\ key \in Known(owed)
      BY DEF FirstKey, KeysOf, Known
    <2>3. {q \in owed : key \in KeysOf(q)} = {p}
      BY <2>1, <2>2, KeyIsItsOwn
    <2>4. Left(owed, key) = p.quantityLeft
      BY <1>1, <2>3, LeftOfOne DEF Left
    <2>5. Quantities(lines, L) <= p.quantityLeft
      BY <2>2, <2>4 DEF WithinQuantityLeft, Requested, Quantities, LookedUp
    <2>6. M \subseteq L /\ L \subseteq DOMAIN lines
      BY FoundByItsKey DEF Meaning, LookedUp
    <2>7. IsFiniteSet(L) /\ IsFiniteSet(M) /\ \A i \in L : v[i] \in Nat
      BY <2>6, FormsAssumption, FS_Subset
    <2>8. \A i \in M : v[i] \in Int /\ v[i] = w[i]
      BY <2>6, <2>7
    <2>9. /\ Quantities(lines, L) = SumFunctionOnSet(v, L)
          /\ Quantities(lines, M) = SumFunctionOnSet(w, M)
      BY QuantitiesAreASum DEF Quantities
    <2>. HIDE DEF M, L, v, w
    <2>10. SumFunctionOnSet(v, M) = SumFunctionOnSet(w, M)
      BY <2>7, <2>8, SumsAgree
    <2>11. /\ SumFunctionOnSet(v, M) <= SumFunctionOnSet(v, L)
           /\ SumFunctionOnSet(v, M) \in Nat /\ SumFunctionOnSet(v, L) \in Nat
      BY <2>6, <2>7, SumOfSome, SumIsNat
    <2>12. \A a, b, c \in Nat : a <= b /\ b <= c => a <= c
      OBVIOUS
    <2>13. Quantities(lines, M) <= p.quantityLeft
      BY <1>1, <2>5, <2>9, <2>10, <2>11, <2>12
    <2>. QED  BY <2>13 DEF M
  <1>. QED  BY <1>2, <1>3

(* What a handler at its INSERT was told is left covers its load.            *)
OwedInv ==
  \A c \in Calls :
    calls[c].step = "insert" => WithinQuantityLeft(calls[c].owed, calls[c].lines)

LEMMA OwedStep == IndInv /\ OwedInv /\ [Next]_vars => OwedInv'
  <1>. SUFFICES ASSUME IndInv, OwedInv, [Next]_vars, NEW d \in Calls, calls'[d].step = "insert"
                PROVE  WithinQuantityLeft(calls'[d].owed, calls'[d].lines)
    BY DEF OwedInv
  <1>1. CASE calls'[d] = calls[d]
    BY <1>1 DEF OwedInv
  <1>2. ASSUME calls'[d] # calls[d]
        PROVE  \/ CheckLoad(d) \/ Duplicate(d)
               \/ calls'[d].step # "insert"
    <2>1. ASSUME NEW c \in Calls, NEW call, calls' = [calls EXCEPT ![c] = call]
          PROVE  d = c /\ calls'[d] = call
      BY <1>2, <2>1 DEF IndInv, TypeOK
    <2>2. Idle.step = "idle"
      BY IdleType
    <2>3. ASSUME NEW c \in Calls, Start(c) \/ Insert(c) \/ EditWrite(c) \/ Crash(c)
          PROVE  calls'[d].step # "insert"
      <3>1. CASE Start(c)
        <4>1. ASSUME NEW k \in Customers, NEW lines \in Forms, NEW capacity \in Capacities,
                     SubmitRead(c, k, lines, capacity)
              PROVE  calls'[d].step # "insert"
          <5>. DEFINE call == [Idle EXCEPT !.step = "check", !.customer = k, !.lines = lines,
                                           !.capacity = capacity]
          <5>1. call.step = "check"
            BY DEF Idle
          <5>2. calls' = [calls EXCEPT ![c] = call]
            BY <4>1 DEF SubmitRead, Moves
          <5>. HIDE DEF call
          <5>. QED  BY <2>1, <5>1, <5>2
        <4>2. ASSUME NEW ref \in Reference, NEW lines, NEW capacity, EditRead(c, ref, lines, capacity)
              PROVE  calls'[d].step # "insert"
          <5>. DEFINE call == [Idle EXCEPT !.step = "update", !.customer = ref.customer,
                 !.ref = ref, !.lines = OrElse(lines, <<>>), !.capacity = capacity]
          <5>1. call.step = "update"
            BY DEF Idle
          <5>2. calls' = [calls EXCEPT ![c] = call]
            BY <4>2 DEF EditRead, Moves
          <5>. HIDE DEF call
          <5>. QED  BY <2>1, <5>1, <5>2
        <4>. QED  BY <3>1, <4>1, <4>2 DEF Start
      <3>2. CASE Insert(c)
        <4>. DEFINE call == [Idle EXCEPT !.step = "admins", !.ref = calls[c].ref]
        <4>1. call.step = "admins"
          BY DEF Idle
        <4>2. calls' = [calls EXCEPT ![c] = call]
          BY <3>2 DEF Insert, Moves
        <4>. HIDE DEF call
        <4>. QED  BY <2>1, <4>1, <4>2
      <3>3. CASE EditWrite(c) \/ Crash(c)
        BY <3>3, <2>1, <2>2 DEF EditWrite, Crash, Ends, Moves
      <3>. QED  BY <2>3, <3>1, <3>2, <3>3
    <2>4. ASSUME NEW c \in Calls, FindAdmins(c) \/ TellAdmin(c)
          PROVE  calls'[d].step # "insert"
      <3>1. PICK left \in SUBSET Admins : calls' = [calls EXCEPT ![c] = Telling(calls[c], left)]
        <4>1. CASE FindAdmins(c)
          BY <4>1 DEF FindAdmins, Moves, Recipients, IndInv, TypeOK
        <4>2. CASE TellAdmin(c)
          BY <4>2 DEF TellAdmin, Moves, IndInv, TypeOK, Call
        <4>. QED  BY <2>4, <4>1, <4>2
      <3>2. calls[c] \in Call
        BY DEF IndInv, TypeOK
      <3>3. Telling(calls[c], left).step \in {"idle", "tell"}
        BY <2>2, <3>2, TellingType
      <3>. QED  BY <2>1, <3>1, <3>3
    <2>5. ASSUME NEW c \in Calls, CheckLoad(c)  PROVE c = d
      BY <2>1, <2>5 DEF CheckLoad, Ends, Moves
    <2>6. ASSUME NEW c \in Calls, Duplicate(c)  PROVE c = d
      BY <2>1, <2>6 DEF Duplicate, Ends, Moves
    <2>7. ~(UNCHANGED calls)
      BY <1>2
    <2>8. PICK c \in Calls : Start(c) \/ Continue(c) \/ Crash(c)
      BY <2>7 DEF Next, Environment, AcceptTerms, TermsAge, Deactivate, ActedOn, vars
    <2>. QED  BY <2>3, <2>4, <2>5, <2>6, <2>8 DEF Continue
  <1>3. CASE CheckLoad(d)
    <2>1. calls[d] \in Call /\ calls \in [Calls -> Call] /\ Idle.step = "idle"
      BY IdleType DEF IndInv, TypeOK
    <2>2. PICK owed \in Feeds :
            IF Accepts(owed, calls[d])
            THEN calls' = [calls EXCEPT ![d] = [calls[d] EXCEPT
                   !.step = "insert", !.owed = owed,
                   !.ref = [customer |-> calls[d].customer,
                            attempt |-> FirstAttempt(calls[d].customer)]]]
            ELSE calls' = [calls EXCEPT ![d] = Idle]
      BY <1>3 DEF CheckLoad, Moves, Ends
    <2>3. Accepts(owed, calls[d])
      BY <2>1, <2>2
    <2>. DEFINE ref  == [customer |-> calls[d].customer,
                         attempt |-> FirstAttempt(calls[d].customer)]
                call == [calls[d] EXCEPT !.step = "insert", !.owed = owed, !.ref = ref]
    <2>4. calls' = [calls EXCEPT ![d] = call]
      BY <2>2, <2>3
    <2>. HIDE DEF ref
    <2>5. call.owed = owed /\ call.lines = calls[d].lines
      BY <2>1 DEF Call
    <2>. HIDE DEF call
    <2>6. calls'[d] = call
      BY <2>1, <2>4
    <2>. QED  BY <2>3, <2>5, <2>6 DEF Accepts
  <1>4. CASE Duplicate(d)
    <2>1. calls[d] \in Call /\ calls \in [Calls -> Call] /\ Idle.step = "idle"
      BY IdleType DEF IndInv, TypeOK
    <2>2. PICK n : calls' = [calls EXCEPT ![d] = [calls[d] EXCEPT !.ref.attempt = n]]
      BY <1>4, <2>1 DEF Duplicate, Moves, Ends
    <2>3. calls'[d].owed = calls[d].owed /\ calls'[d].lines = calls[d].lines
      BY <2>1, <2>2 DEF Call
    <2>4. calls[d].step = "insert"
      BY <1>4 DEF Duplicate
    <2>. QED  BY <2>3, <2>4 DEF OwedInv
  <1>. QED  BY <1>1, <1>2, <1>3, <1>4

(* As long as a line that can only mean one product copies what the picker   *)
(* lists of it, no request is created for more of a product than was left,   *)
(* however its lines share it.                                               *)
THEOREM CreatedWithin ==
  ASSUME \A owed \in Feeds, lines \in Forms : \A i \in DOMAIN lines, p \in owed :
           OnlyNames(owed, lines[i], p) => Echoes(lines[i], p)
  PROVE  Spec => CreatedWithinOwed
  <1>1. Init => OwedInv
    BY IdleType DEF Init, OwedInv
  <1>2. IndInv /\ OwedInv /\ [Next]_vars => OwedInv'
    BY OwedStep
  <1>. DEFINE Within == \A c \in Calls : calls[c].step = "insert" /\ calls'[c].step = "admins"
                                           => WithinOwed(calls[c].owed, calls[c].lines)
  <1>3. IndInv /\ OwedInv /\ [Next]_vars => [Within]_vars
    <2>. SUFFICES ASSUME IndInv, OwedInv, NEW c \in Calls, calls[c].step = "insert"
                  PROVE  WithinOwed(calls[c].owed, calls[c].lines)
      OBVIOUS
    <2>1. /\ calls[c].lines \in Forms /\ calls[c].owed \in Feeds \cup {{}}
          /\ WithinQuantityLeft(calls[c].owed, calls[c].lines)
      BY DEF IndInv, TypeOK, HandlerInv, Call, OwedInv
    <2>. QED  BY <2>1, ChecksWhatIsOwed
  <1>. QED  BY <1>1, <1>2, <1>3, Invariance, PTL DEF Spec, CreatedWithinOwed
=============================================================================
