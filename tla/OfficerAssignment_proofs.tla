---------------------- MODULE OfficerAssignment_proofs ----------------------
(***************************************************************************)
(* What holds of the assignment routes for every set of customers,         *)
(* officers, administrators and handlers in flight.                        *)
(***************************************************************************)
EXTENDS OfficerAssignment, TLAPS

(* What a handler brings to its write, checked against nothing that can      *)
(* change: who it moves customers between, and by whom an account is retired.*)
HandlerInv ==
  \A c \in Calls :
    /\ calls[c].route = "reassign" => calls[c].to \in Officers
    /\ calls[c].route = "all" =>
         /\ calls[c].from \in Officers /\ calls[c].to \in Officers
         /\ calls[c].from # calls[c].to
    /\ calls[c].route = "retire" => calls[c].to \in Staff /\ calls[c].by \in Admins
    /\ calls[c].step = "tell" => calls[c].route \in {"reassign", "all"}
    /\ calls[c].step = "idle" => calls[c].route = "none"
    /\ calls[c].route # "reassign" => calls[c].rest = {}

IndInv == TypeOK /\ HandlerInv /\ InStepUnlessRaced /\ HolderIsTold

-----------------------------------------------------------------------------
(* The records of the handlers and the join rows have their types.           *)

LEMMA IdleType ==
  Idle \in Call /\ Idle.step = "idle" /\ Idle.route = "none" /\ Idle.rest = {}
  BY DEF Idle, Call

LEMMA NextItemType ==
  ASSUME NEW call \in Call
  PROVE  /\ NextItem(call) \in Call
         /\ NextItem(call) # Idle =>
              /\ NextItem(call).route = "reassign" /\ NextItem(call).step = "next"
              /\ NextItem(call).to = call.to /\ call.rest # {}
  BY IdleType DEF NextItem, Call

JoinRow == [Officers -> {"none", "secondary", "primary"}]

LEMMA MovedRow ==
  ASSUME NEW row \in JoinRow,
         NEW from \in Officers \cup {None}, NEW to \in Officers
  PROVE  /\ movePrimaryAssignment(row, from, to) \in JoinRow
         /\ \A o \in Officers :
              /\ movePrimaryAssignment(row, from, to)[o] = "primary" <=>
                   (o = to \/ (row[o] = "primary" /\ o # from))
              /\ row[o] = "secondary" =>
                   movePrimaryAssignment(row, from, to)[o] # "none"
  BY DEF movePrimaryAssignment, JoinRow

-----------------------------------------------------------------------------
LEMMA Initially == Init => IndInv
  <1>. SUFFICES ASSUME Init  PROVE IndInv
    OBVIOUS
  <1>1. TypeOK
    BY IdleType DEF Init, TypeOK, Staff
  <1>2. HandlerInv
    BY IdleType DEF Init, HandlerInv
  <1>3. InStepUnlessRaced
    BY DEF Init, InStepUnlessRaced, PrimaryOf, HolderOf
  <1>4. HolderIsTold
    BY DEF Init, HolderIsTold
  <1>. QED  BY <1>1, <1>2, <1>3, <1>4 DEF IndInv

-----------------------------------------------------------------------------
(* A handler goes on to a record that keeps what its route relies on.        *)
Sound(call) ==
  /\ call \in Call
  /\ call.route = "reassign" => call.to \in Officers
  /\ call.route = "all" =>
       call.from \in Officers /\ call.to \in Officers /\ call.from # call.to
  /\ call.route = "retire" => call.to \in Staff /\ call.by \in Admins
  /\ call.step = "tell" => call.route \in {"reassign", "all"}
  /\ call.step = "idle" => call.route = "none"
  /\ call.route # "reassign" => call.rest = {}

LEMMA CallSound ==
  ASSUME IndInv, NEW c \in Calls
  PROVE  Sound(calls[c])
  BY DEF IndInv, TypeOK, HandlerInv, Sound

LEMMA IdleSound == Sound(Idle)
  BY IdleType DEF Sound

LEMMA NextSound ==
  ASSUME NEW call, Sound(call)
  PROVE  Sound(NextItem(call))
  <1>1. CASE NextItem(call) = Idle
    BY <1>1, IdleSound
  <1>2. CASE NextItem(call) # Idle
    BY <1>2, NextItemType DEF Sound
  <1>. QED  BY <1>1, <1>2

LEMMA CallsKept ==
  ASSUME IndInv, NEW c \in Calls, NEW call, Sound(call),
         calls' = [calls EXCEPT ![c] = call]
  PROVE  calls' \in [Calls -> Call] /\ HandlerInv' /\ calls'[c] = call
  BY DEF IndInv, TypeOK, HandlerInv, Sound

(* A step that moves one handler and nothing else, unless what it does is    *)
(* retire or restore an account or settle a notice.                          *)
LEMMA CallStep ==
  ASSUME IndInv, NEW c \in Calls, NEW call, Sound(call),
         calls' = [calls EXCEPT ![c] = call],
         UNCHANGED <<assigned, joins, raced>>,
         isActive' \subseteq Staff, retiredBy' \in [Staff -> Admins \cup {None}],
         \/ calls[c].step # "tell" /\ settled' = settled
         \/ settled' = settled \cup HeldBy(calls[c].customers, calls[c].to)
  PROVE  IndInv'
  <1>1. HandlerInv' /\ TypeOK'
    <2>1. HeldBy(calls[c].customers, calls[c].to) \subseteq Customers
      BY CallSound DEF Sound, Call, HeldBy
    <2>. QED  BY <2>1, CallsKept DEF IndInv, TypeOK
  <1>2. InStepUnlessRaced'
    BY DEF IndInv, InStepUnlessRaced, PrimaryOf, HolderOf
  <1>3. HolderIsTold'
    <2>. SUFFICES ASSUME NEW k \in Customers,
                         assigned[k] \notin {None, DefaultOfficer}, k \notin settled'
                  PROVE  \E d \in Calls :
                           /\ calls'[d].step = "tell" /\ k \in calls'[d].customers
                           /\ calls'[d].to = assigned[k]
      BY DEF HolderIsTold
    <2>1. k \notin settled
      OBVIOUS
    <2>2. PICK d \in Calls : /\ calls[d].step = "tell" /\ k \in calls[d].customers
                             /\ calls[d].to = assigned[k]
      BY <2>1 DEF IndInv, HolderIsTold
    <2>3. d # c
      BY <2>2 DEF HeldBy
    <2>. QED  BY <2>2, <2>3 DEF IndInv, TypeOK
  <1>. QED  BY <1>1, <1>2, <1>3 DEF IndInv

-----------------------------------------------------------------------------
(* The three transactions that write assignments.                            *)

(* Customers ks get officer to, their row moved from who is said to hold     *)
(* them; the handler goes on to tell that officer.                           *)
LEMMA ReassignStep ==
  ASSUME IndInv, NEW c \in Calls, ReassignWrite(c)
  PROVE  IndInv'
  <1>. DEFINE ks == calls[c].customers
              from == calls[c].from
              to == calls[c].to
              call == [calls[c] EXCEPT !.step = "tell"]
  <1>1. /\ Sound(calls[c]) /\ calls[c].route = "reassign" /\ calls[c].step = "write"
        /\ ks \subseteq Customers /\ from \in Officers \cup {None} /\ to \in Officers
        /\ to # None
    BY CallSound, StaffAssumption DEF ReassignWrite, At, Sound, Call
  <1>2. /\ assigned' = [k \in Customers |-> IF k \in ks THEN to ELSE assigned[k]]
        /\ joins' = [k \in Customers |-> IF k \in ks
                       THEN movePrimaryAssignment(joins[k], from, to) ELSE joins[k]]
        /\ raced' = raced \cup {k \in ks : assigned[k] # from}
        /\ calls' = [calls EXCEPT ![c] = call]
        /\ settled' = settled \ ks /\ UNCHANGED <<isActive, retiredBy>>
    BY DEF ReassignWrite, Moves
  <1>3. /\ Sound(call) /\ call.step = "tell" /\ call.to = to
        /\ call.customers = ks
    BY <1>1 DEF Sound, Call
  <1>. HIDE DEF ks, from, to, call
  <1>4. calls' \in [Calls -> Call] /\ HandlerInv' /\ calls'[c] = call
    BY <1>2, <1>3, CallsKept
  <1>5. ASSUME NEW k \in ks
        PROVE  /\ joins'[k] \in JoinRow
               /\ \A o \in Officers : joins'[k][o] = "primary" <=>
                    (o = to \/ (joins[k][o] = "primary" /\ o # from))
    <2>1. /\ joins'[k] = movePrimaryAssignment(joins[k], from, to)
          /\ joins[k] \in JoinRow
      BY <1>1, <1>2 DEF IndInv, TypeOK, JoinRow
    <2>2. /\ movePrimaryAssignment(joins[k], from, to) \in JoinRow
          /\ \A o \in Officers :
               movePrimaryAssignment(joins[k], from, to)[o] = "primary" <=>
                 (o = to \/ (joins[k][o] = "primary" /\ o # from))
      BY <1>1, <2>1 DEF movePrimaryAssignment, JoinRow
    <2>. QED  BY <2>1, <2>2
  <1>6. TypeOK'
    BY <1>1, <1>2, <1>4, <1>5 DEF IndInv, TypeOK, JoinRow
  <1>7. InStepUnlessRaced'
    <2>. SUFFICES ASSUME NEW k \in Customers, k \notin raced'
                  PROVE  PrimaryOf(k)' = HolderOf(k)'
      BY DEF InStepUnlessRaced
    <2>1. PrimaryOf(k) = HolderOf(k)
      BY <1>2 DEF IndInv, InStepUnlessRaced
    <2>2. CASE k \in ks
      <3>1. assigned[k] = from /\ assigned'[k] = to
        BY <1>2, <2>2
      <3>2. \A o \in Officers : joins'[k][o] = "primary" <=> o = to
        BY <1>5, <2>1, <2>2, <3>1 DEF PrimaryOf, HolderOf
      <3>. QED  BY <1>1, <3>1, <3>2 DEF PrimaryOf, HolderOf
    <2>3. CASE k \notin ks
      BY <1>2, <2>1, <2>3 DEF PrimaryOf, HolderOf
    <2>. QED  BY <2>2, <2>3
  <1>8. HolderIsTold'
    <2>. SUFFICES ASSUME NEW k \in Customers, k \notin settled',
                         assigned'[k] \notin {None, DefaultOfficer}
                  PROVE  \E d \in Calls :
                           /\ calls'[d].step = "tell" /\ k \in calls'[d].customers
                           /\ calls'[d].to = assigned'[k]
      BY DEF HolderIsTold
    <2>1. CASE k \in ks
      BY <1>2, <1>3, <1>4, <2>1
    <2>2. CASE k \notin ks
      <3>1. assigned'[k] = assigned[k] /\ k \notin settled
        BY <1>2, <2>2
      <3>2. PICK d \in Calls : /\ calls[d].step = "tell" /\ k \in calls[d].customers
                               /\ calls[d].to = assigned[k]
        BY <3>1 DEF IndInv, HolderIsTold
      <3>3. calls'[d] = calls[d]
        BY <1>1, <1>2, <3>2 DEF IndInv, TypeOK
      <3>. QED  BY <3>1, <3>2, <3>3
    <2>. QED  BY <2>1, <2>2
  <1>. QED  BY <1>4, <1>6, <1>7, <1>8 DEF IndInv

(* The list and the WHERE of a full move differ only in customers that count *)
(* as raced.                                                                 *)
LEMMA AllStep ==
  ASSUME IndInv, NEW c \in Calls, AllWrite(c)
  PROVE  IndInv'
  <1>. DEFINE moving == calls[c].customers
              from == calls[c].from
              to == calls[c].to
              updated == HeldBy(Customers, from)
              call == IF updated = {} THEN Idle
                      ELSE [calls[c] EXCEPT !.step = "tell", !.customers = updated]
  <1>1. /\ Sound(calls[c]) /\ calls[c].route = "all" /\ calls[c].step = "write"
        /\ moving \subseteq Customers /\ from \in Officers /\ to \in Officers
        /\ to # None /\ from # to /\ from # None
    BY CallSound, StaffAssumption DEF AllWrite, At, Sound, Call
  <1>2. /\ assigned' = [k \in Customers |-> IF k \in updated THEN to ELSE assigned[k]]
        /\ joins' = [k \in Customers |-> IF k \in moving
                       THEN movePrimaryAssignment(joins[k], from, to) ELSE joins[k]]
        /\ raced' = raced \cup SymDiff(moving, updated)
        /\ calls' = [calls EXCEPT ![c] = call]
        /\ settled' = settled \ updated /\ UNCHANGED <<isActive, retiredBy>>
    BY DEF AllWrite, Moves
  <1>3. updated \subseteq Customers /\ \A k \in Customers :
          k \in updated <=> assigned[k] = from
    BY DEF HeldBy
  <1>. HIDE DEF updated
  <1>4. /\ Sound(call)
        /\ updated # {} => /\ call.step = "tell" /\ call.to = to
                           /\ call.customers = updated
    <2>1. CASE updated = {}
      BY <2>1, IdleSound
    <2>2. CASE updated # {}
      BY <1>1, <1>3, <2>2 DEF Sound, Call
    <2>. QED  BY <2>1, <2>2
  <1>. HIDE DEF moving, from, to, call
  <1>5. calls' \in [Calls -> Call] /\ HandlerInv' /\ calls'[c] = call
    BY <1>2, <1>4, CallsKept
  <1>6. ASSUME NEW k \in moving
        PROVE  /\ joins'[k] \in JoinRow
               /\ \A o \in Officers : joins'[k][o] = "primary" <=>
                    (o = to \/ (joins[k][o] = "primary" /\ o # from))
    <2>1. /\ joins'[k] = movePrimaryAssignment(joins[k], from, to)
          /\ joins[k] \in JoinRow
      BY <1>1, <1>2 DEF IndInv, TypeOK, JoinRow
    <2>2. /\ movePrimaryAssignment(joins[k], from, to) \in JoinRow
          /\ \A o \in Officers :
               movePrimaryAssignment(joins[k], from, to)[o] = "primary" <=>
                 (o = to \/ (joins[k][o] = "primary" /\ o # from))
      BY <1>1, <2>1 DEF movePrimaryAssignment, JoinRow
    <2>. QED  BY <2>1, <2>2
  <1>7. TypeOK'
    BY <1>1, <1>2, <1>3, <1>5, <1>6 DEF IndInv, TypeOK, SymDiff, JoinRow
  <1>8. InStepUnlessRaced'
    <2>. SUFFICES ASSUME NEW k \in Customers, k \notin raced'
                  PROVE  PrimaryOf(k)' = HolderOf(k)'
      BY DEF InStepUnlessRaced
    <2>1. PrimaryOf(k) = HolderOf(k) /\ (k \in moving <=> k \in updated)
      BY <1>2 DEF IndInv, InStepUnlessRaced, SymDiff
    <2>2. CASE k \in moving
      <3>1. assigned[k] = from /\ assigned'[k] = to
        BY <1>2, <1>3, <2>1, <2>2
      <3>2. \A o \in Officers : joins'[k][o] = "primary" <=> o = to
        BY <1>6, <2>1, <2>2, <3>1 DEF PrimaryOf, HolderOf
      <3>. QED  BY <1>1, <3>1, <3>2 DEF PrimaryOf, HolderOf
    <2>3. CASE k \notin moving
      BY <1>2, <2>1, <2>3 DEF PrimaryOf, HolderOf
    <2>. QED  BY <2>2, <2>3
  <1>9. HolderIsTold'
    <2>. SUFFICES ASSUME NEW k \in Customers, k \notin settled',
                         assigned'[k] \notin {None, DefaultOfficer}
                  PROVE  \E d \in Calls :
                           /\ calls'[d].step = "tell" /\ k \in calls'[d].customers
                           /\ calls'[d].to = assigned'[k]
      BY DEF HolderIsTold
    <2>1. CASE k \in updated
      BY <1>2, <1>4, <1>5, <2>1
    <2>2. CASE k \notin updated
      <3>1. assigned'[k] = assigned[k] /\ k \notin settled
        BY <1>2, <2>2
      <3>2. PICK d \in Calls : /\ calls[d].step = "tell" /\ k \in calls[d].customers
                               /\ calls[d].to = assigned[k]
        BY <3>1 DEF IndInv, HolderIsTold
      <3>3. calls'[d] = calls[d]
        BY <1>1, <1>2, <3>2 DEF IndInv, TypeOK
      <3>. QED  BY <3>1, <3>2, <3>3
    <2>. QED  BY <2>1, <2>2
  <1>. QED  BY <1>5, <1>7, <1>8, <1>9 DEF IndInv

LEMMA ParkStep ==
  ASSUME IndInv, NEW c \in Calls, ParkWrite(c)
  PROVE  IndInv'
  <1>. DEFINE claimed == Unassigned(calls[c].customers)
  <1>1. /\ claimed \subseteq Customers /\ \A k \in claimed : assigned[k] = None
        /\ DefaultOfficer \in Officers /\ DefaultOfficer # None
        /\ calls[c].step = "write"
    BY CallSound, StaffAssumption DEF ParkWrite, At, Sound, Call, Unassigned, HeldBy
  <1>2. /\ assigned' = [k \in Customers |->
                          IF k \in claimed THEN DefaultOfficer ELSE assigned[k]]
        /\ joins' = [k \in Customers |-> IF k \in claimed
              THEN [joins[k] EXCEPT ![DefaultOfficer] = "primary"] ELSE joins[k]]
        /\ calls' = [calls EXCEPT ![c] = Idle]
        /\ UNCHANGED <<isActive, retiredBy, settled, raced>>
    BY DEF ParkWrite, Moves
  <1>. HIDE DEF claimed
  <1>3. calls' \in [Calls -> Call] /\ HandlerInv'
    BY <1>2, IdleSound, CallsKept
  <1>4. TypeOK'
    BY <1>1, <1>2, <1>3 DEF IndInv, TypeOK
  <1>5. InStepUnlessRaced'
    <2>. SUFFICES ASSUME NEW k \in Customers, k \notin raced
                  PROVE  PrimaryOf(k)' = HolderOf(k)'
      BY <1>2 DEF InStepUnlessRaced
    <2>1. PrimaryOf(k) = HolderOf(k)
      BY DEF IndInv, InStepUnlessRaced
    <2>2. CASE k \in claimed
      <3>1. \A o \in Officers : joins'[k][o] = "primary" <=> o = DefaultOfficer
        BY <1>1, <1>2, <2>1, <2>2 DEF PrimaryOf, HolderOf, IndInv, TypeOK
      <3>. QED  BY <1>1, <1>2, <2>2, <3>1 DEF PrimaryOf, HolderOf
    <2>3. CASE k \notin claimed
      BY <1>2, <2>1, <2>3 DEF PrimaryOf, HolderOf
    <2>. QED  BY <2>2, <2>3
  <1>6. HolderIsTold'
    <2>. SUFFICES ASSUME NEW k \in Customers, k \notin settled,
                         assigned'[k] \notin {None, DefaultOfficer}
                  PROVE  \E d \in Calls :
                           /\ calls'[d].step = "tell" /\ k \in calls'[d].customers
                           /\ calls'[d].to = assigned'[k]
      BY <1>2 DEF HolderIsTold
    <2>1. assigned'[k] = assigned[k]
      BY <1>2
    <2>2. PICK d \in Calls : /\ calls[d].step = "tell" /\ k \in calls[d].customers
                             /\ calls[d].to = assigned[k]
      BY <2>1 DEF IndInv, HolderIsTold
    <2>3. calls'[d] = calls[d]
      BY <1>1, <1>2, <2>2 DEF IndInv, TypeOK
    <2>. QED  BY <2>1, <2>2, <2>3
  <1>. QED  BY <1>3, <1>4, <1>5, <1>6 DEF IndInv

-----------------------------------------------------------------------------
(* A step that only moves its handler on.                                    *)
LEMMA OnlyMoves ==
  ASSUME IndInv, NEW c \in Calls, NEW call, Sound(call), Moves(c, call),
         calls[c].step # "tell",
         UNCHANGED <<assigned, joins, isActive, retiredBy, settled, raced>>
  PROVE  IndInv'
  BY CallStep DEF Moves, IndInv, TypeOK

LEMMA Inductive == IndInv /\ [Next]_vars => IndInv'
  <1>. SUFFICES ASSUME IndInv, [Next]_vars  PROVE IndInv'
    OBVIOUS
  <1>1. ASSUME NEW c \in Calls, NEW ks \in SUBSET Ids, NEW o \in Officers,
               ReassignStart(c, ks, o)
        PROVE  IndInv'
    <2>. DEFINE call == [Idle EXCEPT !.route = "reassign", !.step = "next",
                                     !.rest = ks, !.to = o]
    <2>1. Sound(call)
      BY DEF Idle, Sound, Call, Staff
    <2>2. Moves(c, call) /\ calls[c].step # "tell"
          /\ UNCHANGED <<assigned, joins, isActive, retiredBy, settled, raced>>
      BY <1>1 DEF ReassignStart
    <2>. HIDE DEF call
    <2>. QED  BY <2>1, <2>2, OnlyMoves
  <1>2. ASSUME NEW c \in Calls, ReassignRead(c)  PROVE IndInv'
    <2>1. PICK k \in calls[c].rest \cap Customers :
            Moves(c, [calls[c] EXCEPT !.step = "officer", !.customers = {k},
                                      !.rest = @ \ {k}, !.from = assigned[k]])
      BY <1>2 DEF ReassignRead
    <2>. DEFINE call == [calls[c] EXCEPT !.step = "officer", !.customers = {k},
                           !.rest = calls[c].rest \ {k}, !.from = assigned[k]]
    <2>2. Sound(call)
      <3>1. assigned[k] \in Officers \cup {None} /\ k \in Customers
        BY DEF IndInv, TypeOK
      <3>2. Sound(calls[c]) /\ calls[c].route = "reassign"
        BY <1>2, CallSound DEF ReassignRead, At
      <3>. QED  BY <3>1, <3>2 DEF Sound, Call
    <2>3. Moves(c, call) /\ calls[c].step # "tell"
          /\ UNCHANGED <<assigned, joins, isActive, retiredBy, settled, raced>>
      BY <1>2, <2>1 DEF ReassignRead, At
    <2>. HIDE DEF call
    <2>. QED  BY <2>2, <2>3, OnlyMoves
  <1>3. ASSUME NEW c \in Calls, ReassignSkip(c)  PROVE IndInv'
    <2>1. PICK k \in calls[c].rest :
            Moves(c, NextItem([calls[c] EXCEPT !.rest = @ \ {k}]))
      BY <1>3 DEF ReassignSkip
    <2>. DEFINE call == [calls[c] EXCEPT !.rest = calls[c].rest \ {k}]
    <2>2. Sound(call) /\ call.route = "reassign"
      <3>1. Sound(calls[c]) /\ calls[c].route = "reassign"
        BY <1>3, CallSound DEF ReassignSkip, At
      <3>. QED  BY <3>1 DEF Sound, Call
    <2>3. Moves(c, NextItem(call)) /\ calls[c].step # "tell"
          /\ UNCHANGED <<assigned, joins, isActive, retiredBy, settled, raced>>
      BY <1>3, <2>1 DEF ReassignSkip, At
    <2>. HIDE DEF call
    <2>4. Sound(NextItem(call))
      BY <2>2, NextSound
    <2>. QED  BY <2>3, <2>4, OnlyMoves
  <1>4. ASSUME NEW c \in Calls, ReassignCheck(c)  PROVE IndInv'
    <2>1. Sound(calls[c]) /\ calls[c].route = "reassign"
          /\ calls[c].step = "officer"
      BY <1>4, CallSound DEF ReassignCheck, At
    <2>2. Sound([calls[c] EXCEPT !.step = "write"])
      BY <2>1 DEF Sound, Call
    <2>3. Sound(NextItem(calls[c]))
      BY <2>1, NextSound
    <2>. QED  BY <1>4, <2>1, <2>2, <2>3, OnlyMoves DEF ReassignCheck
  <1>5. ASSUME NEW c \in Calls, NEW from \in Officers, NEW to \in Officers,
               AllCheck(c, from, to)
        PROVE  IndInv'
    <2>. DEFINE call == [Idle EXCEPT !.route = "all", !.step = "list",
                                     !.from = from, !.to = to]
    <2>1. Sound(call)
      BY <1>5 DEF AllCheck, Idle, Sound, Call, Staff
    <2>2. Moves(c, call) /\ calls[c].step # "tell"
          /\ UNCHANGED <<assigned, joins, isActive, retiredBy, settled, raced>>
      BY <1>5 DEF AllCheck
    <2>. HIDE DEF call
    <2>. QED  BY <2>1, <2>2, OnlyMoves
  <1>6. ASSUME NEW c \in Calls, AllList(c)  PROVE IndInv'
    <2>. DEFINE call == [calls[c] EXCEPT !.step = "write",
                           !.customers = HeldBy(Customers, calls[c].from)]
    <2>1. Sound(call)
      <3>1. Sound(calls[c]) /\ calls[c].route = "all"
        BY <1>6, CallSound DEF AllList, At
      <3>2. HeldBy(Customers, calls[c].from) \subseteq Customers
        BY DEF HeldBy
      <3>. QED  BY <3>1, <3>2 DEF Sound, Call
    <2>2. Moves(c, call) /\ calls[c].step # "tell"
          /\ UNCHANGED <<assigned, joins, isActive, retiredBy, settled, raced>>
      BY <1>6 DEF AllList, At
    <2>. HIDE DEF call
    <2>. QED  BY <2>1, <2>2, OnlyMoves
  <1>7. ASSUME NEW c \in Calls, Tell(c)  PROVE IndInv'
    <2>1. Sound(calls[c]) /\ calls[c].step = "tell"
      BY <1>7, CallSound DEF Tell
    <2>2. Sound(NextItem(calls[c]))
      BY <2>1, NextSound
    <2>. QED  BY <1>7, <2>2, CallStep DEF Tell, Moves, ReceiverOf, IndInv, TypeOK
  <1>8. ASSUME NEW c \in Calls, NEW ks \in SUBSET Parkable, ParkRead(c, ks)
        PROVE  IndInv'
    <2>. DEFINE call == [Idle EXCEPT !.route = "park", !.step = "write",
                                     !.customers = ks]
    <2>1. Sound(call)
      BY StaffAssumption DEF Idle, Sound, Call
    <2>2. Moves(c, call) /\ calls[c].step # "tell"
          /\ UNCHANGED <<assigned, joins, isActive, retiredBy, settled, raced>>
      BY <1>8 DEF ParkRead
    <2>. HIDE DEF call
    <2>. QED  BY <2>1, <2>2, OnlyMoves
  <1>9. ASSUME NEW c \in Calls, NEW s \in Staff, NEW by \in Admins,
               RetireRead(c, s, by)
        PROVE  IndInv'
    <2>. DEFINE saw == s \in Admins \cap isActive
                call == [Idle EXCEPT !.route = "retire", !.step = "count",
                                     !.to = s, !.saw = saw, !.by = by]
    <2>1. Sound(call)
      <3>1. saw \in BOOLEAN
        OBVIOUS
      <3>. HIDE DEF saw
      <3>. QED  BY <3>1 DEF Idle, Sound, Call
    <2>2. Moves(c, call) /\ calls[c].step # "tell"
          /\ UNCHANGED <<assigned, joins, isActive, retiredBy, settled, raced>>
      BY <1>9 DEF RetireRead
    <2>. HIDE DEF call
    <2>. QED  BY <2>1, <2>2, OnlyMoves
  <1>10. ASSUME NEW c \in Calls, RetireCount(c)  PROVE IndInv'
    <2>1. Sound(calls[c]) /\ calls[c].route = "retire" /\ calls[c].step = "count"
      BY <1>10, CallSound DEF RetireCount, At
    <2>2. Sound([calls[c] EXCEPT !.step = "write"])
      BY <2>1 DEF Sound, Call
    <2>. QED  BY <1>10, <2>1, <2>2, IdleSound, OnlyMoves DEF RetireCount
  <1>11. ASSUME NEW c \in Calls, RetireWrite(c)  PROVE IndInv'
    <2>1. /\ calls[c].step = "write" /\ calls[c].by \in Admins
          /\ calls' = [calls EXCEPT ![c] = Idle]
          /\ UNCHANGED <<assigned, joins, settled, raced>>
      BY <1>11, CallSound DEF RetireWrite, At, Moves, Sound
    <2>2. isActive' \subseteq Staff /\ retiredBy' \in [Staff -> Admins \cup {None}]
      BY <1>11, <2>1 DEF RetireWrite, StampedBy, IndInv, TypeOK
    <2>. QED  BY <2>1, <2>2, IdleSound, CallStep
  <1>12. ASSUME NEW s \in Staff, NEW by \in Admins, Restore(s, by)  PROVE IndInv'
    BY <1>12 DEF Restore, IndInv, TypeOK, HandlerInv, InStepUnlessRaced,
                 HolderIsTold, PrimaryOf, HolderOf
  <1>13. ASSUME NEW c \in Calls, Fail(c) \/ Die(c)  PROVE IndInv'
    <2>. DEFINE call == calls'[c]
    <2>1. /\ calls' = [calls EXCEPT ![c] = NextItem(calls[c])]
             \/ calls' = [calls EXCEPT ![c] = Idle]
          /\ UNCHANGED <<assigned, joins, isActive, retiredBy, raced>>
          /\ \/ calls[c].step # "tell" /\ settled' = settled
             \/ settled' = settled \cup HeldBy(calls[c].customers, calls[c].to)
      BY <1>13 DEF Fail, Die, Moves
    <2>2. Sound(NextItem(calls[c]))
      BY CallSound, NextSound
    <2>. QED  BY <2>1, <2>2, IdleSound, CallStep DEF IndInv, TypeOK
  <1>14. CASE UNCHANGED vars
    BY <1>14 DEF vars, IndInv, TypeOK, HandlerInv, InStepUnlessRaced,
                 HolderIsTold, PrimaryOf, HolderOf
  <1>15. ASSUME NEW c \in Calls, Start(c)  PROVE IndInv'
    <2>1. ASSUME NEW k \in Parkable, ParkRead(c, {k})  PROVE IndInv'
      BY <2>1, <1>8
    <2>2. ASSUME ParkRead(c, Parkable)  PROVE IndInv'
      BY <2>2, <1>8
    <2>. QED  BY <1>15, <1>1, <1>5, <1>9, <2>1, <2>2 DEF Start
  <1>16. ASSUME NEW c \in Calls, Continue(c)  PROVE IndInv'
    BY <1>16, <1>2, <1>3, <1>4, <1>6, <1>7, <1>10, <1>11,
       ReassignStep, AllStep, ParkStep DEF Continue
  <1>. QED  BY <1>12, <1>13, <1>14, <1>15, <1>16 DEF Next

-----------------------------------------------------------------------------
(* The inductive invariant holds of every behaviour of the routes.           *)
THEOREM Invariance == Spec => []IndInv
  BY Initially, Inductive, PTL DEF Spec

(* Pointers, rows, stamps and handlers keep their types.                     *)
THEOREM TypeCorrect == Spec => []TypeOK
  <1>1. IndInv => TypeOK
    BY DEF IndInv
  <1>. QED  BY <1>1, Invariance, PTL

(* The two records of an assignment agree for every customer that was never  *)
(* written to on an outdated SELECT, whatever failed.                        *)
THEOREM InStep == Spec => []InStepUnlessRaced
  <1>1. IndInv => InStepUnlessRaced
    BY DEF IndInv
  <1>. QED  BY <1>1, Invariance, PTL

(* Whoever is given a customer hears of it, unless the handler dies.         *)
THEOREM HolderHears == Spec => []HolderIsTold
  <1>1. IndInv => HolderIsTold
    BY DEF IndInv
  <1>. QED  BY <1>1, Invariance, PTL

(* No step of any route takes a customer from a secondary officer.           *)
THEOREM SecondariesAreKept == Spec => SecondariesStay
  <1>. DEFINE P == \A k \in Customers, o \in Officers :
                    joins[k][o] = "secondary" => joins'[k][o] # "none"
  <1>1. IndInv /\ [Next]_vars => [P]_vars
    <2>. SUFFICES ASSUME IndInv, Next, NEW k \in Customers, NEW o \in Officers,
                         joins[k][o] = "secondary"
                  PROVE  joins'[k][o] # "none"
      OBVIOUS
    <2>1. joins \in [Customers -> JoinRow]
      BY DEF IndInv, TypeOK, JoinRow
    <2>2. ASSUME NEW c \in Calls, ReassignWrite(c)  PROVE joins'[k][o] # "none"
      BY <2>1, <2>2 DEF ReassignWrite, movePrimaryAssignment, JoinRow
    <2>3. ASSUME NEW c \in Calls, AllWrite(c)  PROVE joins'[k][o] # "none"
      BY <2>1, <2>3 DEF AllWrite, movePrimaryAssignment, JoinRow
    <2>4. ASSUME NEW c \in Calls, ParkWrite(c)  PROVE joins'[k][o] # "none"
      BY <2>1, <2>4 DEF ParkWrite, JoinRow
    <2>. QED
      BY <2>2, <2>3, <2>4
      DEF Next, Start, Continue, ReassignStart, ReassignRead, ReassignSkip,
          ReassignCheck, AllCheck, AllList, Tell, ParkRead, RetireRead, RetireCount,
          RetireWrite, Restore, Fail, Die
  <1>. QED  BY <1>1, Invariance, PTL DEF Spec, SecondariesStay

(* The one record of who retired an account survives every later attempt.    *)
THEOREM StampedOnce == Spec => RetirementIsStampedOnce
  <1>. DEFINE P == \A s \in Staff :
                    (s \notin isActive /\ s \notin isActive') =>
                      retiredBy'[s] = retiredBy[s]
  <1>1. IndInv /\ [Next]_vars => [P]_vars
    <2>. SUFFICES ASSUME IndInv, Next, NEW s \in Staff,
                         s \notin isActive, s \notin isActive'
                  PROVE  retiredBy'[s] = retiredBy[s]
      OBVIOUS
    <2>1. ASSUME NEW c \in Calls, RetireWrite(c)  PROVE retiredBy'[s] = retiredBy[s]
      BY <2>1 DEF RetireWrite, StampedBy, IndInv, TypeOK
    <2>. QED
      BY <2>1
      DEF Next, Start, Continue, ReassignStart, ReassignRead, ReassignSkip,
          ReassignCheck, ReassignWrite, AllCheck, AllList, AllWrite, Tell, ParkRead,
          ParkWrite, RetireRead, RetireCount, Restore, Fail, Die
  <1>. QED  BY <1>1, Invariance, PTL DEF Spec, RetirementIsStampedOnce

(* No default assignment, however delayed, takes a customer from an officer. *)
THEOREM ManualStands == Spec => ManualAssignmentStands
  <1>. DEFINE P == \A c \in Calls : At(c, "park", "write") =>
                    \A k \in Customers :
                      (assigned'[k] # assigned[k] /\ calls'[c] # calls[c]) =>
                        assigned[k] = None
  <1>1. IndInv /\ [Next]_vars => [P]_vars
    <2>. SUFFICES ASSUME IndInv, Next, NEW c \in Calls, At(c, "park", "write"),
                         NEW k \in Customers, assigned'[k] # assigned[k],
                         calls'[c] # calls[c]
                  PROVE  assigned[k] = None
      OBVIOUS
    <2>1. ASSUME NEW d \in Calls, NEW call, Moves(d, call)  PROVE d = c
      BY <2>1 DEF Moves, IndInv, TypeOK
    <2>2. ASSUME NEW d \in Calls, ReassignWrite(d) \/ AllWrite(d)  PROVE FALSE
      BY <2>1, <2>2 DEF ReassignWrite, AllWrite, At
    <2>3. ASSUME NEW d \in Calls, ParkWrite(d)  PROVE assigned[k] = None
      BY <2>3 DEF ParkWrite, Unassigned, HeldBy
    <2>. QED
      BY <2>2, <2>3
      DEF Next, Start, Continue, ReassignStart, ReassignRead, ReassignSkip,
          ReassignCheck, AllCheck, AllList, Tell, ParkRead, RetireRead, RetireCount,
          RetireWrite, Restore, Fail, Die
  <1>. QED  BY <1>1, Invariance, PTL DEF Spec, ManualAssignmentStands
=============================================================================
