------------------------------- MODULE Team -------------------------------
(***************************************************************************)
(* Who looks after a customer, as chat and tickets see it: the pointer     *)
(* Customer.assignedOfficerId and the CustomerOfficer rows, which          *)
(* OfficerAssignment changes; here a change is one committed write.        *)
(***************************************************************************)
EXTENDS Handlers

CONSTANTS
  Officers,
  Admins,             \* admins, and the regional admins of this customer's region
  Outsiders,          \* regional admins of other regions
  Teams               \* [pointer, joins, primaries]: the assignments considered

(* OfficerAssignment shows that more than one row may be primary.            *)
TeamType == {t \in [pointer : Officers \cup {None}, joins : SUBSET Officers,
                    primaries : SUBSET Officers] : t.primaries \subseteq t.joins}

Nobody == [pointer |-> None, joins |-> {}, primaries |-> {}]

ASSUME TeamAssumption ==
  /\ None \notin Officers \cup Admins \cup Outsiders
  /\ Teams \subseteq TeamType /\ Nobody \in Teams

VARIABLE team

Speakers == Officers \cup Admins \cup Outsiders

(* isAssignedPair: either of the two, in one query.                          *)
isAssigned(o) == o = team.pointer \/ o \in team.joins

MayOpen(s) == s \in Admins \/ (s \in Officers /\ isAssigned(s))
=============================================================================
