------------------------ MODULE MCOfficerAssignment ------------------------
(* Instances of OfficerAssignment for TLC.                                   *)
EXTENDS OfficerAssignment, TLC

MCSymmetry == Permutations(Calls) \cup Permutations(Admins)
=============================================================================
