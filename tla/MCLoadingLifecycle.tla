------------------------- MODULE MCLoadingLifecycle -------------------------
(* Instances of LoadingLifecycle for TLC.                                    *)
EXTENDS LoadingLifecycle, TLC

(* The bodies the legacy route's docs name.                                  *)
DocumentedTargets == {"LOADING_IN_PROGRESS", "COMPLETED"}

CallSymmetry == Permutations(Officers) \cup Permutations(Calls) \cup Permutations(Cartons)
=============================================================================
