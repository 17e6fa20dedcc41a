------------------------------- MODULE Scopes -------------------------------
(***************************************************************************)
(* Regions (common/region): the ERP's cluster codes are translated where   *)
(* they come in, some of them to no region; a regional admin is held to    *)
(* the region of their token.                                              *)
(***************************************************************************)
EXTENDS Handlers

CONSTANTS
  Regions,
  RegionByCode        \* REGION_BY_BP_CLUSTER_CODE

ASSUME ScopeAssumption ==
  None \notin Regions /\ \A code \in DOMAIN RegionByCode : RegionByCode[code] \in Regions

(* The scope of a caller: their region for a regional admin, None for an     *)
(* admin.  requireOwnRegion refuses a regional admin without one.            *)
CallerScope == Regions \cup {None}

(* assertOwnRegion, and the where-clause of a scoped list.                   *)
InScope(scope, region) == scope = None \/ region = scope

tryRegionFromBpClusterCode(code) ==
  IF code \in DOMAIN RegionByCode THEN RegionByCode[code] ELSE None
=============================================================================
