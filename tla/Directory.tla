----------------------------- MODULE Directory -----------------------------
(***************************************************************************)
(* Which distributors the portal knows: the Customer rows, and the ERP's   *)
(* customers that have none yet (infrastructure/erp-raw).  A job inserts   *)
(* the missing ones (modules/erp/customer-projection.ts); the admins'      *)
(* customer list pages through the two sets as one (modules/admin/         *)
(* admin.service.ts), counting them before it slices them.                 *)
(*                                                                         *)
(* Left out: the search term, which selects on both sides alike, and the   *)
(* sort columns: a row's place is its code, as when none is asked for.     *)
(* (Rows equal in another column come back from the database in any order, *)
(* so that pages sorted by it may overlap.)                                *)
(***************************************************************************)
EXTENDS Scopes, Integers, SequencesExt, FiniteSetsExt

CONSTANTS
  Codes,              \* CUSTOMER_CODE and erpId, in their order
  Clusters,           \* BP_CLUSTER_CODE, some of no region
  PageSizes

ASSUME DirectoryAssumption ==
  /\ Codes \subseteq Nat /\ IsFiniteSet(Codes) /\ DOMAIN RegionByCode \subseteq Clusters
  /\ PageSizes \subseteq Nat \ {0} /\ None \notin Clusters

VARIABLES
  masters,      \* erp_raw.raw_customer: the cluster of each code
  customers     \* the Customer rows, by erpId

directoryVars == <<calls, masters, customers>>

CustomerRow == [region : Regions, officer : BOOLEAN]

(* A client that asks for one page after the other; got is what it has.      *)
(* whole: every query of the ERP's side answered.                            *)
Walk ==
  [route : {"walk"}, step : {"page", "done"}, size : PageSizes, page : Nat, got : Seq(Codes),
   region : CallerScope, hasOfficer : BOOLEAN \cup {None}, whole : BOOLEAN]

DirectoryTypes ==
  /\ \A c \in Calls : calls[c] = Idle \/ calls[c] \in Walk
  /\ masters \in [Codes -> Clusters \cup {None}]
  /\ customers \in [Codes -> CustomerRow \cup {None}]

DirectoryInit ==
  /\ calls = [c \in Calls |-> Idle]
  /\ masters = [k \in Codes |-> None] /\ customers = [k \in Codes |-> None]

-----------------------------------------------------------------------------
ErpRegion(k) == IF masters[k] = None THEN None ELSE tryRegionFromBpClusterCode(masters[k])

(* getCustomerCounts, and the quarantine list of listUnmappedCustomers.      *)
vijuTotal == Cardinality({k \in Codes : ErpRegion(k) # None})
Unmapped  == {k \in Codes : masters[k] # None /\ ErpRegion(k) = None}

Missing == {k \in Codes : ErpRegion(k) # None /\ customers[k] = None}

(* The reconciliation block of the admins' dashboard.                        *)
awaitingProjection ==
  LET held == Cardinality({k \in Codes : customers[k] # None})
  IN IF vijuTotal > held THEN vijuTotal - held ELSE 0

(* buildCustomerWhere, and unprojectedFrom: a customer of no row has no      *)
(* officer.                                                                  *)
ProjectedRows(q) ==
  {k \in Codes : /\ customers[k] # None
                 /\ q.region = None \/ customers[k].region = q.region
                 /\ q.hasOfficer = None \/ customers[k].officer = q.hasOfficer}

UnprojectedRows(q) ==
  IF q.hasOfficer = TRUE THEN {}
  ELSE {k \in Missing : q.region = None \/ ErpRegion(k) = q.region}

Ordered(codes) ==
  CHOOSE seq \in SetToSeqs(codes) : \A i, j \in DOMAIN seq : i < j => seq[i] < seq[j]

(* LIMIT and OFFSET.                                                         *)
Slice(seq, skip, take) == SubSeq(seq, skip + 1, Min({skip + take, Len(seq)}))

-----------------------------------------------------------------------------
(* getAllCustomersIncludingUnprojected: the two counts, then the two slices  *)
(* of the page they make up.                                                 *)

offset(q) == (q.page - 1) * q.size
takeProjected(q, projected) == Max({0, Min({q.size, projected - offset(q)})})

(* Mutant: the rows of the second set are skipped as those of the first.     *)
SkipsThePages(q, projected) == offset(q)
skipUnprojected(q, projected) == Max({0, offset(q) - projected})

totalPages(q, total) == IF total = 0 THEN 1 ELSE (total + q.size - 1) \div q.size

WalkBegins(c, size, region, hasOfficer) ==
  /\ Starts(c, [route |-> "walk", step |-> "page", size |-> size, page |-> 1, got |-> <<>>,
                region |-> region, hasOfficer |-> hasOfficer, whole |-> TRUE])
  /\ UNCHANGED <<masters, customers>>

(* The client takes a page and asks for the next while there is one.  An ERP *)
(* query that fails counts nothing, or lists nothing.  (What is written      *)
(* between a page's queries shows in a walk that is over: see Rewritten.)    *)
PageAnswered(c, counts, lists) ==
  LET q == calls[c]
      rows == Ordered(ProjectedRows(q))
      missing == Ordered(UnprojectedRows(q))
      unprojected == IF counts THEN Len(missing) ELSE 0
      take == takeProjected(q, Len(rows))
      tail == IF lists THEN Slice(missing, skipUnprojected(q, Len(rows)), q.size - take) ELSE <<>>
      more == q.page < totalPages(q, Len(rows) + unprojected)
  IN /\ At(c, "walk", "page")
     /\ Moves(c, [q EXCEPT !.got = @ \o Slice(rows, offset(q), take) \o tail,
                    !.step = IF more THEN "page" ELSE "done",
                    !.page = IF more THEN @ + 1 ELSE @,
                    !.whole = @ /\ counts /\ lists])
     /\ UNCHANGED <<masters, customers>>

WalkEnds(c) ==
  /\ At(c, "walk", "done") /\ Ends(c)
  /\ UNCHANGED <<masters, customers>>

-----------------------------------------------------------------------------
(* A walk reads, so nothing depends on it; one that a write falls into is    *)
(* not followed further: offsets shift under it and it may miss rows.        *)
Rewritten == calls' = [c \in Calls |-> Idle]

(* buildCustomerProjectionSql: every missing customer of a region, with a    *)
(* made-up phone, no password and no officer.                                *)
ProjectCustomers ==
  /\ Missing # {}
  /\ customers' = [k \in Codes |-> IF k \in Missing
                                   THEN [region |-> ErpRegion(k), officer |-> FALSE] ELSE customers[k]]
  /\ Rewritten /\ UNCHANGED masters

(* POST /admin/customers creates one the ERP may not have; the default       *)
(* officer takes it if there is one for its region.                          *)
createTestCustomer(k, region, parked) ==
  /\ customers[k] = None
  /\ customers' = [customers EXCEPT ![k] = [region |-> region, officer |-> parked]]
  /\ Rewritten /\ UNCHANGED masters

(* OfficerAssignment has what assigns one.                                   *)
CustomerAssigned(k) ==
  /\ customers[k] # None /\ ~customers[k].officer
  /\ customers' = [customers EXCEPT ![k].officer = TRUE]
  /\ Rewritten /\ UNCHANGED masters

(* External: the ingest.  A row once projected keeps its region.             *)
IngestMaster(k, cluster) ==
  /\ masters[k] # cluster
  /\ masters' = [masters EXCEPT ![k] = cluster]
  /\ Rewritten /\ UNCHANGED customers

DirectoryNext ==
  \/ \E c \in Calls :
       \/ \E n \in PageSizes, r \in CallerScope, h \in BOOLEAN \cup {None} : WalkBegins(c, n, r, h)
       \/ \E counts, lists \in BOOLEAN : PageAnswered(c, counts, lists)
       \/ WalkEnds(c)
  \/ ProjectCustomers
  \/ \E k \in Codes :
       \/ \E r \in Regions, b \in BOOLEAN : createTestCustomer(k, r, b)
       \/ CustomerAssigned(k)
       \/ \E cluster \in Clusters : IngestMaster(k, cluster)

DirectorySpec == DirectoryInit /\ [][DirectoryNext]_directoryVars

-----------------------------------------------------------------------------
(* A client that walks the pages while nothing is written meets every        *)
(* distributor that either side has, each once, whatever the page size and   *)
(* wherever the end of one set falls in a page.                              *)
WalkMeetsAll ==
  \A c \in Calls :
    LET q == calls[c] IN
    At(c, "walk", "done") /\ q.whole =>
      /\ Len(q.got) = Cardinality(ProjectedRows(q)) + Cardinality(UnprojectedRows(q))
      /\ Range(q.got) = ProjectedRows(q) \cup UnprojectedRows(q)
=============================================================================
