---------------------------- MODULE Reconcilers ----------------------------
(***************************************************************************)
(* The background jobs of modules/erp that bring the portal's tables in    *)
(* step with the ERP feed (erp-order-status, default-officer,              *)
(* erp-customer-projection and erp-account-balance .service.ts).  Each is  *)
(* woken by a timer or by a webhook, in every process; it probes for the   *)
(* feed, keeps from overlapping itself with a flag, and from overlapping   *)
(* another process with a transaction-scoped advisory lock, tried once.    *)
(* What the statement of each job writes is in Wallet, OrderStatus,        *)
(* Directory and OfficerAssignment; here a job has work due or not.        *)
(***************************************************************************)
EXTENDS Handlers, Integers

CONSTANTS
  Processes, Jobs,
  LOCK_KEY,           \* of each job; three of the four have the same one
  Probing,            \* the jobs that probe once and keep the answer
  Slots,              \* <<process, job>>: where a timer or a webhook wakes which job
  Timed,              \* those whose timer is not disabled
  MaxIngests, MaxFaults

ASSUME ReconcilerAssumption ==
  /\ DOMAIN LOCK_KEY = Jobs /\ Probing \subseteq Jobs
  /\ Timed \subseteq Slots /\ Slots \subseteq Processes \X Jobs
  /\ {MaxIngests, MaxFaults} \subseteq Nat

VARIABLES
  passes,       \* what each job is doing in each process
  available,    \* the probe's answer there: "unknown", "yes" or "no"
  running,      \* the flag, and
  present,      \* the jobs whose feed (or default officer) is there
  due,          \* the jobs with rows to correct
  ingests, faults

reconcilerVars == <<calls, passes, available, running, present, due, ingests, faults>>

(* sees: the snapshot of the statement shows the rows that are due.          *)
Pass == [at : {"idle", "probe", "flag", "lock", "work"}, sees : BOOLEAN]
Rest == [at |-> "idle", sees |-> FALSE]

(* A flag is up just while the pass that raised it is under way.             *)
ReconcilerTypes ==
  /\ calls \in [Calls -> {Idle}]
  /\ passes \in [Slots -> Pass]
  /\ available \in [Slots -> {"unknown", "yes", "no"}]
  /\ running = {s \in Slots : passes[s].at \in {"lock", "work"}}
  /\ present \subseteq Jobs /\ due \subseteq Jobs
  /\ ingests \in 0..MaxIngests /\ faults \in 0..MaxFaults

ReconcilerInit ==
  /\ calls = [c \in Calls |-> Idle]
  /\ passes = [s \in Slots |-> Rest]
  /\ available = [s \in Slots |-> "unknown"]
  /\ running = {} /\ present = {} /\ due = {}
  /\ ingests = 0 /\ faults = 0

Goes(s, at) == passes' = [passes EXCEPT ![s] = [at |-> at, sees |-> FALSE]]

(* pg_try_advisory_xact_lock: held by a pass until its transaction ends.     *)
Held(key) == \E s \in Slots : passes[s].at = "work" /\ LOCK_KEY[s[2]] = key

-----------------------------------------------------------------------------
(* The timer, or POST /erp/sync/...; one that comes while a pass is under    *)
(* way finds the flag up and does nothing.                                   *)
Wake(s) ==
  /\ passes[s].at = "idle"
  /\ Goes(s, IF s[2] \in Probing /\ available[s] # "unknown"
             THEN IF available[s] = "yes" THEN "flag" ELSE "idle"
             ELSE "probe")
  /\ UNCHANGED <<calls, available, running, present, due, ingests, faults>>

(* isAvailable keeps its answer; the default officer is looked for anew.     *)
Probe(s) ==
  LET there == s[2] \in present IN
  /\ passes[s].at = "probe"
  /\ available' = IF s[2] \in Probing
                  THEN [available EXCEPT ![s] = IF there THEN "yes" ELSE "no"] ELSE available
  /\ Goes(s, IF there THEN "flag" ELSE "idle")
  /\ UNCHANGED <<calls, running, present, due, ingests, faults>>

(* A probe that fails counts as an answer: there is no feed.                 *)
ProbeFails(s) ==
  /\ passes[s].at = "probe" /\ s[2] \in Probing
  /\ faults < MaxFaults /\ faults' = faults + 1
  /\ available' = [available EXCEPT ![s] = "no"]
  /\ Goes(s, "idle")
  /\ UNCHANGED <<calls, running, present, due, ingests>>

(* The flag is tested and set without an await in between.                   *)
RaiseFlag(s) ==
  /\ passes[s].at = "flag"
  /\ Goes(s, IF s \in running THEN "idle" ELSE "lock")
  /\ running' = running \cup {s}
  /\ UNCHANGED <<calls, available, present, due, ingests, faults>>

(* Mutant: the flag is lowered where the work is done, not in finally.       *)
LoweredAfterWork(s) == IF passes[s].at = "work" THEN running \ {s} ELSE running
Lowered(s) == running \ {s}

(* The lock is tried once; the statement's snapshot is taken behind it.      *)
TryLock(s) ==
  /\ passes[s].at = "lock"
  /\ IF Held(LOCK_KEY[s[2]])
     THEN Goes(s, "idle") /\ running' = Lowered(s)
     ELSE /\ passes' = [passes EXCEPT ![s] = [at |-> "work", sees |-> s[2] \in due]]
          /\ UNCHANGED running
  /\ UNCHANGED <<calls, available, present, due, ingests, faults>>

Commit(s) ==
  /\ passes[s].at = "work"
  /\ due' = IF passes[s].sees THEN due \ {s[2]} ELSE due
  /\ Goes(s, "idle") /\ running' = Lowered(s)
  /\ UNCHANGED <<calls, available, present, ingests, faults>>

(* The transaction fails or times out: it is undone and the flag lowered.    *)
PassFails(s) ==
  /\ passes[s].at \in {"lock", "work"}
  /\ faults < MaxFaults /\ faults' = faults + 1
  /\ Goes(s, "idle") /\ running' = Lowered(s)
  /\ UNCHANGED <<calls, available, present, due, ingests>>

Restart(p) ==
  LET own == Slots \cap ({p} \X Jobs) IN
  /\ faults < MaxFaults /\ faults' = faults + 1
  /\ passes' = [s \in Slots |-> IF s \in own THEN Rest ELSE passes[s]]
  /\ available' = [s \in Slots |-> IF s \in own THEN "unknown" ELSE available[s]]
  /\ running' = running \ own
  /\ UNCHANGED <<calls, present, due, ingests>>

(* External: rows arrive in the feed of a job; a pass whose statement has    *)
(* begun does not see them, and leaves them due.                             *)
Arrive(j) ==
  /\ ingests < MaxIngests /\ ingests' = ingests + 1
  /\ present' = present \cup {j} /\ due' = due \cup {j}
  /\ passes' = [s \in Slots |-> IF s[2] = j THEN [passes[s] EXCEPT !.sees = FALSE] ELSE passes[s]]
  /\ UNCHANGED <<calls, available, running, faults>>

PassStep(s) == Probe(s) \/ RaiseFlag(s) \/ TryLock(s) \/ Commit(s)

ReconcilerNext ==
  \/ \E s \in Slots : Wake(s) \/ PassStep(s) \/ ProbeFails(s) \/ PassFails(s)
  \/ \E p \in Processes : Restart(p)
  \/ \E j \in Jobs : Arrive(j)

(* A pass under way goes on, and a timer that is not disabled fires again.   *)
ReconcilerFairness ==
  \A s \in Slots : WF_reconcilerVars(PassStep(s)) /\ (s \in Timed => WF_reconcilerVars(Wake(s)))

ReconcilerSpec == ReconcilerInit /\ [][ReconcilerNext]_reconcilerVars /\ ReconcilerFairness

-----------------------------------------------------------------------------
(* A process that has once been told the feed is absent does not look again. *)
Blind(j) == \A p \in Processes : <<p, j>> \in Timed => available[<<p, j>>] = "no"

(* A job that shares its key with no other corrects what is due, whatever    *)
(* passes were skipped, failed or died on the way - unless every process     *)
(* with a timer for it has been told that there is no feed.  (A job that     *)
(* shares its key may be refused the lock by the others time and again.)     *)
BacklogClears ==
  \A j \in Jobs :
    (\A i \in Jobs \ {j} : LOCK_KEY[i] # LOCK_KEY[j]) /\ (\E p \in Processes : <<p, j>> \in Timed)
      => (j \in due ~> (j \notin due \/ Blind(j)))
=============================================================================
