---------------------------- MODULE OpenStorage -----------------------------
(***************************************************************************)
(* The operational database as one target sees it: the served catalog,     *)
(* staged catalog refreshes, open-pull attempts, the last known good open  *)
(* rows and the counters.  crates/bcsp-operational-storage (open.rs,       *)
(* storage.rs).  Each operator is one SQLite transaction; a transaction    *)
(* that fails leaves the database as it was.                               *)
(*                                                                         *)
(* A catalog is a record of its section set and a name for everything else *)
(* it says.  An attempt row keeps one time: its start while it is Started, *)
(* its completion afterwards.  Optional columns are sets of at most one    *)
(* value.  HTTP audit columns, lanes and per-day counters are left out.    *)
(***************************************************************************)
EXTENDS Integers, FiniteSets

CONSTANTS
    Retain,      \* OPEN_DIAGNOSTIC_RETENTION_PER_TARGET
    PruneLimit   \* OPEN_DIAGNOSTIC_PRUNE_ATTEMPTS_PER_COMMIT

ASSUME RetentionAssumption == Retain \in Nat \ {0} /\ PruneLimit \in Nat \ {0}

NoCatalog == [name |-> "none", sections |-> {}]

Successes == {"ValidApplied", "ValidEmptyNoRows"}

Classes ==
    Successes \cup {"Started", "UnsafeZeroIntersection", "SuspectPartialSnapshot",
                    "StaleCatalogRace", "Failed", "Interrupted"}

(* refresh maps a catalog_refresh_observations row to its status; rows is  *)
(* open_section_current: the sections it knows and those that are OPEN.    *)
EmptyDb ==
    [catalog |-> NoCatalog, version |-> 0, refresh |-> <<>>,
     attempts |-> <<>>, lastSeq |-> 0, obsSeq |-> 0, lkg |-> 0, openVersion |-> 0,
     known |-> {}, open |-> {},
     attempted |-> 0, succeeded |-> 0, failed |-> 0, empty |-> 0]

Ok(db, class) == [ok |-> TRUE, db |-> db, class |-> class]
Err(db) == [ok |-> FALSE, db |-> db, class |-> "none"]

StartedSeqs(db) == {q \in DOMAIN db.attempts : db.attempts[q].class = "Started"}
StagedRefreshes(db) == {o \in DOMAIN db.refresh : db.refresh[o] = "Staged"}

Put(f, x, v) == [y \in DOMAIN f \cup {x} |-> IF y = x THEN v ELSE f[y]]

-----------------------------------------------------------------------------
(* Catalog refreshes.                                                      *)

BeginRefresh(db, o) == [db EXCEPT !.refresh = Put(@, o, "Started")]

FailRefresh(db, o) == [db EXCEPT !.refresh[o] = "Failed"]

StageRefresh(db, o) == [db EXCEPT !.refresh[o] = "Staged"]

(* An empty snapshot never replaces a non-empty one.                       *)
RetainsLastKnownGood(db, catalog) ==
    catalog.sections = {} /\ db.version > 0 /\ db.catalog.sections # {}

(* The version publication would give the catalog.                         *)
CandidateVersion(db, catalog) ==
    IF db.version > 0 /\ db.catalog = catalog THEN db.version ELSE db.version + 1

PublishStaged(db, o, catalog) ==
    IF RetainsLastKnownGood(db, catalog)
    THEN [db EXCEPT !.refresh[o] = "SuspectEmptyRetained"]
    ELSE [db EXCEPT !.refresh[o] = "Applied", !.catalog = catalog,
                    !.version = CandidateVersion(db, catalog)]

-----------------------------------------------------------------------------
(* Open-pull attempts.  p is the pull: the catalog version and sections it *)
(* captured and, for a candidate pull, the staged refresh it belongs to    *)
(* (0 for a serving pull) and the version that catalog builds on.          *)

BeginAccepted(db, p) ==
    /\ IF p.refresh = 0 THEN db.version > 0 /\ db.version = p.version
       ELSE p.refresh \in StagedRefreshes(db) /\ db.version = p.base
    /\ StartedSeqs(db) = {}

BeginAttempt(db, p, now) ==
    [db EXCEPT !.lastSeq = @ + 1, !.attempted = @ + 1,
               !.attempts = Put(@, db.lastSeq + 1,
                    [class |-> "Started", at |-> now, members |-> p.sections,
                     version |-> p.version, refresh |-> p.refresh, base |-> p.base,
                     response |-> {}, identity |-> {}, events |-> {}])]

(* load_started_open_attempt, ensure_started_open_attempt_is_current and   *)
(* validate_timestamp_order.                                               *)
Finishable(db, q, at) ==
    /\ q \in StartedSeqs(db)
    /\ q = db.lastSeq
    /\ at >= db.attempts[q].at

ClassifyOpenResponse(response, members, hold) ==
    CASE response = {} /\ members = {} -> "ValidEmptyNoRows"
      [] response # {} /\ members # {} /\ response \cap members = {} ->
            "UnsafeZeroIntersection"
      [] OTHER -> IF hold THEN "SuspectPartialSnapshot" ELSE "ValidApplied"

(* prune_open_diagnostics_transaction: at most PruneLimit of the oldest    *)
(* attempts beyond the Retain newest, never the LKG or a Started one.      *)
MutPrunable(db) ==
    {q \in DOMAIN db.attempts :
        /\ db.attempts[q].class # "Started"
        /\ Cardinality({p \in DOMAIN db.attempts : p > q}) >= Retain}

Prunable(db) ==
    {q \in DOMAIN db.attempts :
        /\ db.attempts[q].class # "Started" /\ q # db.lkg
        /\ Cardinality({p \in DOMAIN db.attempts : p > q}) >= Retain}

Pruned(db) ==
    LET dropped == {q \in Prunable(db) :
                        Cardinality({p \in Prunable(db) : p < q}) < PruneLimit}
    IN  [db EXCEPT !.attempts = [q \in DOMAIN @ \ dropped |-> @[q]]]

(* finalize_non_applied_attempt with its prune.                            *)
Finalize(db, q, at, class, response, identity) ==
    Pruned([db EXCEPT
        !.attempts[q] = [@ EXCEPT !.class = class, !.at = at,
                                  !.response = response, !.identity = identity],
        !.failed = @ + 1, !.empty = @ + IF response = {{}} THEN 1 ELSE 0])

(* The rows, the LKG pointer, the section events and the counters of an    *)
(* applied snapshot.                                                       *)
Apply(db, q, at, class, response, identity, watched) ==
    Pruned([db EXCEPT
        !.attempts[q] = [@ EXCEPT !.class = class, !.at = at, !.response = {response},
                                  !.identity = identity, !.events = watched],
        !.known = db.attempts[q].members,
        !.open = response \cap db.attempts[q].members,
        !.lkg = q, !.openVersion = db.attempts[q].version, !.obsSeq = @ + 1,
        !.succeeded = @ + 1, !.empty = @ + IF response = {} THEN 1 ELSE 0])

(* finish_open_pull_success_transaction.  sample is the response with the  *)
(* gate's verdict and the watched sections read just before.               *)
FinishSuccess(db, q, sample, acceptBase) ==
    LET row == db.attempts[q]
        class == ClassifyOpenResponse(sample.response, row.members, sample.hold)
    IN  CASE ~Finishable(db, q, sample.at) -> Err(db)
          [] db.version # row.version /\ ~(acceptBase /\ row.base = db.version) ->
                Ok(Finalize(db, q, sample.at, "StaleCatalogRace", {sample.response}, {}),
                   "StaleCatalogRace")
          [] class \notin Successes ->
                Ok(Finalize(db, q, sample.at, class, {sample.response}, sample.identity), class)
          [] sample.watched \subseteq row.members ->
                Ok(Apply(db, q, sample.at, class, sample.response, sample.identity,
                         sample.watched), class)
          [] OTHER -> Err(db)

(* finish_candidate_open_pull_success: the catalog and its open snapshot   *)
(* become visible together, or neither does.  A first empty catalog needs  *)
(* the persisted selector to list the target.                              *)

FinishCandidate(db, q, sample, o, catalog, listed) ==
    LET row == db.attempts[q]
        kept == [sample EXCEPT !.watched = @ \cap row.members]
        class == ClassifyOpenResponse(sample.response, row.members, sample.hold)
        unsafe == FinishSuccess(db, q, kept, TRUE)
        published == PublishStaged(db, o, catalog)
    IN  CASE \/ ~Finishable(db, q, sample.at) \/ db.version # row.base
             \/ o \notin StagedRefreshes(db) -> Err(db)
          [] class \notin Successes -> Ok(FailRefresh(unsafe.db, o), unsafe.class)
          [] \/ published.version # row.version \/ RetainsLastKnownGood(db, catalog)
             \/ catalog.sections = {} /\ db.version = 0 /\ ~listed -> Err(db)
          [] OTHER -> FinishSuccess(published, q, kept, FALSE)


FinishFailure(db, q, at, o) ==
    IF ~Finishable(db, q, at) \/ (o # 0 /\ o \notin StagedRefreshes(db)) THEN Err(db)
    ELSE LET failed == Finalize(db, q, at, "Failed", {}, {})
         IN  Ok(IF o = 0 THEN failed ELSE FailRefresh(failed, o), "Failed")

-----------------------------------------------------------------------------
(* What a process does to the database when it opens it: recover_-         *)
(* interrupted_refreshes and recover_interrupted_open_attempts.            *)
Recovered(db, now) ==
    [db EXCEPT
        !.refresh = [o \in DOMAIN @ |->
            IF @[o] \in {"Started", "Staged"} THEN "Interrupted" ELSE @[o]],
        !.attempts = [q \in DOMAIN @ |->
            IF @[q].class = "Started"
            THEN [@[q] EXCEPT !.class = "Interrupted", !.at = now] ELSE @[q]],
        !.failed = @ + Cardinality(StartedSeqs(db))]

-----------------------------------------------------------------------------
(* Reads of the integrity gate.                                            *)

(* serving_lkg_open_index_set restricted to a catalog, as a count.         *)
LkgReference(db, sections) ==
    IF db.known = {} THEN -1 ELSE Cardinality(db.open \cap sections)

(* recent_open_gate_attempt_summaries: unpublished candidate attempts are  *)
(* not part of the serving history.                                        *)
ServingHistory(db, limit) ==
    LET served == {q \in DOMAIN db.attempts :
            \/ db.attempts[q].refresh = 0 /\ db.attempts[q].class # "Started"
            \/ db.attempts[q].class \in Successes}
        recent == {q \in served : Cardinality({p \in served : p > q}) < limit}
    IN  [q \in recent |-> db.attempts[q]]
=============================================================================
