----------------------------- MODULE OpenStatus -----------------------------
(***************************************************************************)
(* The open status of one target from the wire to its readers: what the    *)
(* Rutgers client makes of a reply, the columns the pull writes beside the *)
(* rows of OpenStorage (audit, failure snapshot, observation, counters),   *)
(* and the projection that serves the status page, the watch admission and *)
(* the queries.  crates/bcsp-rutgers-client/src/open_sections.rs,          *)
(* bcsp-open (service.rs, reconcile.rs, projection.rs, freshness.rs),      *)
(* bcsp-operational-storage/src/open.rs.                                   *)
(*                                                                         *)
(* A reply is a record of what the client distinguishes.  A hash is the    *)
(* set it is taken of, an optional value a set of at most one.  The gate's *)
(* verdict is a choice (SnapshotGate models it).                           *)
(***************************************************************************)
EXTENDS OpenStorage, Sequences, SequencesExt

CONSTANTS
    Replies,       \* what the origin may answer to the nth pull
    Catalogs,      \* the catalogs a refresh may bring
    Watched,       \* the sections some client watches
    Interval,      \* effective interval of a pull, in ticks
    Grace,         \* OPEN_FRESHNESS_GRACE_SECONDS, in ticks
    Midnight,      \* ticks in a Rutgers day
    MaxAttempts, MaxRefreshes, MaxRestarts, MaxTime  \* bounds

VARIABLES
    db,         \* the database as OpenStorage has it
    cols,       \* the columns only the status reads
    cand,       \* the staged catalog refresh: none or {<<id, catalog>>}
    flight,     \* the pull in flight: none or {[seq, refresh]}
    now, run,   \* clock; the run id of this process
    committed,  \* observations of the last valid pull, as published to watches
    diverged,   \* a commit differed from the plan it was made for
    truth       \* the last snapshot applied, and whether a later pull failed

vars == <<db, cols, cand, flight, now, run, committed, diverged, truth>>

None == {}
Day(t) == t \div Midnight

-----------------------------------------------------------------------------
(* The client.  A failure is [kind, http].                                 *)

Failure(kind, http) == [ok |-> FALSE, kind |-> kind, http |-> http, values |-> <<>>]

ClassifyReqwestError(wire) ==
    CASE wire = "timeout" -> "Timeout" [] wire = "decode" -> "ContentDecoding"
      [] OTHER -> "Network"

RedirectScope(location) ==
    CASE location = "same" -> "SameOrigin" [] location = "off" -> "OffOrigin"
      [] OTHER -> "InvalidLocation"

ClassifyHttpFailure(r) ==
    CASE r.status = 408 \/ r.status \in 500..599 -> "TransientHttp"
      [] r.status = 429 -> "RateLimited"
      [] r.status = 403 -> "Forbidden"
      [] r.status \in 300..399 /\ r.status # 304 -> RedirectScope(r.location)
      [] r.status \in 400..499 -> "FatalClientHttp"
      [] OTHER -> "UnsupportedHttp"

(* decode_open_array: the first offending value decides.                   *)
DecodeOpenArray(r) ==
    LET bad == {i \in DOMAIN r.values : r.values[i] \in {"number", "text"}}
        first == r.values[CHOOSE i \in bad : \A j \in bad : i <= j]
    IN  CASE r.body = "garbage" -> "InvalidJson"
          [] r.body = "object" -> "RootNotArray"
          [] bad # {} -> IF first = "number" THEN "NonStringValue" ELSE "InvalidSectionIndex"
          [] OTHER -> "decoded"

(* fetch and decode_response, in the order of their early returns.         *)
DecodeResponse(r) ==
    LET array == DecodeOpenArray(r)
    IN  CASE r.status \notin 200..299 -> Failure(ClassifyHttpFailure(r), {r.status})
          [] r.type # "json" -> Failure("InvalidContentType", {r.status})
          [] r.length = "over" -> Failure("ResponseTooLarge", {r.status})
          [] r.body \in {"timeout", "decode", "reset"} ->
                Failure(ClassifyReqwestError(r.body), {r.status})
          [] r.body = "over" -> Failure("ResponseTooLarge", {r.status})
          [] array # "decoded" -> Failure(array, {r.status})
          [] OTHER -> [ok |-> TRUE, kind |-> "none", http |-> {r.status}, values |-> r.values]

Fetch(r) ==
    CASE r.wire = "build" -> Failure("RequestConstruction", {})
      [] r.wire \in {"timeout", "decode", "reset"} -> Failure(ClassifyReqwestError(r.wire), {})
      [] r.wire = "moved" -> Failure("ResponseUrlMismatch", {r.status})
      [] OTHER -> DecodeResponse(r)

-----------------------------------------------------------------------------
(* The service.                                                            *)

(* failure_storage_fields: the code a failure is stored under.             *)
FailureCode(kind) ==
    CASE kind = "Timeout" -> "OPEN_TIMEOUT"
      [] kind = "Network" -> "OPEN_NETWORK"
      [] kind = "RequestConstruction" -> "OPEN_REQUEST_CONSTRUCTION"
      [] kind = "ResponseUrlMismatch" -> "OPEN_RESPONSE_URL_MISMATCH"
      [] kind = "TransientHttp" -> "OPEN_TRANSIENT_HTTP"
      [] kind = "RateLimited" -> "OPEN_RATE_LIMITED"
      [] kind = "Forbidden" -> "OPEN_FORBIDDEN"
      [] kind = "OffOrigin" -> "OPEN_OFF_ORIGIN_REDIRECT"
      [] kind = "SameOrigin" -> "OPEN_SAME_ORIGIN_REDIRECT"
      [] kind = "InvalidLocation" -> "OPEN_INVALID_REDIRECT"
      [] kind = "FatalClientHttp" -> "OPEN_FATAL_CLIENT_HTTP"
      [] kind = "UnsupportedHttp" -> "OPEN_UNSUPPORTED_HTTP"
      [] kind = "InvalidContentType" -> "OPEN_INVALID_CONTENT_TYPE"
      [] kind = "ResponseTooLarge" -> "OPEN_RESPONSE_TOO_LARGE"
      [] kind = "ContentDecoding" -> "OPEN_CONTENT_DECODING"
      [] kind = "InvalidJson" -> "OPEN_INVALID_JSON"
      [] kind = "RootNotArray" -> "OPEN_ROOT_NOT_ARRAY"
      [] kind = "NonStringValue" -> "OPEN_NON_STRING_VALUE"
      [] kind = "InvalidSectionIndex" -> "OPEN_INVALID_SECTION_INDEX"

(* failure_http_audit: the status of the response, if one was read.        *)
FailureHttp(f) == f.http

(* OpenSetEvidence and reconcile_open_set: what the service expects the    *)
(* transaction to conclude.                                                *)
ReconcileCounts(values, sections) ==
    LET unique == Range(values)
        hits == Cardinality(unique \cap sections)
    IN  [raw |-> Len(values), catalog |-> Cardinality(sections), hits |-> hits,
         orphans |-> IF unique = {} THEN 0 ELSE Cardinality(unique) - hits,
         duplicates |-> Len(values) - Cardinality(unique)]

ReconcileOpenSet(values, captured, version, sections, hold) ==
    LET unique == Range(values)
    IN  CASE captured # version -> "StaleCatalogRace"
          [] unique = {} -> CASE sections = {} -> "ValidEmptyNoRows"
                              [] hold -> "SuspectPartialSnapshot"
                              [] OTHER -> "ValidApplied"
          [] sections # {} /\ unique \cap sections = {} -> "UnsafeZeroIntersection"
          [] hold -> "SuspectPartialSnapshot"
          [] OTHER -> "ValidApplied"

(* canonicalize_open_response and the counts of the transaction.           *)
OutcomeCounts(values, members) ==
    LET canonical == Range(values)
    IN  [raw |-> Len(values), catalog |-> Cardinality(members),
         hits |-> Cardinality(canonical \cap members),
         orphans |-> Cardinality(canonical \ members),
         duplicates |-> Len(values) - Cardinality(canonical)]

(* outcome_matches_reconcile.                                              *)
OutcomeMatches(class, plan, counts, planned) ==
    \/ class = "StaleCatalogRace"
    \/ class = plan /\ counts = planned

Lifetime(interval) == 2 * interval + Grace

(* build_committed_observations.                                           *)
CommittedObservations(q, version, at, watched, open) ==
    [s \in watched |-> [seq |-> q, version |-> version, open |-> s \in open,
                        at |-> at, until |-> at + Lifetime(Interval)]]

-----------------------------------------------------------------------------
(* The columns.  rows is open_pull_attempts, obs open_batch_observations   *)
(* (its key is the attempt), mark what every row of open_section_current   *)
(* carries; the batch row is there once an attempt has begun.              *)

NoMark == [seq |-> 0, n |-> 0, version |-> 0, at |-> 0]
NoBatch == [exists |-> FALSE, lastId |-> 0, lkgSeq |-> {}, lkgAt |-> {},
            lkgSet |-> {}, lkgState |-> {}, bodyAt |-> {}, stateAt |-> {}, failure |-> {}]
NoColumns == [rows |-> <<>>, obs |-> <<>>, mark |-> NoMark, batch |-> NoBatch, counts |-> <<>>]

Zero == [attempted |-> 0, succeeded |-> 0, failed |-> 0, empty |-> 0]

(* load_open_counters: a key never counted reads as zeroes.                *)
CountsOf(c, key) == IF key \in DOMAIN c.counts THEN c.counts[key] ELSE Zero

(* increment_attempted_counters and increment_final_counters: the day and  *)
(* the run the attempt began in, whatever the clock says at its end.       *)
CountAttempted(c, day, r) ==
    [c EXCEPT !.counts =
        Put(Put(@, <<"day", day>>, [CountsOf(c, <<"day", day>>) EXCEPT !.attempted = @ + 1]),
            <<"run", r>>, [CountsOf(c, <<"run", r>>) EXCEPT !.attempted = @ + 1])]

CountFinal(c, q, success, empty) ==
    LET bump(n) == [n EXCEPT !.succeeded = @ + (IF success THEN 1 ELSE 0),
                             !.failed = @ + (IF success THEN 0 ELSE 1),
                             !.empty = @ + (IF empty THEN 1 ELSE 0)]
        day == <<"day", c.rows[q].day>>
        key == <<"run", c.rows[q].run>>
    IN  [c EXCEPT !.counts = Put(Put(@, day, bump(CountsOf(c, day))), key, bump(CountsOf(c, key)))]

BeginColumns(c, q, at) ==
    CountAttempted(
        [c EXCEPT !.rows = Put(@, q, [completed |-> {}, code |-> {}, http |-> {},
                                      interval |-> Interval, day |-> Day(at), run |-> run]),
                  !.batch = [@ EXCEPT !.exists = TRUE, !.lastId = q]],
        Day(at), run)

(* finalize_non_applied_attempt.                                           *)
FailColumns(c, q, at, code, http, empty) ==
    CountFinal(
        [c EXCEPT !.rows[q] = [@ EXCEPT !.completed = {at}, !.code = {code}, !.http = http],
                  !.batch.failure = {[seq |-> q, at |-> at, code |-> code, http |-> http]}],
        q, FALSE, empty)

(* The writes of a valid snapshot: the observation, the section marker and *)
(* the last known good markers with the times of the last changes.         *)
ApplyColumns(c, q, n, version, at, set, states) ==
    CountFinal(
        [c EXCEPT
            !.rows[q] = [@ EXCEPT !.completed = {at}, !.http = {200}],
            !.obs = Put(@, q, [n |-> n, version |-> version, at |-> at]),
            !.mark = [seq |-> q, n |-> n, version |-> version, at |-> at],
            !.batch = [@ EXCEPT
                !.lkgSeq = {n}, !.lkgAt = {at}, !.lkgSet = {set}, !.lkgState = {states},
                !.bodyAt = IF c.batch.lkgSet = {set} THEN @ ELSE {at},
                !.stateAt = IF c.batch.lkgState = {states} THEN @ ELSE {at}]],
        q, TRUE, set = {})

(* Pruning an attempt deletes its observation with it.                     *)
Cascade(c, d) ==
    [c EXCEPT !.rows = [q \in DOMAIN @ \cap DOMAIN d.attempts |-> @[q]],
              !.obs = [q \in DOMAIN @ \cap DOMAIN d.attempts |-> @[q]]]

RejectedCode(class) ==
    CASE class = "StaleCatalogRace" -> "CATALOG_CONTENT_VERSION_CHANGED"
      [] class = "UnsafeZeroIntersection" -> "UNSAFE_ZERO_INTERSECTION"
      [] OTHER -> "SUSPECT_PARTIAL_SNAPSHOT"

(* validate_open_http_audit: a header kept for the audit is not empty.     *)
AuditStorable(r) == r.wire # "ok" \/ r.header # "empty"

(* recover_interrupted_open_attempts: a STARTED attempt of an earlier run. *)
RecoverColumns(c, d, at) ==
    LET q == CHOOSE q \in StartedSeqs(d) : TRUE
        closed == [c EXCEPT
            !.rows[q] = [@ EXCEPT !.completed = {at}, !.code = {"PROCESS_RESTARTED"}],
            !.batch.failure = {[seq |-> q, at |-> at, code |-> "PROCESS_RESTARTED", http |-> {}]}]
    IN  IF StartedSeqs(d) = {} THEN c ELSE CountFinal(closed, q, FALSE, FALSE)

-----------------------------------------------------------------------------
(* The projection.                                                         *)

HttpClass(http, other) ==
    CASE http = {408} -> "Http408" [] http = {429} -> "Http429"
      [] \E s \in http : s \in 500..599 -> "Http5xx"
      [] \E s \in http : s \in 400..499 -> "OtherHttp4xx"
      [] OTHER -> other

(* map_failure_code: the codes of failed pulls, and the codes of snapshots *)
(* that were withheld.                                                     *)
MapOpenCode(code, http) ==
    CASE code \in {"OPEN_TIMEOUT", "UPSTREAM_TIMEOUT"} -> "Timeout"
      [] code = "OPEN_NETWORK" -> "Network"
      [] code = "OPEN_RATE_LIMITED" -> "Http429"
      [] code = "OPEN_FORBIDDEN" -> "Forbidden"
      [] code = "OPEN_RESPONSE_TOO_LARGE" -> "Oversize"
      [] code \in {"OPEN_INVALID_CONTENT_TYPE", "OPEN_INVALID_JSON"} -> "NonJson"
      [] code \in {"OPEN_CONTENT_DECODING", "OPEN_ROOT_NOT_ARRAY", "OPEN_NON_STRING_VALUE",
                   "OPEN_RESPONSE_METADATA_MISMATCH", "OPEN_INVALID_REDIRECT"} ->
            "SchemaViolation"
      [] code \in {"OPEN_INVALID_SECTION_INDEX", "OPEN_RESPONSE_TARGET_MISMATCH"} ->
            "InvalidValue"
      [] code \in {"OPEN_REQUEST_CONSTRUCTION", "OPEN_CATALOG_UNAVAILABLE_AFTER_FETCH",
                   "PROCESS_RESTARTED"} -> "Persist"
      [] code \in {"OPEN_RESPONSE_URL_MISMATCH", "OPEN_OFF_ORIGIN_REDIRECT"} ->
            "OffOriginRedirect"
      [] code \in {"OPEN_SAME_ORIGIN_REDIRECT", "OPEN_FATAL_CLIENT_HTTP"} -> "OtherHttp4xx"
      [] code = "OPEN_TRANSIENT_HTTP" -> HttpClass(http, "unmapped")
      [] code = "OPEN_UNSUPPORTED_HTTP" -> HttpClass(http, "SchemaViolation")
      [] OTHER -> "unmapped"

MapFailureCode(code, http) ==
    CASE code = "UNSAFE_EMPTY_WITH_CATALOG_ROWS" -> "UnsafeEmpty"
      [] code = "UNSAFE_ZERO_INTERSECTION" -> "UnsafeZeroIntersection"
      [] code = "SUSPECT_PARTIAL_SNAPSHOT" -> "SuspectPartialSnapshot"
      [] OTHER -> MapOpenCode(code, http)

(* The rows as they are read: none, or the one there is.                   *)
OpenAttempt(d, c, q) ==
    {c.rows[p] : p \in {q} \cap DOMAIN d.attempts \cap DOMAIN c.rows}

BatchState(c) == IF c.batch.exists THEN {c.batch} ELSE None

BatchObservation(c, q) == {c.obs[p] : p \in {q} \cap DOMAIN c.obs}

(* A row of open_section_current for every section of the served catalog   *)
(* that the last applied snapshot knew.                                    *)
SectionCurrent(d, c) == [s \in d.known \cap d.catalog.sections |-> c.mark]

ServingSnapshot(d) == [version |-> d.version, sections |-> d.catalog.sections]

(* project_latest_failure: a stored failure snapshot has a class.          *)
FailureProjects(c) ==
    \A b \in BatchState(c) :
        \A f \in b.failure : MapFailureCode(f.code, f.http) # "unmapped"

(* project_failure_class.                                                  *)
FailureClassProjects(class, row) ==
    class = "Failed" =>
        /\ row.code # {}
        /\ \A code \in row.code : MapFailureCode(code, row.http) # "unmapped"

(* load_attempt and project_attempt_point: an attempt a pointer names must *)
(* be there, and only a STARTED one has no completion.                     *)
AttemptProjects(d, c, q) ==
    /\ OpenAttempt(d, c, q) # None
    /\ \A row \in OpenAttempt(d, c, q) :
          /\ (d.attempts[q].class = "Started") = (row.completed = {})
          /\ FailureClassProjects(d.attempts[q].class, row)

(* The latest attempt is the one the batch row counts.                     *)
LatestProjects(d, c) ==
    \A b \in BatchState(c) : b.lastId = d.lastSeq /\ AttemptProjects(d, c, b.lastId)

(* validate_absent_lkg_state.                                              *)
AbsentLkg(b) == b.lkgSeq = {} /\ b.lkgAt = {} /\ b.lkgSet = {} /\ b.lkgState = {}

(* project_lkg.                                                            *)
LkgProjects(d, c) ==
    IF d.lkg = 0 THEN AbsentLkg(c.batch)
    ELSE /\ AttemptProjects(d, c, d.lkg)
         /\ d.attempts[d.lkg].class \in Successes
         /\ c.rows[d.lkg].interval > 0
         /\ BatchObservation(c, d.lkg) # None
         /\ \A o \in BatchObservation(c, d.lkg) :
               c.batch.lkgSeq = {o.n} /\ d.openVersion = o.version

(* project_sections: a known row belongs to the last known good snapshot.  *)
SectionsProject(d, c) ==
    \A s \in DOMAIN SectionCurrent(d, c) :
        \E o \in BatchObservation(c, d.lkg) :
            SectionCurrent(d, c)[s] = [seq |-> d.lkg, n |-> o.n, version |-> o.version,
                                       at |-> o.at]

StatusProjects(d, c) ==
    LatestProjects(d, c) /\ FailureProjects(c) /\ LkgProjects(d, c) /\ SectionsProject(d, c)

(* invalidation_reason.                                                    *)
Invalidates(class) ==
    class \in {"Failed", "Interrupted", "UnsafeZeroIntersection", "SuspectPartialSnapshot",
               "StaleCatalogRace"}

(* project_open_freshness.                                                 *)
MutFreshness(d, c, at) ==
    LET until == at + Lifetime(c.rows[d.lkg].interval)
    IN  IF d.lkg = 0 THEN "Unknown"
        ELSE IF d.lastSeq > d.lkg /\ Invalidates(d.attempts[d.lastSeq].class) THEN "Stale"
        ELSE IF at <= until THEN "Fresh" ELSE "Stale"

Freshness(d, c, at) ==
    LET done == CHOOSE t \in c.rows[d.lkg].completed : TRUE
        until == done + Lifetime(c.rows[d.lkg].interval)
    IN  IF d.lkg = 0 THEN "Unknown"
        ELSE IF d.lastSeq > d.lkg /\ Invalidates(d.attempts[d.lastSeq].class) THEN "Stale"
        ELSE IF at <= until THEN "Fresh" ELSE "Stale"

(* project_current_open_observations: what a new watch starts from.        *)
Readable(d, c, s) ==
    /\ s \in d.known /\ Freshness(d, c, now) = "Fresh"
    /\ c.obs[d.lkg].version = d.version /\ c.mark.version = d.version

CurrentObservation(d, c, s) ==
    LET o == c.obs[d.lkg]
    IN  IF ~Readable(d, c, s) THEN None
        ELSE {[seq |-> d.lkg, version |-> d.version, open |-> s \in d.open,
               at |-> o.at, until |-> o.at + Lifetime(c.rows[d.lkg].interval)]}

(* project_counters, for the local and the public audience.                *)
Counters(c, audience) ==
    IF audience = "local" THEN <<CountsOf(c, <<"run", run>>), CountsOf(c, <<"day", Day(now)>>)>>
    ELSE <<None, CountsOf(c, <<"day", Day(now)>>)>>

-----------------------------------------------------------------------------
StatusInit ==
    /\ db = EmptyDb /\ cols = NoColumns /\ cand = None /\ flight = None
    /\ now = 0 /\ run = 0 /\ committed = <<>> /\ diverged = FALSE
    /\ truth = [applied |-> 0, open |-> {}, known |-> {}, at |-> 0, version |-> 0, spoiled |-> 0]

StageCatalog(catalog) ==
    LET o == Cardinality(DOMAIN db.refresh) + 1
    IN  /\ cand = None /\ o <= MaxRefreshes
        /\ db' = StageRefresh(BeginRefresh(db, o), o)
        /\ cand' = {<<o, catalog>>}
        /\ UNCHANGED <<cols, flight, now, run, committed, diverged, truth>>

(* begin_open_pull_attempt and begin_candidate_open_pull_attempt.          *)
BeginPull(p) ==
    /\ flight = None /\ db.lastSeq < MaxAttempts /\ BeginAccepted(db, p)
    /\ db' = BeginAttempt(db, p, now)
    /\ cols' = BeginColumns(cols, db.lastSeq + 1, now)
    /\ flight' = {[seq |-> db.lastSeq + 1, refresh |-> p.refresh]}
    /\ UNCHANGED <<cand, now, run, committed, diverged, truth>>

BeginServing ==
    LET served == ServingSnapshot(db)
    IN  BeginPull([refresh |-> 0, base |-> 0, version |-> served.version,
                   sections |-> served.sections])

BeginCandidate ==
    \E pair \in cand :
        BeginPull([refresh |-> pair[1], base |-> db.version,
                   version |-> CandidateVersion(db, pair[2]), sections |-> pair[2].sections])

(* finish_failure: an audit the storage refuses leaves the attempt as it   *)
(* is.                                                                     *)
PullFails(r) ==
    \E x \in flight :
        LET f == Fetch(r)
            done == FinishFailure(db, x.seq, now, x.refresh)
            stored == done.ok /\ AuditStorable(r)
            written == FailColumns(cols, x.seq, now, FailureCode(f.kind), FailureHttp(f), FALSE)
        IN  /\ ~f.ok
            /\ db' = IF stored THEN done.db ELSE db
            /\ cols' = IF stored THEN Cascade(written, done.db) ELSE cols
            /\ truth' = IF stored THEN [truth EXCEPT !.spoiled = x.seq] ELSE truth
            /\ flight' = None
            /\ cand' = IF x.refresh = 0 THEN cand ELSE None
            /\ UNCHANGED <<now, run, committed, diverged>>

(* The commit of finish_success, for a serving or a candidate pull.        *)
CommitOf(x, values, hold) ==
    LET sample == [response |-> Range(values), hold |-> hold, at |-> now,
                   identity |-> {}, watched |-> Watched]
    IN  IF x.refresh = 0 THEN FinishSuccess(db, x.seq, sample, FALSE)
        ELSE FinishCandidate(db, x.seq, sample, x.refresh,
                             (CHOOSE pair \in cand : TRUE)[2], TRUE)

(* The catalog the plan is made for: the served one, or the candidate.     *)
PlanOf(x, values, hold) ==
    LET row == db.attempts[x.seq]
        catalog == IF x.refresh = 0 THEN ServingSnapshot(db)
                   ELSE [version |-> row.version, sections |-> row.members]
    IN  [class |-> ReconcileOpenSet(values, row.version, catalog.version, catalog.sections, hold),
         counts |-> ReconcileCounts(values, catalog.sections)]

(* finish_success, with the observations it hands to the watches.          *)
PullSucceeds(r, hold) ==
    \E x \in flight :
        LET f == Fetch(r)
            q == x.seq
            row == db.attempts[q]
            set == Range(f.values)
            done == CommitOf(x, f.values, hold)
            plan == PlanOf(x, f.values, hold)
            stored == done.ok /\ AuditStorable(r)
            applied == done.class \in Successes
            open == set \cap row.members
            written ==
                IF applied THEN ApplyColumns(cols, q, done.db.obsSeq, row.version, now, set,
                                             <<row.members, open>>)
                ELSE FailColumns(cols, q, now, RejectedCode(done.class), f.http, set = {})
        IN  /\ f.ok
            /\ db' = IF stored THEN done.db ELSE db
            /\ cols' = IF stored THEN Cascade(written, done.db) ELSE cols
            /\ truth' = IF ~stored THEN truth
                        ELSE IF applied
                        THEN [applied |-> q, known |-> row.members, open |-> open, at |-> now,
                              version |-> row.version, spoiled |-> 0]
                        ELSE [truth EXCEPT !.spoiled = q]
            /\ committed' = IF stored /\ applied
                            THEN CommittedObservations(q, row.version, now,
                                                       Watched \cap row.members, open)
                            ELSE committed
            /\ diverged' = (diverged \/
                   (stored /\ ~OutcomeMatches(done.class, plan.class,
                                              OutcomeCounts(f.values, row.members), plan.counts)))
            /\ flight' = None
            /\ cand' = IF x.refresh = 0 THEN cand ELSE None
            /\ UNCHANGED <<now, run>>

(* OperationalStorage::open in a new process.                              *)
Restart ==
    /\ run < MaxRestarts
    /\ run' = run + 1
    /\ db' = Recovered(db, now)
    /\ cols' = RecoverColumns(cols, db, now)
    /\ truth' = IF StartedSeqs(db) = {} THEN truth ELSE [truth EXCEPT !.spoiled = db.lastSeq]
    /\ cand' = None /\ flight' = None /\ committed' = <<>>
    /\ UNCHANGED <<now, diverged>>

Tick ==
    /\ now < MaxTime
    /\ now' = now + 1
    /\ UNCHANGED <<db, cols, cand, flight, run, committed, diverged, truth>>

StatusNext ==
    \/ \E catalog \in Catalogs : StageCatalog(catalog)
    \/ BeginServing
    \/ BeginCandidate
    \/ \E x \in flight : \E r \in Replies[x.seq] :
          PullFails(r) \/ \E hold \in BOOLEAN : PullSucceeds(r, hold)
    \/ Restart
    \/ Tick

StatusSpec == StatusInit /\ [][StatusNext]_vars

-----------------------------------------------------------------------------
(* Whatever sequence of valid, withheld, failed, pruned and interrupted    *)
(* pulls and of catalog publications led here, the status of a published   *)
(* target projects, and the counters it shows add up: a pull counts on the *)
(* day and in the run it began, once when it begins and once when it ends. *)
(* projection.rs warns that a failure here takes the status and the start  *)
(* of watches down until the row is overwritten.                           *)
StatusReadable ==
    /\ db.version > 0 => StatusProjects(db, cols)
    /\ LET shown == Counters(cols, "local")
           balanced(n, mine) == n.attempted = n.succeeded + n.failed + Cardinality(mine)
       IN  /\ balanced(shown[1], {q \in StartedSeqs(db) : cols.rows[q].run = run})
           /\ balanced(shown[2], {q \in StartedSeqs(db) : cols.rows[q].day = Day(now)})
           /\ Counters(cols, "public")[2] = shown[2]

(* A watch starts from an observation exactly when the served catalog is   *)
(* the one the last valid pull was made for, that pull's freshness has not *)
(* run out and the latest pull did not end without being applied; and the  *)
(* observation says what that pull saw.                                    *)
FreshIsCurrent ==
    \A s \in db.catalog.sections :
        LET read == CurrentObservation(db, cols, s)
        IN  /\ (read # None) = (/\ truth.applied # 0 /\ s \in truth.known
                               /\ truth.version = db.version
                               /\ now <= truth.at + Lifetime(Interval)
                               /\ truth.spoiled # db.lastSeq)
            /\ \A o \in read : o.open = (s \in truth.open) /\ o.at = truth.at

(* A commit means one thing to everybody: the service's reconciliation of *)
(* the reply never disagrees with the one inside the transaction (the     *)
(* error would be raised after the commit), and the observation published *)
(* to the watches is the one a reader projects from the database later:   *)
(* state, sequence, catalog version, time and deadline.                   *)
CommitAgrees ==
    /\ ~diverged
    /\ \A s \in DOMAIN committed :
          \A o \in CurrentObservation(db, cols, s) :
              o.seq = committed[s].seq => o = committed[s]
=============================================================================
