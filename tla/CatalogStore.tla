---------------------------- MODULE CatalogStore ----------------------------
(***************************************************************************)
(* The durable catalog of bcsp-operational-storage: refresh attempts that  *)
(* are staged and published per target (storage.rs), the discovery         *)
(* dictionary (discovery.rs), recovery by the first connection of a        *)
(* process, and the startup re-derivation of bcsp-catalog rederive.rs when *)
(* a binary with another derivation rule opens the file.  One action is    *)
(* one IMMEDIATE transaction.                                              *)
(***************************************************************************)
EXTENDS Integers, Sequences, FiniteSets

CONSTANTS
    Targets,        \* term/campus targets
    Contents,       \* semantic hashes of non-empty catalogs
    Empty,          \* the semantic hash of an empty one
    Sources,        \* discovery source versions
    Selectors,      \* the sources of kind SELECTOR
    Rules,          \* derivation rules of the binaries that run
    MaxAttempts,    \* bound: refresh attempts of one run
    MaxDiscoveries, \* bound: discovery attempts of one run
    MaxStarts       \* bound: process starts of one run

VARIABLES
    target,      \* catalog_targets and catalog_refresh_checkpoints
    attempts,    \* catalog_refresh_observations, in order of their ids
    staged,      \* attempts with rows in the staging tables
    serving,     \* the serving rows: content, version, rule they derive from
    stamp,       \* catalog_derivation_state; 0: no row
    dictionary,  \* catalog_discovery_state and the dictionary rows
    discoveries, \* catalog_discovery_observations
    flight,      \* the attempt a refresh workflow of the target works on, or 0
    process      \* the running binary and its registered connections

catalogVars == <<target, attempts, staged, serving, stamp, dictionary, discoveries, flight, process>>
refresh == <<target, attempts, staged, serving, stamp, flight>>
discovery == <<dictionary, discoveries>>

LegacyRule == 1
Nothing == "nothing"
Live == {"STARTED", "STAGED"}
Applied == {"APPLIED_CHANGED", "APPLIED_UNCHANGED"}

NoTarget == [known |-> FALSE, version |-> 0, hash |-> Nothing, sequence |-> 0, attempt |-> 0,
             success |-> 0, published |-> 0, nonempty |-> 0, pending |-> 0, checkpoint |-> 0]
NoRows == [hash |-> Nothing, version |-> 0, rule |-> 0]
Attempt(t, status, sequence) ==
    [target |-> t, status |-> status, sequence |-> sequence, completed |-> status # "STARTED",
     hash |-> Nothing, decision |-> Nothing, candidate |-> 0, result |-> 0, retained |-> 0]
Down == [phase |-> "down", rule |-> 0, connections |-> 0, starts |-> 0]

(* An empty file, or one the last binary without derivation stamps left.   *)
CatalogInit ==
    /\ staged = {} /\ flight = [t \in Targets |-> 0] /\ stamp = [t \in Targets |-> 0]
    /\ dictionary = [version |-> 0, listed |-> {}, owner |-> Nothing, attempt |-> 0,
                     success |-> 0, published |-> 0, nonempty |-> 0]
    /\ discoveries = <<>> /\ process = Down
    /\ \/ /\ target = [t \in Targets |-> NoTarget] /\ attempts = <<>>
          /\ serving = [t \in Targets |-> NoRows]
       \/ \E old \in Targets, c \in Contents :
            /\ attempts = <<[Attempt(old, "APPLIED_CHANGED", 1) EXCEPT !.hash = c, !.candidate = 1,
                                                                  !.result = 1]>>
            /\ target = [t \in Targets |-> IF t # old THEN NoTarget ELSE
                           [NoTarget EXCEPT !.known = TRUE, !.version = 1, !.hash = c, !.sequence = 1,
                              !.attempt = 1, !.success = 1, !.published = 1, !.nonempty = 1,
                              !.checkpoint = 1]]
            /\ serving = [t \in Targets |-> IF t # old THEN NoRows ELSE
                            [hash |-> c, version |-> 1, rule |-> LegacyRule]]

-----------------------------------------------------------------------------
(* OperationalStorage::open, initialize, recover_interrupted_refreshes,    *)
(* and Drop: the first registered connection of a process recovers.        *)
ShouldRecover == process.connections = 0

RecoverInterrupted ==
    /\ attempts' = [o \in DOMAIN attempts |->
         IF attempts[o].status \in Live
         THEN [attempts[o] EXCEPT !.status = "INTERRUPTED", !.completed = TRUE] ELSE attempts[o]]
    /\ staged' = {o \in staged : attempts[o].status \notin Live}
    /\ discoveries' = [d \in DOMAIN discoveries |->
         IF discoveries[d].status = "STARTED"
         THEN [discoveries[d] EXCEPT !.status = "FAILED"] ELSE discoveries[d]]

Open ==
    /\ process.phase # "down" /\ process.connections < 2
    /\ process' = [process EXCEPT !.connections = @ + 1]
    /\ IF ShouldRecover THEN RecoverInterrupted ELSE UNCHANGED <<attempts, staged, discoveries>>
    /\ UNCHANGED <<target, serving, stamp, dictionary, flight>>

(* The serving connection is dropped while the writer stays open.          *)
Close ==
    /\ process.connections = 2
    /\ process' = [process EXCEPT !.connections = 1]
    /\ UNCHANGED <<refresh, discovery>>

StartProcess(rule) ==
    /\ process.phase = "down" /\ process.starts < MaxStarts
    /\ process' = [phase |-> "starting", rule |-> rule, connections |-> 0, starts |-> process.starts + 1]
    /\ UNCHANGED <<refresh, discovery>>

Crash ==
    /\ process.phase # "down"
    /\ process' = [Down EXCEPT !.starts = process.starts]
    /\ flight' = [t \in Targets |-> 0]
    /\ UNCHANGED <<target, attempts, staged, serving, stamp, discovery>>

-----------------------------------------------------------------------------
(* rederive_stored_delivery: catalog_target_versions against               *)
(* catalog_derivation_versions, one rewrite_catalog_delivery per target.   *)
DerivationVersion(t) == IF stamp[t] = 0 THEN LegacyRule ELSE stamp[t]
NeedsRewrite(t) == target[t].known /\ DerivationVersion(t) # process.rule

(* plan_rewrite: the rows whose delivery columns the running rule derives  *)
(* otherwise. A target that never published has none and is only stamped.  *)
Rederived(t) == IF target[t].version = 0 THEN serving[t] ELSE [serving[t] EXCEPT !.rule = process.rule]

RewriteDelivery(t) ==
    /\ process.phase = "starting" /\ process.connections > 0 /\ NeedsRewrite(t)
    /\ serving' = [serving EXCEPT ![t] = Rederived(t)]
    /\ stamp' = [stamp EXCEPT ![t] = process.rule]
    /\ UNCHANGED <<target, attempts, staged, discovery, flight, process>>

Serve ==
    /\ process.phase = "starting" /\ process.connections > 0
    /\ \A t \in Targets : ~NeedsRewrite(t)
    /\ process' = [process EXCEPT !.phase = "serving"]
    /\ UNCHANGED <<refresh, discovery>>

-----------------------------------------------------------------------------
(* ensure_target and the pointer to the latest attempt.                    *)
StartedTarget(t, id) ==
    [target[t] EXCEPT !.known = TRUE, !.sequence = @ + 1, !.attempt = id]

(* insert_or_update_started_observation, for a new observation id.         *)
StartedAttempts(t) == Append(attempts, Attempt(t, "STARTED", target[t].sequence + 1))

BeginRefreshAttempt(t) ==
    LET id == Len(attempts) + 1 IN
    /\ process.phase = "serving" /\ flight[t] = 0 /\ id <= MaxAttempts
    /\ attempts' = StartedAttempts(t)
    /\ target' = [target EXCEPT ![t] = StartedTarget(t, id)]
    /\ flight' = [flight EXCEPT ![t] = id]
    /\ UNCHANGED <<staged, serving, stamp, discovery, process>>

NonEmpty(hash) == hash \in Contents

(* The decision the coordinator takes under the staging lock; a first      *)
(* empty catalog it does not believe the selector lists is not staged.     *)
EmptyDecision(t, c) ==
    IF NonEmpty(c) \/ (target[t].version > 0 /\ ~NonEmpty(serving[t].hash)) THEN "accept"
    ELSE IF target[t].version = 0 THEN "initial" ELSE "retain"

(* current_selector_contains_target.                                       *)
SelectorContains(t) ==
    dictionary.version > 0 /\ t \in dictionary.listed /\ dictionary.owner \in Selectors

Unchanged(t, c) == target[t].version > 0 /\ target[t].hash = c
Suspect(t, c) == ~NonEmpty(c) /\ target[t].version > 0 /\ NonEmpty(serving[t].hash)

(* The decision must fit what the transaction finds; a first empty catalog *)
(* also needs the target in the current dictionary.                        *)
Accepted(t, c, decision) ==
    IF NonEmpty(c) THEN decision = "accept"
    ELSE IF target[t].version = 0 THEN decision = "initial" /\ SelectorContains(t)
         ELSE ~Suspect(t, c) /\ decision = "accept" /\ Unchanged(t, c)

(* candidate_open_catalog_snapshot: the version the open snapshot of this  *)
(* catalog is reconciled against; 0 when none may be formed.               *)
CandidateVersion(t, c) ==
    IF Suspect(t, c) \/ ~Accepted(t, c, EmptyDecision(t, c)) THEN 0
    ELSE IF Unchanged(t, c) THEN target[t].version ELSE target[t].version + 1

(* stage_prepared_catalog_refresh.                                         *)
StagedAttempt(t, id, c) ==
    [attempts[id] EXCEPT !.status = "STAGED", !.completed = TRUE, !.hash = c,
                         !.decision = EmptyDecision(t, c), !.candidate = CandidateVersion(t, c)]

StageCatalogRefresh(t, c) ==
    LET id == flight[t] IN
    /\ id > 0 /\ attempts[id].status = "STARTED"
    /\ attempts' = [attempts EXCEPT ![id] = StagedAttempt(t, id, c)]
    /\ staged' = staged \cup {id}
    /\ UNCHANGED <<target, serving, stamp, discovery, flight, process>>

ClearStaging(id) == staged' = staged \ {id}

(* finish_refresh_failure_with_audit, also reached through                 *)
(* record_failure_best_effort when staging or publication fails.           *)
FinishRefreshFailure(t) ==
    LET id == flight[t] IN
    /\ id > 0 /\ attempts[id].status \in Live
    /\ attempts' = [attempts EXCEPT ![id].status = "FAILED", ![id].completed = TRUE]
    /\ ClearStaging(id) /\ flight' = [flight EXCEPT ![t] = 0]
    /\ UNCHANGED <<target, serving, stamp, discovery, process>>

(* The workflow ends in an error that writes nothing: the attempt stays    *)
(* as it is until the next process recovers it.                            *)
Abandon(t) ==
    /\ flight[t] > 0 /\ flight' = [flight EXCEPT ![t] = 0]
    /\ UNCHANGED <<target, attempts, staged, serving, stamp, discovery, process>>

(* load_staged_metadata: only a STAGED attempt can be published.           *)
LoadStaged(id) == id > 0 /\ attempts[id].status = "STAGED"

(* update_target_after_publish with write_checkpoint.                      *)
PublishedTarget(t, id, version) ==
    [target[t] EXCEPT !.version = version, !.hash = attempts[id].hash, !.success = id,
                      !.published = id, !.checkpoint = id,
                      !.nonempty = IF NonEmpty(attempts[id].hash) THEN id ELSE @,
                      !.pending = 0]

(* publish_staged, the branch that retains a non-empty catalog.            *)
RetainSuspectEmpty(t, id) ==
    /\ Suspect(t, attempts[id].hash)
    /\ attempts' = [attempts EXCEPT ![id].status = "EMPTY_SUSPECT_RETAINED",
                                    ![id].result = target[t].version,
                                    ![id].retained = target[t].published]
    /\ target' = [target EXCEPT ![t].success = id, ![t].pending = id]
    /\ UNCHANGED <<serving, stamp>>
    /\ ClearStaging(id)

ApplyUnchanged(t, id) ==
    /\ attempts[id].candidate > 0 /\ Accepted(t, attempts[id].hash, attempts[id].decision)
    /\ Unchanged(t, attempts[id].hash)
    /\ attempts' = [attempts EXCEPT ![id].status = "APPLIED_UNCHANGED", ![id].result = target[t].version]
    /\ target' = [target EXCEPT ![t] = PublishedTarget(t, id, target[t].version)]
    /\ ClearStaging(id) /\ UNCHANGED <<serving, stamp>>

(* insert_serving_rows, after the target's old rows are deleted.           *)
ServingRows(id, version) ==
    [hash |-> attempts[id].hash, version |-> version, rule |-> process.rule]

ApplyChanged(t, id) ==
    LET next == target[t].version + 1 IN
    /\ attempts[id].candidate > 0 /\ Accepted(t, attempts[id].hash, attempts[id].decision)
    /\ ~Unchanged(t, attempts[id].hash)
    /\ attempts' = [attempts EXCEPT ![id].result = next,
                      ![id].status = IF NonEmpty(attempts[id].hash)
                                     THEN "APPLIED_CHANGED" ELSE "EMPTY_VALID_INITIAL"]
    /\ target' = [target EXCEPT ![t] = PublishedTarget(t, id, next)]
    /\ serving' = [serving EXCEPT ![t] = ServingRows(id, next)]
    /\ stamp' = [stamp EXCEPT ![t] = process.rule]
    /\ ClearStaging(id)

(* publish_staged_refresh and publish_staged_in_transaction; a refusal is  *)
(* left to FinishRefreshFailure or Abandon.                                *)
PublishStaged(t) ==
    LET id == flight[t] IN
    /\ LoadStaged(id)
    /\ RetainSuspectEmpty(t, id) \/ ApplyUnchanged(t, id) \/ ApplyChanged(t, id)
    /\ flight' = [flight EXCEPT ![t] = 0]
    /\ UNCHANGED <<discovery, process>>

-----------------------------------------------------------------------------
BeginDiscoveryAttempt ==
    /\ process.phase = "serving" /\ Len(discoveries) < MaxDiscoveries
    /\ discoveries' = Append(discoveries, [status |-> "STARTED", listed |-> {}, source |-> Nothing,
                                           result |-> 0])
    /\ dictionary' = [dictionary EXCEPT !.attempt = Len(discoveries) + 1]
    /\ UNCHANGED <<refresh, process>>

FinishDiscoveryFailure(d) ==
    /\ process.phase = "serving" /\ discoveries[d].status = "STARTED"
    /\ discoveries' = [discoveries EXCEPT ![d].status = "FAILED"]
    /\ UNCHANGED <<refresh, dictionary, process>>

(* refresh_discovery_source_ownership when the dictionary is unchanged,    *)
(* the new rows' own source when it is replaced.                           *)
MutOwner(listed, source) == IF dictionary.listed = listed THEN dictionary.owner ELSE source
Owner(listed, source) == source

(* apply_discovery_transaction.                                            *)
ApplyDiscoveryRefresh(d, listed, source) ==
    LET changed == dictionary.version = 0 \/ dictionary.listed # listed
        version == IF changed THEN dictionary.version + 1 ELSE dictionary.version
    IN  /\ process.phase = "serving" /\ discoveries[d].status = "STARTED"
        /\ discoveries' = [discoveries EXCEPT ![d] =
             [status |-> IF changed THEN "APPLIED_CHANGED" ELSE "APPLIED_UNCHANGED",
              listed |-> listed, source |-> source, result |-> version]]
        /\ dictionary' = [dictionary EXCEPT !.version = version, !.listed = listed,
                            !.owner = Owner(listed, source), !.success = d, !.published = d,
                            !.nonempty = IF listed # {} THEN d ELSE @]
        /\ UNCHANGED <<refresh, process>>

CatalogNext ==
    \/ Open \/ Close \/ Crash \/ Serve
    \/ \E rule \in Rules : StartProcess(rule)
    \/ \E t \in Targets :
         \/ RewriteDelivery(t) \/ BeginRefreshAttempt(t) \/ FinishRefreshFailure(t) \/ Abandon(t)
         \/ PublishStaged(t) \/ \E c \in Contents \cup {Empty} : StageCatalogRefresh(t, c)
    \/ BeginDiscoveryAttempt
    \/ \E d \in DOMAIN discoveries :
         \/ FinishDiscoveryFailure(d)
         \/ \E listed \in SUBSET Targets, source \in Sources : ApplyDiscoveryRefresh(d, listed, source)

CatalogSpec == CatalogInit /\ [][CatalogNext]_catalogVars

-----------------------------------------------------------------------------
(* load_refresh_observation.                                               *)
AttemptLoads(o) == (attempts[o].status = "STARTED") = ~attempts[o].completed

(* load_target_state: what it requires of a target's pointers.             *)
TargetStateLoads(t) ==
    LET row == target[t]
        At(o) == attempts[o]
        Points(o, statuses) == o > 0 => At(o).target = t /\ At(o).status \in statuses
    IN  /\ \A o \in {row.attempt, row.success, row.published, row.nonempty, row.pending} \ {0} :
             AttemptLoads(o)
        /\ (row.sequence = 0) = (row.attempt = 0)
        /\ row.attempt > 0 => At(row.attempt).target = t /\ At(row.attempt).sequence = row.sequence
        /\ row.version > 0 => row.published > 0
        /\ Points(row.success, Applied \cup {"EMPTY_VALID_INITIAL", "EMPTY_SUSPECT_RETAINED"})
        /\ Points(row.published, Applied \cup {"EMPTY_VALID_INITIAL"})
        /\ Points(row.nonempty, Applied)
        /\ Points(row.pending, {"EMPTY_SUSPECT_RETAINED"})
        /\ \A o \in {row.success, row.published, row.pending} \ {0} : At(o).result = row.version
        /\ row.nonempty > 0 => NonEmpty(At(row.nonempty).hash)

(* load_catalog_snapshot: every row is of the version asked for.           *)
RowsLoad(t) == serving[t].version = target[t].version

(* published_catalog_snapshot: the rows, their counts and their hash.      *)
SnapshotLoads(t) ==
    target[t].version > 0 => RowsLoad(t) /\ serving[t].hash = target[t].hash

(* load_discovery_state.                                                   *)
DiscoveryStateLoads ==
    LET last == dictionary.success
        full == dictionary.nonempty
    IN  /\ dictionary.version > 0 => last > 0 /\ dictionary.published = last
        /\ last > 0 => /\ discoveries[last].status \in Applied
                       /\ discoveries[last].result = dictionary.version
                       /\ discoveries[last].listed = dictionary.listed
        /\ full > 0 => discoveries[full].status \in Applied /\ discoveries[full].listed # {}

(* load_published_discovery_snapshot: the dictionary rows belong to a      *)
(* source of the latest success.                                           *)
DictionaryLoads ==
    dictionary.version > 0 => dictionary.owner = discoveries[dictionary.success].source

(* Whatever sequence of publications, failures, crashes and recoveries led *)
(* here, no reader's consistency check refuses the stored state: the       *)
(* target state, the published catalog and the dictionary all load.        *)
ReadersAccept ==
    DiscoveryStateLoads /\ DictionaryLoads /\ \A t \in Targets : TargetStateLoads(t) /\ SnapshotLoads(t)

(* While a process serves, every serving row derives from its own rule,    *)
(* upgrades, downgrades and unchanged publications included: the           *)
(* projection would reject any other row (rederive.rs).                    *)
DeliveryCurrent ==
    process.phase = "serving" =>
        \A t \in Targets : target[t].version > 0 => serving[t].rule = process.rule

(* Staging rows belong to an attempt still STAGED; the attempt a workflow  *)
(* works on is never taken from it by another connection that opens the    *)
(* file; and a catalog is published under the very version its open        *)
(* snapshot was reconciled against when it was staged.                     *)
StagingOwned ==
    /\ staged = {o \in DOMAIN attempts : attempts[o].status = "STAGED"}
    /\ \A t \in Targets : flight[t] > 0 => attempts[flight[t]].status \in Live
    /\ \A o \in DOMAIN attempts :
         attempts[o].status \in Applied \cup {"EMPTY_VALID_INITIAL"} =>
             attempts[o].result = attempts[o].candidate
=============================================================================
