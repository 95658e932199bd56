-------------------------- MODULE PreparedServing --------------------------
(***************************************************************************)
(* Prepared serving (bcsp-application prepared_serving.rs): requests are   *)
(* bound to one immutable generation built from the operational database.  *)
(* A publisher puts up a ticket before its transaction (refresh_           *)
(* coordinator.rs, discovery_runtime.rs), a committed ticket closes        *)
(* admission, and one worker rebuilds and takes the tickets down again.    *)
(*                                                                         *)
(* The builder reads the database statement by statement through its own   *)
(* connection. The term window stands still.                               *)
(***************************************************************************)
EXTENDS Integers, FiniteSets, FiniteSetsExt

CONSTANTS
    Targets,         \* targets of the product
    Publishers,      \* threads that commit transactions
    Readers,         \* threads that serve requests
    MaxEpochs,       \* bound: tickets of one run
    MaxFaults        \* bound: builds that fail on an error of their own

Unknown == 0         \* evidence of a conservative overlay
NoGeneration == [foundation |-> "none"]
Ready == [pc |-> "ready", done |-> {}]
Resting == [pc |-> "idle", epoch |-> 0, target |-> {}]

VARIABLES
    db,         \* the discovery version, and per target the catalog version (0: not ready)
                \*   and the last Open attempt
    current,    \* the generation requests are bound to
    tickets,    \* epoch -> its kind, target (as a set) and phase
    nextEpoch,  \* last epoch handed out
    inbox,      \* requests the worker has not received
    pending,    \* requests merged and not executed
    executing,  \* requests the build in hand answers
    build,      \* the build in hand
    publisher,  \* publisher[p]: its barrier
    reader,     \* reader[r]: "idle", "parked" or "woken"
    accepting,  \* PublicationLifecycleState::accepting
    cancelled,  \* PreparedRebuildCancellation
    closed,     \* PreparedServingRegistry::closed
    stopping,   \* the worker has received Shutdown
    gone,       \* the worker's task has ended
    faults,     \* builds that failed so far
    forgiven    \* a failed full build has taken its tickets down

ticketVars == <<tickets, nextEpoch>>
workerVars == <<inbox, pending, executing, build, stopping, gone>>
shutdownVars == <<accepting, cancelled, closed>>
preparedVars == <<db, current, ticketVars, workerVars, publisher, reader, shutdownVars, faults, forgiven>>

-----------------------------------------------------------------------------
(* What a build reads.                                                     *)
Foundation(store) == [discovery |-> store.discovery, catalog |-> store.catalog]
Overlay(attempt, evidence) == [attempt |-> attempt, evidence |-> evidence]
Prepared(catalog) == {t \in Targets : catalog[t] > 0}
Generation(store) ==
    [foundation |-> Foundation(store),
     open |-> [t \in Prepared(store.catalog) |-> Overlay(store.attempt[t], store.attempt[t])]]

(* The LKG build at start may fail.                                        *)
PreparedInit ==
    /\ \E ready \in SUBSET Targets :
         db = [discovery |-> 1, catalog |-> [t \in Targets |-> IF t \in ready THEN 1 ELSE 0],
               attempt |-> [t \in Targets |-> IF t \in ready THEN 1 ELSE 0]]
    /\ current \in {NoGeneration, Generation(db)}
    /\ tickets = <<>> /\ nextEpoch = 0 /\ inbox = {} /\ pending = {} /\ executing = {}
    /\ build = Ready /\ publisher = [p \in Publishers |-> Resting]
    /\ reader = [r \in Readers |-> "idle"]
    /\ accepting = TRUE /\ cancelled = FALSE /\ closed = FALSE /\ stopping = FALSE /\ gone = FALSE
    /\ faults = 0 /\ forgiven = FALSE

-----------------------------------------------------------------------------
(* The registry's tickets.                                                 *)
MutAdmissionBlocked(held) ==
    \E e \in DOMAIN held : held[e].kind = "full" /\ held[e].phase = "committed"
AdmissionBlocked(held) ==
    \E e \in DOMAIN held : held[e].kind = "full" \/ held[e].phase = "committed"
Masked == UNION {tickets[e].target : e \in {d \in DOMAIN tickets : tickets[d].kind = "open"}}

With(held, e, ticket) == [d \in DOMAIN held \cup {e} |-> IF d = e THEN ticket ELSE held[d]]
Without(held, gonee) == [d \in DOMAIN held \ gonee |-> held[d]]
Ticket(kind, target, phase) == [kind |-> kind, target |-> target, phase |-> phase]
Request(kind, target, e) == [kind |-> kind, target |-> target, epoch |-> e]

(* notify_admission_changed: whoever is parked looks again.                *)
Notified == [r \in Readers |-> IF reader[r] = "parked" THEN "woken" ELSE reader[r]]

(* clear_full_tickets, clear_open_tickets.                                 *)
Clear(epochs) ==
    /\ tickets' = Without(tickets, {e \in epochs \cap DOMAIN tickets : tickets[e].phase = "committed"})
    /\ reader' = Notified

(* A request whose worker has gone is lost.                                *)
Send(request) == inbox' = IF gone THEN inbox ELSE inbox \cup {request}

-----------------------------------------------------------------------------
(* begin_publication, begin_open_publication: mark_full_dirty,             *)
(* mark_open_dirty behind the lifecycle.                                   *)
BeginPublication(p, kind, target) ==
    /\ publisher[p] = Resting /\ accepting /\ nextEpoch < MaxEpochs
    /\ nextEpoch' = nextEpoch + 1
    /\ tickets' = With(tickets, nextEpoch + 1, Ticket(kind, target, "precommit"))
    /\ publisher' = [publisher EXCEPT ![p] = [pc |-> kind, epoch |-> nextEpoch + 1, target |-> target]]
    /\ UNCHANGED <<db, current, workerVars, reader, shutdownVars, faults, forgiven>>

(* The transaction behind a full barrier: a discovery, a catalog that is   *)
(* retained, or a candidate whose catalog and Open rows are applied        *)
(* together, with a new version or the same one, or whose Open rows alone  *)
(* are.                                                                    *)
Attempted(t) == [db EXCEPT !.attempt[t] = @ + 1]

TransactFull(p) ==
    /\ publisher[p].pc = "full"
    /\ \/ /\ db' \in {db, [db EXCEPT !.discovery = @ + 1]}
          /\ publisher' = [publisher EXCEPT ![p].pc = "commit"]
       \/ \E t \in Targets :
            \/ /\ db' = [Attempted(t) EXCEPT !.catalog[t] = @ + 1]
               /\ publisher' = [publisher EXCEPT ![p].pc = "commit"]
            \/ /\ db.catalog[t] > 0 /\ db' = Attempted(t)
               /\ publisher' = [publisher EXCEPT ![p].pc = "commit"]
            \/ /\ db' = Attempted(t)
               /\ publisher' = [publisher EXCEPT ![p].pc = "narrow", ![p].target = {t}]
    /\ UNCHANGED <<current, ticketVars, workerVars, reader, shutdownVars, faults, forgiven>>

TransactOpen(p) ==
    /\ publisher[p].pc = "open"
    /\ \E t \in publisher[p].target : db' = Attempted(t)
    /\ publisher' = [publisher EXCEPT ![p].pc = "commit"]
    /\ UNCHANGED <<current, ticketVars, workerVars, reader, shutdownVars, faults, forgiven>>

(* The transaction fails and the barrier is dropped: rollback_full_dirty,  *)
(* rollback_open_dirty.                                                    *)
Rollback(p) ==
    /\ publisher[p].pc \in {"full", "open"}
    /\ tickets' = Without(tickets, {publisher[p].epoch}) /\ reader' = Notified
    /\ publisher' = [publisher EXCEPT ![p] = Resting]
    /\ UNCHANGED <<db, current, nextEpoch, workerVars, shutdownVars, faults, forgiven>>

(* commit: commit_full_dirty, commit_open_dirty, then the request.         *)
CommitBarrier(p) ==
    LET e == publisher[p].epoch IN
    /\ publisher[p].pc = "commit"
    /\ tickets' = [tickets EXCEPT ![e].phase = "committed"]
    /\ Send(Request(tickets[e].kind, tickets[e].target, e))
    /\ publisher' = [publisher EXCEPT ![p] = Resting]
    /\ UNCHANGED <<db, current, nextEpoch, pending, executing, build, stopping, gone, reader,
                   shutdownVars, faults, forgiven>>

(* commit_as_open: convert_full_dirty_to_open under one lock.              *)
CommitAsOpen(p) ==
    LET e == publisher[p].epoch IN
    /\ publisher[p].pc = "narrow"
    /\ nextEpoch' = nextEpoch + 1
    /\ tickets' = With(Without(tickets, {e}), nextEpoch + 1,
                       Ticket("open", publisher[p].target, "committed"))
    /\ reader' = Notified
    /\ Send(Request("open", publisher[p].target, nextEpoch + 1))
    /\ publisher' = [publisher EXCEPT ![p] = Resting]
    /\ UNCHANGED <<db, current, pending, executing, build, stopping, gone, shutdownVars, faults,
                   forgiven>>

-----------------------------------------------------------------------------
(* The worker: everything received is merged; full rebuilds go first.      *)
Shutdown == Request("shutdown", {}, 0)
Epochs(requests) == {q.epoch : q \in requests}
OfKind(requests, kind) == {q \in requests : q.kind = kind}

Choose ==
    LET merged == pending \cup (inbox \ {Shutdown})
        full == OfKind(merged, "full")
        chosen == IF full # {} THEN full ELSE merged
        stop == stopping \/ Shutdown \in inbox
    IN
    /\ ~gone /\ build = Ready /\ (inbox \cup pending # {} \/ stopping)
    /\ inbox' = {} /\ pending' = merged \ chosen /\ executing' = chosen /\ stopping' = stop
    /\ gone' = (chosen = {} /\ stop)
    /\ accepting' = (accepting /\ ~gone') /\ closed' = (closed \/ gone')
    /\ reader' = IF gone' THEN Notified ELSE reader
    /\ build' = IF chosen = {} THEN Ready
                ELSE [pc |-> "start", kind |-> IF full # {} THEN "full" ELSE "open",
                      base |-> current, done |-> {}]
    /\ UNCHANGED <<db, current, ticketVars, publisher, cancelled, faults, forgiven>>

BuildTargets == UNION {q.target : q \in executing}
Building(kind, pc) == build # Ready /\ build.kind = kind /\ build.pc = pc
OnlyBuild == UNCHANGED <<db, current, ticketVars, inbox, pending, executing, stopping, gone,
                         publisher, reader, shutdownVars, faults, forgiven>>

(* build_prepared_serving_snapshot: discovery and generations, then the    *)
(* catalogs, an overlay for each, then everything is read again.           *)
StartFull ==
    /\ Building("full", "start")
    /\ build' = [pc |-> "load", kind |-> "full", base |-> build.base, done |-> {},
                 read |-> Foundation(db)]
    /\ OnlyBuild

LoadCatalogs ==
    /\ Building("full", "load")
    /\ build' = [pc |-> "overlay", kind |-> "full", base |-> build.base, done |-> {},
                 read |-> build.read, catalog |-> db.catalog,
                 todo |-> Prepared(build.read.catalog),
                 open |-> [t \in Prepared(build.read.catalog) |-> Overlay(0, Unknown)]]
    /\ OnlyBuild

(* rebuild_prepared_open_overlay: the foundation of the base is shared.    *)
StartOpen ==
    /\ Building("open", "start")
    /\ build.base # NoGeneration /\ BuildTargets \subseteq Prepared(build.base.foundation.catalog)
    /\ build' = [pc |-> "overlay", kind |-> "open", base |-> build.base, done |-> {},
                 read |-> build.base.foundation, catalog |-> build.base.foundation.catalog,
                 todo |-> BuildTargets, open |-> build.base.open]
    /\ OnlyBuild

(* project_prepared_open_overlay: the state, the projection, the state.    *)
Before(t) ==
    /\ build.pc = "overlay" /\ t \in build.todo /\ db.catalog[t] = build.catalog[t]
    /\ build' = [build EXCEPT !.pc = "after", !.done = {t},
                              !.open[t] = Overlay(db.attempt[t], db.attempt[t])]
    /\ OnlyBuild

Evidence(before, after) == Overlay(after, IF before = after THEN after ELSE Unknown)

After(t) ==
    /\ build.pc = "after" /\ t \in build.done /\ db.catalog[t] = build.catalog[t]
    /\ build' = [build EXCEPT !.pc = "overlay", !.done = {}, !.todo = @ \ {t},
                              !.open[t] = Evidence(build.open[t].attempt, db.attempt[t])]
    /\ OnlyBuild

Recheck ==
    /\ build.pc = "overlay" /\ build.todo = {}
    /\ build.kind = "full" => Foundation(db) = build.read
    /\ build' = [build EXCEPT !.pc = "publish"]
    /\ OnlyBuild

(* publish_if_unchanged, and the tickets this build answers.               *)
Publish ==
    /\ build.pc = "publish" /\ ~cancelled /\ current = build.base
    /\ current' = [foundation |-> build.read, open |-> build.open]
    /\ Clear(Epochs(executing))
    /\ build' = Ready /\ executing' = {}
    /\ UNCHANGED <<db, nextEpoch, inbox, pending, stopping, gone, publisher, shutdownVars, faults,
                   forgiven>>

-----------------------------------------------------------------------------
(* A build that gives up. Nothing is retried once Shutdown was received.   *)
Retry(requests) == pending' = IF stopping THEN pending ELSE pending \cup requests
GiveUp == build' = Ready /\ executing' = {}

(* PublicationChanged: something the build read has moved.                 *)
Changed ==
    /\ \/ \E t \in Targets : \/ build.pc = "overlay" /\ t \in build.todo /\ db.catalog[t] # build.catalog[t]
                             \/ build.pc = "after" /\ t \in build.done /\ db.catalog[t] # build.catalog[t]
       \/ build.pc = "overlay" /\ build.todo = {} /\ build.kind = "full" /\ Foundation(db) # build.read
    /\ Retry(executing) /\ GiveUp
    /\ UNCHANGED <<db, current, ticketVars, inbox, stopping, gone, publisher, reader, shutdownVars,
                   faults, forgiven>>

Cancelled ==
    /\ cancelled /\ build # Ready
    /\ build.kind = "full" \/ build.pc \in {"start", "publish"}
    /\ GiveUp
    /\ UNCHANGED <<db, current, ticketVars, inbox, pending, stopping, gone, publisher, reader,
                   shutdownVars, faults, forgiven>>

(* TargetNotPrepared, SnapshotUnavailable: promote_open_tickets_to_full.   *)
Promote ==
    /\ Building("open", "start")
    /\ build.base # NoGeneration => ~(BuildTargets \subseteq Prepared(build.base.foundation.catalog))
    /\ IF stopping THEN UNCHANGED <<ticketVars, pending, reader>>
       ELSE /\ nextEpoch' = nextEpoch + 1
            /\ tickets' = With(Without(tickets, Epochs(executing)), nextEpoch + 1,
                               Ticket("full", {}, "committed"))
            /\ pending' = pending \cup {Request("full", {}, nextEpoch + 1)}
            /\ reader' = Notified
    /\ GiveUp
    /\ UNCHANGED <<db, current, inbox, stopping, gone, publisher, shutdownVars, faults, forgiven>>

(* Any other error, or a panic: a full build whose sources have not moved  *)
(* (authoritative_foundation_matches) takes its tickets down.              *)
SourceUnchanged == current # NoGeneration /\ Foundation(db) = current.foundation

Fault ==
    /\ build # Ready /\ faults < MaxFaults /\ faults' = faults + 1
    /\ IF ~stopping /\ build.kind = "full" /\ SourceUnchanged
       THEN Clear(Epochs(executing)) /\ forgiven' = TRUE /\ UNCHANGED pending
       ELSE Retry(executing) /\ UNCHANGED <<tickets, reader, forgiven>>
    /\ GiveUp
    /\ UNCHANGED <<db, current, nextEpoch, inbox, stopping, gone, publisher, shutdownVars>>

-----------------------------------------------------------------------------
(* shutdown: cancel, close the registry, tell the worker, stop accepting.  *)
ShutDown ==
    /\ ~cancelled
    /\ cancelled' = TRUE /\ closed' = TRUE /\ accepting' = FALSE
    /\ reader' = Notified /\ Send(Shutdown)
    /\ UNCHANGED <<db, current, ticketVars, pending, executing, build, stopping, gone, publisher,
                   faults, forgiven>>

(* The task is aborted when it does not drain in time.                     *)
Abort ==
    /\ cancelled /\ ~gone /\ gone' = TRUE
    /\ build' = Ready /\ executing' = {} /\ pending' = {} /\ inbox' = {}
    /\ closed' = TRUE /\ reader' = Notified
    /\ UNCHANGED <<db, current, ticketVars, stopping, publisher, accepting, cancelled, faults, forgiven>>

-----------------------------------------------------------------------------
(* snapshot_within, up to the point where a request is bound or refused.   *)
Look(r) ==
    /\ reader' = [reader EXCEPT ![r] =
                    IF AdmissionBlocked(tickets) /\ current # NoGeneration /\ ~closed
                    THEN "parked" ELSE "idle"]
    /\ UNCHANGED <<db, current, ticketVars, workerVars, publisher, shutdownVars, faults, forgiven>>

Arrive(r) == reader[r] = "idle" /\ AdmissionBlocked(tickets) /\ Look(r)
Wake(r) == reader[r] = "woken" /\ Look(r)
TimeOut(r) ==
    /\ reader[r] = "parked" /\ reader' = [reader EXCEPT ![r] = "idle"]
    /\ UNCHANGED <<db, current, ticketVars, workerVars, publisher, shutdownVars, faults, forgiven>>

WorkerStep ==
    \/ Choose \/ StartFull \/ LoadCatalogs \/ StartOpen \/ Recheck \/ Publish
    \/ \E t \in Targets : Before(t) \/ After(t)
    \/ Changed \/ Cancelled \/ Promote

PublisherStep(p) == TransactFull(p) \/ TransactOpen(p) \/ CommitBarrier(p) \/ CommitAsOpen(p)

PreparedNext ==
    \/ \E p \in Publishers :
         \/ BeginPublication(p, "full", {}) \/ Rollback(p) \/ PublisherStep(p)
         \/ \E t \in Targets : BeginPublication(p, "open", {t})
    \/ WorkerStep \/ Fault \/ ShutDown \/ Abort
    \/ \E r \in Readers : Arrive(r) \/ Wake(r) \/ TimeOut(r)

(* A publisher between its barrier and its commit goes on, the worker      *)
(* works, a woken thread runs. Nobody counts on the time-out.              *)
PreparedFairness ==
    /\ \A p \in Publishers : WF_preparedVars(PublisherStep(p))
    /\ WF_preparedVars(WorkerStep)
    /\ \A r \in Readers : WF_preparedVars(Wake(r))

PreparedSpec == PreparedInit /\ [][PreparedNext]_preparedVars /\ PreparedFairness

-----------------------------------------------------------------------------
OverlaysCurrent ==
    \A t \in DOMAIN current.open \ Masked :
      /\ current.open[t].attempt = db.attempt[t]
      /\ current.open[t].evidence \in {db.attempt[t], Unknown}

(* Whenever a request can be bound, the generation it gets is one          *)
(* generation and the newest: its discovery and catalogs are the           *)
(* committed ones, through every overlap of transactions and builds, and   *)
(* until a failed full build is forgiven so is every Open overlay that is  *)
(* not masked (snapshot_within, admission_blocked, build_prepared_serving_ *)
(* snapshot, project_prepared_open_overlay).                               *)
AdmittedCurrent ==
    (~AdmissionBlocked(tickets) /\ current # NoGeneration) =>
        /\ current.foundation = Foundation(db)
        /\ ~forgiven => OverlaysCurrent

(* "a request is never bound to an overlay a committed authoritative       *)
(* transaction has superseded" (prepared_serving.rs).                      *)
NeverSuperseded ==
    (~AdmissionBlocked(tickets) /\ current # NoGeneration) => OverlaysCurrent

RequestWaits(r) == reader[r] # "idle"

(* A request that waits is answered without its time-out: the worker takes *)
(* down the tickets it waits for, or the registry closes and releases it   *)
(* (notify_admission_changed, close, the worker's retries).                *)
WaitersReleased == \A r \in Readers : RequestWaits(r) ~> ~RequestWaits(r)
=============================================================================
