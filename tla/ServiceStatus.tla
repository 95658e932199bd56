---------------------------- MODULE ServiceStatus ----------------------------
(***************************************************************************)
(* The service status: the registry the refresh coordinators report their  *)
(* work to (ServiceStatusRegistry), the order in which a coordinator       *)
(* reports (run_next, the concurrent Open refresh, removal), and the       *)
(* status projected from the registry and the stored facts                 *)
(* (project_service_status_v2).                                            *)
(*                                                                         *)
(* A target has at most one primary workflow, a complete snapshot or an    *)
(* Open refresh, and beside a complete snapshot one concurrent Open        *)
(* refresh.  Times and diagnostics are left out; an error is the kind of   *)
(* workflow that failed.                                                   *)
(***************************************************************************)
EXTENDS Naturals, FiniteSets

CONSTANTS None,        \* the absent value
          Targets,     \* term and campus pairs of the visible terms
          Automatic,   \* those of the current and the next term
          MaxWork      \* bound on the workflows started

VARIABLES registered,  \* targets with a coordinator
          work,        \* the workflows in flight of each target
          failing,     \* the jobs of each target whose last run failed
          removing,    \* targets removed while a workflow ran
          registry,    \* ServiceActivityState
          facts,       \* what storage says of each target
          left         \* workflows that may still start

vars == <<registered, work, failing, removing, registry, facts, left>>

Snapshot == "CompleteSnapshot"
Open == "OpenRefresh"
Concurrent == "ConcurrentOpen"     \* its operation id is OpenRefresh as well
OperationKind(w) == IF w = Snapshot THEN Snapshot ELSE Open
FirstStage(w) == IF w = Snapshot THEN "CATALOG_FETCH" ELSE "OPEN_FETCH"
Stages == {"CATALOG_FETCH", "CATALOG_STAGE", "OPEN_FETCH"}
-----------------------------------------------------------------------------
(* The registry: one operator per method, on the state under its lock. *)

NewRegistry == [running |-> FALSE, phase |-> "STARTING",
                activities |-> [t \in Targets |-> None],
                operations |-> {}]

Publish(r) == [r EXCEPT !.running = TRUE]

MarkStopped(r) == [r EXCEPT !.running = FALSE, !.phase = "STOPPED", !.operations = {},
                            !.activities = [t \in Targets |-> None]]

PublishActivity(r, phase) == [r EXCEPT !.phase = phase]

PublishTargetActivity(r, t, state, stage, error) ==
  [r EXCEPT !.activities[t] = [state |-> state, stage |-> stage, error |-> error]]

ClearTargetActivity(r, t) == [r EXCEPT !.activities[t] = None]

(* An operation that is known keeps its start and takes the new stage. *)
PublishWorkflowOperation(r, t, kind, stage) ==
  [r EXCEPT !.running = TRUE,
            !.operations = {o \in @ : o.target # t \/ o.kind # kind}
                           \cup {[target |-> t, kind |-> kind, stage |-> stage]}]

ClearWorkflowOperation(r, t, kind) ==
  [r EXCEPT !.operations = {o \in @ : o.target # t \/ o.kind # kind}]

ClearTargetWorkflowOperations(r, t) == [r EXCEPT !.operations = {o \in @ : o.target # t}]
-----------------------------------------------------------------------------
(* The coordinator's reports. *)

(* RefreshCoordinator::stop for one target. *)
Stop(r, t) == ClearTargetWorkflowOperations(ClearTargetActivity(r, t), t)

(* register: a target without a complete snapshot is queued. *)
Register(t) ==
  /\ t \notin registered /\ work[t] = {}
  /\ registered' = registered \cup {t}
  /\ registry' = Publish(IF facts[t].ready THEN ClearTargetActivity(registry, t)
                         ELSE PublishTargetActivity(registry, t, "QUEUED", "CATALOG_FETCH", None))
  /\ failing' = [failing EXCEPT ![t] = {}]
  /\ UNCHANGED <<work, removing, facts, left>>

(* run_next: the dispatch is reported before the work. *)
StartPrimary(t, w) ==
  /\ t \in registered /\ work[t] = {} /\ left > 0
  /\ w = Open => facts[t].ready
  /\ work' = [work EXCEPT ![t] = {w}]
  /\ left' = left - 1
  /\ registry' = PublishWorkflowOperation(
                   PublishActivity(Publish(registry), FirstStage(w)), t, OperationKind(w), FirstStage(w))
  /\ UNCHANGED <<registered, failing, removing, facts>>

(* The concurrent Open refresh of a watched target. *)
StartConcurrent(t) ==
  /\ work[t] = {Snapshot} /\ facts[t].ready /\ left > 0
  /\ work' = [work EXCEPT ![t] = @ \cup {Concurrent}]
  /\ left' = left - 1
  /\ registry' = PublishWorkflowOperation(registry, t, Open, FirstStage(Concurrent))
  /\ UNCHANGED <<registered, failing, removing, facts>>

(* A complete snapshot moves to its next stage. *)
Advance(t, stage) ==
  /\ Snapshot \in work[t]
  /\ \E o \in registry.operations : o.target = t /\ o.kind = Snapshot /\ o.stage # stage
  /\ registry' = PublishWorkflowOperation(PublishActivity(registry, stage), t, Snapshot, stage)
  /\ UNCHANGED <<registered, work, failing, removing, facts, left>>

(* Its end, which also releases a removed target whose primary workflow     *)
(* ended first.                                                             *)
FinishConcurrent(t, ok) ==
  /\ Concurrent \in work[t]
  /\ LET cleared == ClearWorkflowOperation(registry, t, Open)
         stop == t \in removing /\ work[t] = {Concurrent}
     IN /\ registry' = IF stop THEN Stop(cleared, t) ELSE cleared
        /\ removing' = IF stop THEN removing \ {t} ELSE removing
  /\ work' = [work EXCEPT ![t] = @ \ {Concurrent}]
  /\ facts' = [facts EXCEPT ![t].open = IF ok THEN "ok" ELSE "failed"]
  /\ UNCHANGED <<registered, failing, left>>

(* What a primary workflow leaves in storage, and whether it is retried; an *)
(* internal error is retried and may leave nothing.                         *)
Outcomes(f, w) ==
  {[facts |-> f, retrying |-> TRUE], [facts |-> [f EXCEPT !.open = "failed"], retrying |-> TRUE]}
  \cup IF w = Open THEN {[facts |-> [f EXCEPT !.open = "ok"], retrying |-> FALSE]}
       ELSE {[facts |-> [f EXCEPT !.catalog = "failed"], retrying |-> TRUE],
             [facts |-> [catalog |-> "ok", open |-> "ok", ready |-> TRUE], retrying |-> FALSE]}

(* The tail of run_next and finish_primary_workflow: the operation is       *)
(* cleared, the outcome reported, and a target removed meanwhile stopped.   *)
FinishPrimary(t, w, o) ==
  /\ w \in work[t] /\ w # Concurrent
  /\ LET cleared == Publish(ClearWorkflowOperation(registry, t, OperationKind(w)))
         reported == IF o.retrying
                     THEN PublishTargetActivity(PublishActivity(cleared, "RETRY_WAIT"),
                                                t, "RETRY_WAIT", FirstStage(w), w)
                     ELSE ClearTargetActivity(PublishActivity(cleared, "IDLE"), t)
         stop == t \in removing /\ work[t] = {w}
     IN /\ registry' = IF stop THEN Stop(reported, t) ELSE reported
        /\ removing' = IF stop THEN removing \ {t} ELSE removing
        /\ failing' = [failing EXCEPT ![t] = IF o.retrying THEN @ \cup {w} ELSE @ \ {w}]
        /\ facts' = [facts EXCEPT ![t] = o.facts]
        /\ work' = [work EXCEPT ![t] = @ \ {w}]
  /\ UNCHANGED <<registered, left>>

ManualRetry(t) ==
  /\ t \in registered /\ work[t] = {}
  /\ \E w \in failing[t] :
       registry' = Publish(PublishTargetActivity(registry, t, "QUEUED", FirstStage(w), None))
  /\ UNCHANGED <<registered, work, failing, removing, facts, left>>

(* RemoveTarget: at once when idle, else when its workflow has ended. *)
RemoveTarget(t) ==
  /\ t \in registered
  /\ registered' = registered \ {t}
  /\ IF work[t] = {} THEN registry' = Stop(registry, t) /\ UNCHANGED removing
     ELSE removing' = removing \cup {t} /\ UNCHANGED registry
  /\ UNCHANGED <<work, failing, facts, left>>

(* The runtime shuts down: workflows are awaited, then mark_stopped. *)
Shutdown ==
  /\ \A t \in Targets : work[t] = {}
  /\ registered' = {} /\ removing' = {} /\ left' = 0
  /\ registry' = MarkStopped(registry)
  /\ UNCHANGED <<work, failing, facts>>
-----------------------------------------------------------------------------
(* project_service_status_v2 *)

(* Of a target's operations the least kind is shown: a complete snapshot. *)
RunningOperation(t) ==
  LET ops == {o \in registry.operations : o.target = t}
      main == {o \in ops : o.kind = Snapshot}
  IN IF ops = {} THEN None
     ELSE CHOOSE o \in IF main # {} THEN main ELSE ops : TRUE

(* target_last_error: the catalog's failure before Open's. *)
TargetLastError(f) ==
  CASE f.catalog = "failed" -> Snapshot
    [] f.catalog # "failed" /\ f.open = "failed" -> Open
    [] OTHER -> None

TargetStatus(t) ==
  LET a == registry.activities[t]
      o == RunningOperation(t)
      requested == a # None \/ o # None \/ facts[t].catalog # "none" \/ facts[t].open # "none"
      known == IF a = None THEN None ELSE a.error
  IN [availability |-> IF facts[t].ready THEN "READY"
                       ELSE IF requested THEN "NO_COMPLETE_SNAPSHOT" ELSE "UNREQUESTED",
      work |-> IF o # None THEN "RUNNING" ELSE IF a = None THEN "IDLE" ELSE a.state,
      stage |-> IF o # None THEN o.stage ELSE IF a = None THEN None ELSE a.stage,
      usable |-> facts[t].ready,
      error |-> IF known # None THEN known ELSE TargetLastError(facts[t])]

Level ==
  LET ready == {t \in Automatic : facts[t].ready}
      retry == \E t \in Targets : TargetStatus(t).work = "RETRY_WAIT"
  IN IF Automatic # {} /\ ready = Automatic THEN IF retry THEN "DEGRADED" ELSE "READY"
     ELSE IF ready # {} THEN "PARTIALLY_READY"
     ELSE IF retry THEN "DEGRADED" ELSE "INITIALIZING"
-----------------------------------------------------------------------------
Init ==
  /\ registered = {} /\ removing = {} /\ left = MaxWork
  /\ work = [t \in Targets |-> {}]
  /\ failing = [t \in Targets |-> {}]
  /\ registry = NewRegistry
  /\ facts \in [Targets -> {[catalog |-> "none", open |-> "none", ready |-> FALSE],
                            [catalog |-> "ok", open |-> "ok", ready |-> TRUE]}]

Next ==
  \/ Shutdown
  \/ \E t \in Targets :
       \/ Register(t)
       \/ \E w \in {Snapshot, Open} : StartPrimary(t, w)
       \/ StartConcurrent(t)
       \/ \E s \in Stages : Advance(t, s)
       \/ \E ok \in BOOLEAN : FinishConcurrent(t, ok)
       \/ \E w \in work[t] : \E o \in Outcomes(facts[t], w) : FinishPrimary(t, w, o)
       \/ ManualRetry(t)
       \/ RemoveTarget(t)

StatusSpec == Init /\ [][Next]_vars
-----------------------------------------------------------------------------
=============================================================================
