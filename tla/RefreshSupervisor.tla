-------------------------- MODULE RefreshSupervisor --------------------------
(***************************************************************************)
(* Which targets are refreshed: what callers ask for (leased demand,       *)
(* manual terms, manual retries), the official refresh loop that discovers *)
(* targets and every few seconds turns those requests into registrations,  *)
(* and the supervisor task that receives them as commands while workflows  *)
(* of the same targets are running.                                        *)
(***************************************************************************)
EXTENDS Integers, Sequences, FiniteSets, SequencesExt

CONSTANTS
    Targets,
    MaxConcurrency,     \* REFRESH_MAX_CONCURRENCY
    MaxRequests,        \* bound: demands, manual terms and retries asked for
    MaxWorld,           \* bound: lease, calendar and discovery changes
    MaxEntries          \* bound: coordinators made for a target

VARIABLES
    leased,         \* targets whose demand lease has not expired
    manualTerms,    \* targets of the manual terms asked for
    retries,        \* ManualTargetRetryState::pending, 0 where none
    nextGeneration,
    role,           \* the calendar: "auto", "visible" or "hidden"
    available,      \* product targets of the last good discovery
    complete,       \* targets with a complete snapshot in storage
    spawned,        \* the refresh runtime exists
    registered, modes, active, generations,     \* RefreshRuntime's own record
    commands,       \* the unbounded command channel
    idle,           \* target_coordinators
    running,        \* primary workflows in the JoinSet
    side,           \* concurrent_open
    pendingPrimary,
    pendingMode,    \* pending_reclassifications
    desired,        \* desired_product_demand
    removed,        \* removed_targets
    overlapped,     \* targets two of whose coordinators were at work at once
    made,           \* coordinators made for each target
    spent           \* [requests |-> ..., world |-> ...]

asked == <<leased, manualTerms, retries, nextGeneration>>
world == <<role, available, complete>>
client == <<spawned, registered, modes, active, generations>>
tasks == <<idle, running, side, pendingPrimary, pendingMode, desired, removed, overlapped, made>>
supervisorVars == <<asked, world, client, commands, tasks, spent>>

None == [id |-> 0]

-----------------------------------------------------------------------------
(* TargetRefreshDemand: the requests of the HTTP routes.                   *)

Ask == spent.requests < MaxRequests /\ spent' = [spent EXCEPT !.requests = @ + 1]

Request(t) ==
    /\ Ask
    /\ leased' = leased \union {t}
    /\ UNCHANGED <<manualTerms, retries, nextGeneration, world, client, commands, tasks>>

RequestManualTerm(t) ==
    /\ Ask
    /\ manualTerms' = manualTerms \union {t}
    /\ UNCHANGED <<leased, retries, nextGeneration, world, client, commands, tasks>>

RequestRetry(t) ==
    /\ Ask
    /\ IF retries[t] # 0 THEN UNCHANGED <<retries, nextGeneration>>
       ELSE /\ nextGeneration' = nextGeneration + 1
            /\ retries' = [retries EXCEPT ![t] = nextGeneration + 1]
    /\ UNCHANGED <<leased, manualTerms, world, client, commands, tasks>>

-----------------------------------------------------------------------------
(* What changes around the process.                                        *)

Turn == spent.world < MaxWorld /\ spent' = [spent EXCEPT !.world = @ + 1]

LeaseExpires(t) ==
    /\ Turn
    /\ t \in leased
    /\ leased' = leased \ {t}
    /\ UNCHANGED <<manualTerms, retries, nextGeneration, world, client, commands, tasks>>

TermRolls(t) ==
    /\ Turn
    /\ role[t] # "hidden"
    /\ role' = [role EXCEPT ![t] = IF @ = "auto" THEN "visible" ELSE "hidden"]
    /\ UNCHANGED <<asked, available, complete, client, commands, tasks>>

-----------------------------------------------------------------------------
(* The scan of the official loop.                                          *)

\* pending_manual_refresh_targets.
PendingManual(known) == (manualTerms \intersect known) \ complete

\* selected_refresh_targets.
Selected(known) ==
    {t \in known : \/ role[t] = "auto"
                   \/ role[t] = "visible" /\ t \in leased \union PendingManual(known)}

\* is_automatically_managed_target, negated.
Manual(t) == role[t] # "auto"

\* register_target_with_snapshot_state for every selected target: a known
\* target whose mode changed is reclassified, a new one is registered.
RegisterCommands(targets) ==
    {[op |-> "register", target |-> t, manual |-> Manual(t)] : t \in targets \ registered}
    \union
    {[op |-> "reclassify", target |-> t, manual |-> Manual(t)] :
        t \in {u \in targets \intersect registered : modes[u] # Manual(u)}}

\* retain_registered_targets.
RemoveCommands(targets) ==
    {[op |-> "remove", target |-> t] : t \in registered \ targets}

\* sync_product_demand.
DemandCommands(targets, kept) ==
    {[op |-> "release", target |-> t] : t \in kept \ leased}
    \union {[op |-> "activate", target |-> t] : t \in (leased \intersect targets) \ kept}

\* request_manual_target_retry: a generation is sent once.
RetryCommands(targets) ==
    {[op |-> "retry", target |-> t] :
        t \in {u \in targets : retries[u] > generations[u]}}

\* dispatch_manual_target_retries acknowledges what the runtime took; a
\* target that is not registered keeps its generation pending.
Acknowledged(targets) == [t \in Targets |-> IF t \in targets THEN 0 ELSE retries[t]]

\* One pass over the demand, the storage and the calendar: registrations,
\* removals, product demand, retries.
Synchronise(known, demandToo) ==
    LET targets == Selected(known)
        kept == active \intersect targets
    IN  /\ registered' = targets
        /\ modes' = [t \in Targets |-> t \in targets /\ Manual(t)]
        /\ active' = IF demandToo THEN leased \intersect targets ELSE kept
        /\ generations' = [t \in Targets |->
                IF t \in targets /\ retries[t] > generations[t] THEN retries[t]
                ELSE generations[t]]
        /\ retries' = Acknowledged(targets)
        /\ commands' = commands
                \o SetToSeq(RegisterCommands(targets))
                \o SetToSeq(RemoveCommands(targets))
                \o (IF demandToo THEN SetToSeq(DemandCommands(targets, kept)) ELSE <<>>)
                \o SetToSeq(RetryCommands(targets))

Scan ==
    /\ spawned
    /\ Synchronise(available, TRUE)
    /\ UNCHANGED <<leased, manualTerms, nextGeneration, world, spawned, tasks, spent>>

Permits == MaxConcurrency - Cardinality(running) - Cardinality({t \in Targets : side[t] = "inFlight"})

\* A discovery needs a network permit, so it competes with the workflows.
\* With the runtime there, the product demand is left to the next scan; the
\* first selection that is not empty makes the runtime.
Discover(known) ==
    /\ Turn
    /\ Permits > 0
    /\ available' = known
    /\ IF spawned \/ Selected(known) # {}
       THEN spawned' = TRUE /\ Synchronise(known, ~spawned)
       ELSE UNCHANGED <<client, retries, commands>>
    /\ UNCHANGED <<leased, manualTerms, nextGeneration, role, complete, tasks>>

-----------------------------------------------------------------------------
(* The supervisor: commands.                                               *)

Command(op) == commands # <<>> /\ Head(commands).op = op /\ commands' = Tail(commands)

Named == Head(commands).target

Register ==
    /\ Command("register")
    /\ IF idle[Named] # None THEN UNCHANGED <<idle, made>>
       ELSE /\ made[Named] < MaxEntries
            /\ made' = [made EXCEPT ![Named] = @ + 1]
            /\ idle' = [idle EXCEPT ![Named] =
                    [id |-> made[Named] + 1, manual |-> Head(commands).manual,
                     demand |-> Named \in desired]]
    /\ UNCHANGED <<asked, world, client, running, side, pendingPrimary, pendingMode,
                   desired, removed, overlapped, spent>>

Reclassify ==
    /\ Command("reclassify")
    /\ IF idle[Named] # None
       THEN /\ idle' = [idle EXCEPT ![Named].manual = Head(commands).manual]
            /\ UNCHANGED pendingMode
       ELSE /\ pendingMode' = [pendingMode EXCEPT ![Named] = {Head(commands).manual}]
            /\ UNCHANGED idle
    /\ UNCHANGED <<asked, world, client, running, side, pendingPrimary, desired,
                   removed, made, overlapped, spent>>

\* ActivateOpen and ReleaseProductDemand.
ChangeDemand ==
    /\ \E op \in {"activate", "release"} :
        /\ Command(op)
        /\ desired' = IF op = "activate" THEN desired \union {Named} ELSE desired \ {Named}
        /\ idle' = [idle EXCEPT ![Named] =
                IF @ = None THEN None ELSE [@ EXCEPT !.demand = (op = "activate")]]
    /\ UNCHANGED <<asked, world, client, running, side, pendingPrimary, pendingMode,
                   removed, made, overlapped, spent>>

\* A retry of an idle target makes its Catalog job due, of a running one it
\* is consumed: neither changes what the supervisor holds.
Retry ==
    /\ Command("retry")
    /\ UNCHANGED <<asked, world, client, tasks, spent>>

RemoveTarget ==
    /\ Command("remove")
    /\ desired' = desired \ {Named}
    /\ pendingMode' = [pendingMode EXCEPT ![Named] = {}]
    /\ idle' = [idle EXCEPT ![Named] = None]
    /\ removed' = IF idle[Named] = None THEN removed \union {Named} ELSE removed
    /\ UNCHANGED <<asked, world, client, running, side, pendingPrimary, made, overlapped, spent>>

-----------------------------------------------------------------------------
(* The supervisor: workflows.                                              *)

Working(t) == pendingPrimary[t] # None \/ \E w \in running : w.target = t

\* A due idle target is taken out of the map for as long as its workflow
\* runs; a watched one gets an Open slot beside its Catalog workflow.
Dispatch(t, kind, watched) ==
    /\ idle[t] # None
    /\ Permits > 0
    /\ running' = running \union {[target |-> t, kind |-> kind, entry |-> idle[t]]}
    /\ idle' = [idle EXCEPT ![t] = None]
    /\ side' = IF kind = "catalog" /\ watched THEN [side EXCEPT ![t] = "ready"] ELSE side
    /\ overlapped' = IF Working(t) THEN overlapped \union {t} ELSE overlapped
    /\ UNCHANGED <<asked, world, client, commands, pendingPrimary, pendingMode, desired,
                   removed, made, spent>>

DispatchSide(t) ==
    /\ side[t] = "ready"
    /\ Permits > 0
    /\ \E w \in running : w.target = t
    /\ side' = [side EXCEPT ![t] = "inFlight"]
    /\ UNCHANGED <<asked, world, client, commands, idle, running, pendingPrimary,
                   pendingMode, desired, removed, made, overlapped, spent>>

\* finish_primary_workflow: a target removed meanwhile is dropped, else what
\* was asked of it meanwhile is applied before it is idle again.
MutSettled(t, entry) == [entry EXCEPT !.demand = t \in desired]
Settled(t, entry) ==
    [entry EXCEPT !.demand = t \in desired,
                  !.manual = IF pendingMode[t] = {} THEN @ ELSE TRUE \in pendingMode[t]]

FinishPrimary(t, entry) ==
    /\ removed' = removed \ {t}
    /\ pendingMode' = [pendingMode EXCEPT ![t] = {}]
    /\ idle' = IF t \in removed THEN idle ELSE [idle EXCEPT ![t] = Settled(t, entry)]

PrimaryCompletes(w, publishes) ==
    /\ w \in running
    /\ running' = running \ {w}
    /\ complete' = IF publishes /\ w.kind = "catalog" THEN complete \union {w.target}
                   ELSE complete
    /\ IF w.kind = "catalog" /\ side[w.target] = "inFlight"
       THEN /\ pendingPrimary' = [pendingPrimary EXCEPT ![w.target] = w.entry]
            /\ UNCHANGED <<side, idle, removed, pendingMode>>
       ELSE /\ side' = IF w.kind = "catalog" THEN [side EXCEPT ![w.target] = "none"] ELSE side
            /\ FinishPrimary(w.target, w.entry)
            /\ UNCHANGED pendingPrimary
    /\ UNCHANGED <<asked, role, available, client, commands, desired, made, overlapped, spent>>

SideCompletes(t) ==
    /\ side[t] = "inFlight"
    /\ IF pendingPrimary[t] = None
       THEN /\ side' = [side EXCEPT ![t] = "ready"]
            /\ UNCHANGED <<pendingPrimary, idle, removed, pendingMode>>
       ELSE /\ side' = [side EXCEPT ![t] = "none"]
            /\ pendingPrimary' = [pendingPrimary EXCEPT ![t] = None]
            /\ FinishPrimary(t, pendingPrimary[t])
    /\ UNCHANGED <<asked, world, client, commands, running, desired, made, overlapped, spent>>

-----------------------------------------------------------------------------
\* restore_manual_term_demand: the manual terms that were ever attempted.
SupervisorInit ==
    /\ leased = {}
    /\ retries = [t \in Targets |-> 0] /\ nextGeneration = 0
    /\ role \in [Targets -> {"auto", "visible"}]
    /\ available \in SUBSET Targets
    /\ manualTerms \in SUBSET {t \in available : role[t] = "visible"}
    /\ complete \in SUBSET available
    /\ spawned = FALSE
    /\ registered = {} /\ active = {}
    /\ modes = [t \in Targets |-> FALSE]
    /\ generations = [t \in Targets |-> 0]
    /\ commands = <<>>
    /\ idle = [t \in Targets |-> None]
    /\ running = {}
    /\ side = [t \in Targets |-> "none"]
    /\ pendingPrimary = [t \in Targets |-> None]
    /\ pendingMode = [t \in Targets |-> {}]
    /\ desired = {} /\ removed = {}
    /\ overlapped = {}
    /\ made = [t \in Targets |-> 0]
    /\ spent = [requests |-> 0, world |-> 0]

Supervise ==
    \/ Register \/ Reclassify \/ ChangeDemand \/ Retry \/ RemoveTarget
    \/ \E t \in Targets :
        \/ \E kind \in {"catalog", "open"}, watched \in BOOLEAN : Dispatch(t, kind, watched)
        \/ DispatchSide(t)
        \/ SideCompletes(t)
    \/ \E w \in running, publishes \in BOOLEAN : PrimaryCompletes(w, publishes)

SupervisorNext ==
    \/ \E t \in Targets : Request(t) \/ RequestManualTerm(t) \/ RequestRetry(t)
                          \/ LeaseExpires(t) \/ TermRolls(t)
    \/ \E known \in SUBSET Targets : Discover(known)
    \/ Scan
    \/ Supervise

SupervisorSpec == SupervisorInit /\ [][SupervisorNext]_supervisorVars

-----------------------------------------------------------------------------
(* Whenever the command channel is drained and no workflow of a target is  *)
(* left, the supervisor holds a coordinator for it exactly when it is      *)
(* registered, with the mode and the product demand that were asked for    *)
(* last, whatever was asked while its workflow was running; as long as no  *)
(* two coordinators of the target were at work at once.                    *)
SupervisorConverges ==
    \A t \in Targets \ overlapped : commands = <<>> /\ ~Working(t) =>
        /\ (idle[t] # None) = (t \in registered)
        /\ idle[t] # None => /\ idle[t].manual = modes[t]
                             /\ idle[t].demand = (t \in active)

(* The supervisor on a manual retry: "A registered target absent from the  *)
(* idle map is already running; consuming this generation is the required  *)
(* active-target dedupe."                                                  *)
AbsentIsRunning ==
    \A t \in registered : commands = <<>> /\ idle[t] = None => Working(t)
=============================================================================
