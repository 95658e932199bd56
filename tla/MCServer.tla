------------------------------ MODULE MCServer ------------------------------
(***************************************************************************)
(* The safety of the server's components, each in an instance of its own;  *)
(* they take turns (module Turns).  PublicAdmission and RefreshSchedule    *)
(* have their own variables, and rest in an initial state during the turn  *)
(* of another.                                                             *)
(***************************************************************************)
EXTENDS PublicAdmission, RefreshSchedule, Turns, TLC

CONSTANTS Absent,    \* the absent value of ServiceStatus
          Pair       \* two interchangeable clients, pages or threads

PairSymmetry == Permutations(Pair)

Data == INSTANCE Fixtures

Store == INSTANCE CatalogStore WITH
    Targets <- {"t"}, Contents <- {"c"}, Empty <- "empty", Sources <- {"s1", "s2"}, Selectors <- {"s1"},
    Rules <- {2, 3}, MaxAttempts <- 2, MaxDiscoveries <- 2, MaxStarts <- 2,
    target <- v1, attempts <- v2, staged <- v3, serving <- v4, stamp <- v5, dictionary <- v6, discoveries <- v7,
    flight <- v8, process <- v9

Personal == INSTANCE PersonalState WITH
    Clients <- Pair, Names <- {"n"}, Filters <- {"f"}, Recent <- {"r"}, Past <- {"o"},
    MaxSelected <- 1, MaxWrites <- 3,
    db <- v1, page <- v2, pending <- v3, call <- v4, serving <- v5, selected <- v6, writes <- v7

Serving == INSTANCE PreparedServing WITH
    Targets <- {"t"}, Publishers <- Pair, Readers <- {"r"}, MaxEpochs <- 2, MaxFaults <- 1,
    db <- v1, current <- v2, tickets <- v3, nextEpoch <- v4, inbox <- v5, pending <- v6, executing <- v7,
    build <- v8, publisher <- v9, reader <- v10, accepting <- v11, cancelled <- v12, closed <- v13,
    stopping <- v14, gone <- v15, faults <- v16, forgiven <- v17

Presence == INSTANCE LocalPresence WITH
    Tabs <- Pair, Scripts <- {<<"hello">>, <<"bad">>}, MaxSockets <- 2,
    Countdown <- 2, HelloWait <- 1, MaxWait <- 1, LateHello <- FALSE,
    page <- v1, sock <- v2, tick <- v3, reg <- v4, exits <- v5, requested <- v6, stage <- v7, away <- v8

Supervisor == INSTANCE RefreshSupervisor WITH
    Targets <- {"t"}, MaxConcurrency <- 2, MaxRequests <- 2, MaxWorld <- 3, MaxEntries <- 2,
    leased <- v1, manualTerms <- v2, retries <- v3, nextGeneration <- v4, role <- v5, available <- v6,
    complete <- v7, spawned <- v8, registered <- v9, modes <- v10, active <- v11, generations <- v12,
    commands <- v13, idle <- v14, running <- v15, side <- v16, pendingPrimary <- v17, pendingMode <- v18,
    desired <- v19, removed <- v20, overlapped <- v21, made <- v22, spent <- v23

Service == INSTANCE ServiceStatus WITH
    None <- Absent, Targets <- {"t", "u"}, Automatic <- {"t"}, MaxWork <- 3,
    registered <- v1, work <- v2, failing <- v3, removing <- v4, registry <- v5, facts <- v6, left <- v7

Status == INSTANCE OpenStatus WITH
    Retain <- 1, PruneLimit <- 1, Replies <- Data!PullReplies, Catalogs <- Data!PullCatalogs,
    Watched <- {"s1"}, Interval <- 1, Grace <- 0, Midnight <- 2,
    MaxAttempts <- 3, MaxRefreshes <- 1, MaxRestarts <- 1, MaxTime <- 3,
    db <- v1, cols <- v2, cand <- v3, flight <- v4, now <- v5, run <- v6, committed <- v7, diverged <- v8, truth <- v9

owned == <<vars, scheduleVars>>

TurnInit ==
    /\ Init
    /\ ScheduleInit
    /\ \/ part = "admission" /\ Off0
       \/ part = "catalog" /\ Store!CatalogInit /\ Off9
       \/ part = "personal" /\ Personal!PersonalInit /\ Off7
       \/ part = "serving" /\ Serving!PreparedInit /\ Off17
       \/ part = "presence" /\ Presence!Init /\ Off8
       \/ part = "schedule" /\ Off0
       \/ part = "supervisor" /\ Supervisor!SupervisorInit
       \/ part = "service" /\ Service!Init /\ Off7
       \/ part = "status" /\ Status!StatusInit /\ Off9
    /\ part = "schedule" \/ (~owed /\ ~watch)

AdmissionTurn == part = "admission" /\ Next /\ UNCHANGED <<scheduleVars, turns>>
CatalogTurn == part = "catalog" /\ Store!CatalogNext /\ UNCHANGED <<owned, part, after9>>
PersonalTurn == part = "personal" /\ Personal!PersonalNext /\ UNCHANGED <<owned, part, after7>>
ServingTurn == part = "serving" /\ Serving!PreparedNext /\ UNCHANGED <<owned, part, after17>>
PresenceTurn == part = "presence" /\ Presence!Next /\ UNCHANGED <<owned, part, after8>>
ScheduleTurn == part = "schedule" /\ ScheduleNext /\ UNCHANGED <<vars, turns>>
SupervisorTurn == part = "supervisor" /\ Supervisor!SupervisorNext /\ UNCHANGED <<owned, part>>
ServiceTurn == part = "service" /\ Service!Next /\ UNCHANGED <<owned, part, after7>>
StatusTurn == part = "status" /\ Status!StatusNext /\ UNCHANGED <<owned, part, after9>>

TurnNext ==
    \/ AdmissionTurn \/ CatalogTurn \/ PersonalTurn \/ ServingTurn \/ PresenceTurn
    \/ ScheduleTurn \/ SupervisorTurn \/ ServiceTurn \/ StatusTurn

TurnSpec == TurnInit /\ [][TurnNext]_<<owned, turns>>

-----------------------------------------------------------------------------
(* CatalogStore: what is stored can always be read back, what is delivered *)
(* is derived by the running binary's rule, and every staged row has an    *)
(* attempt that will clear it, through crashes, restarts with another      *)
(* binary and refreshes that end in any order (storage.rs                  *)
(* load_target_state, rederive.rs, begin_refresh).                         *)
StoreConsistent ==
    part = "catalog" => Store!ReadersAccept /\ Store!DeliveryCurrent /\ Store!StagingOwned


(* PreparedServing: whenever a request can be bound, the generation it     *)
(* gets is the newest committed one, through every overlap of transactions *)
(* and builds (prepared_serving.rs snapshot_within, admission_blocked).    *)
AdmittedCurrent == part = "serving" => Serving!AdmittedCurrent

(* LocalPresence: the countdown runs exactly while no page is counted, a   *)
(* counted page is a live connection and a live page that said so is       *)
(* counted, only its own connection takes a page out of the count, and the *)
(* exit is decided only after the full countdown (presence.rs).            *)
PagesCounted ==
    [][part = "presence" =>
         /\ (Presence!PhaseMatchesPages /\ Presence!BoundIsLive /\ Presence!LivePageCounted)'
         /\ Presence!UncountedByOwner /\ Presence!CountedDown]_<<owned, turns>>

(* RefreshSupervisor: once the commands are drained and no workflow is     *)
(* left, the supervisor holds exactly the coordinators that were asked     *)
(* for, in the mode asked for last, unless two of a target's coordinators  *)
(* were at work at once (refresh_runtime.rs).                              *)
SupervisorConverges == part = "supervisor" => Supervisor!SupervisorConverges


(* OpenStatus: the status of a published target always projects and its    *)
(* counters add up; it says Fresh only of what the last accepted answer    *)
(* says; and what a pull commits is what it planned (bcsp-open             *)
(* projection.rs, freshness.rs, service.rs, storage open.rs).              *)
StatusFaithful ==
    part = "status" => Status!StatusReadable /\ Status!FreshIsCurrent /\ Status!CommitAgrees
=============================================================================
