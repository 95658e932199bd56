--------------------------- MODULE RefreshSchedule ---------------------------
(***************************************************************************)
(* When one target is refreshed: the earliest-deadline scheduler that      *)
(* holds a target's Catalog job and its Open job, and the operations of    *)
(* the refresh coordinator on it (register, activate, release, manual      *)
(* mode, manual retry, dispatch, completion, adoption of a side pull).     *)
(*                                                                         *)
(* Instants are kept as the time that is left: `due` is next_due - now and *)
(* `since` is now - last_start.  The lane of a job labels its dispatches   *)
(* and is left out.  The fatal diagnostic circuit is left out too: no      *)
(* retry directive of the product asks for it.                             *)
(***************************************************************************)
EXTENDS Integers

CONSTANTS
    Watched,        \* Open interval of a watched target, in ticks
    General,        \* Open interval of an unwatched target
    Catalog,        \* Catalog interval of an applied target
    Maintenance,    \* LOW_FREQUENCY_MAINTENANCE_INTERVAL
    Delays,         \* the delays a retry directive may ask for
    MaxLate,        \* bound: ticks a due job is left waiting
    MaxChanges      \* bound: demand, mode, watch and retry requests

VARIABLES
    jobs,           \* [Kinds -> job]
    circuit,        \* ticks the origin circuit stays open; 0 is closed
    flight,         \* the dispatch being executed, or Idle
    manual,         \* manual_one_shot_targets holds the target
    applied,        \* activated_targets holds the target
    watch,          \* the watch registry has an active watch on it
    owed,           \* requested work a workflow has not completed yet
    changes

scheduleVars == <<jobs, circuit, flight, manual, applied, watch, owed, changes>>

Kinds == {"catalog", "open"}
Idle == [kind |-> "none"]
Never == -1

Smaller(a, b) == IF a < b THEN a ELSE b
Larger(a, b) == IF a > b THEN a ELSE b

\* OpenRefreshIntervals::effective.
Effective(watched) == IF watched THEN Watched ELSE General

NewJob(interval, due, watched, recurring, generation) ==
    [active |-> TRUE, interval |-> interval, due |-> due, watched |-> watched,
     recurring |-> recurring, oneShot |-> ~recurring, generation |-> generation,
     since |-> Never, failing |-> FALSE]

\* register_catalog on a job that exists: upsert keeps the due time.
Upsert(job, interval) ==
    [job EXCEPT !.active = TRUE, !.interval = interval, !.watched = FALSE,
                !.recurring = TRUE]

\* last_start + interval, from now on when the job never started.
Anchored(job, interval) ==
    IF job.since = Never THEN interval ELSE interval - job.since

ActivateCatalog(job, interval) ==
    [job EXCEPT !.active = TRUE, !.recurring = TRUE, !.interval = interval,
                !.due = Smaller(@, interval)]

MaintainCatalog(job) ==
    [job EXCEPT !.interval = Maintenance, !.recurring = TRUE, !.active = TRUE,
                !.due = Anchored(job, Maintenance)]

ParkCatalog(job) ==
    [job EXCEPT !.recurring = FALSE, !.active = job.generation \/ job.oneShot]

ActivateOpen(job) ==
    [job EXCEPT !.active = TRUE, !.recurring = TRUE,
                !.interval = Effective(job.watched),
                !.due = IF job.active THEN @ ELSE Larger(@, 0)]

DemoteOpen(job, watched) ==
    LET told == [job EXCEPT !.watched = watched, !.interval = Effective(watched)]
    IN  IF watched
        THEN [told EXCEPT !.active = TRUE, !.recurring = TRUE, !.due = Larger(@, 0)]
        ELSE [told EXCEPT !.recurring = FALSE, !.active = job.oneShot]

SetOpenWatch(job, watched) ==
    LET told == [job EXCEPT !.watched = watched, !.interval = Effective(watched)]
        pulled == Smaller(job.due, Anchored(job, told.interval))
    IN  IF watched /\ ~job.watched
        THEN [told EXCEPT !.active = TRUE,
                          !.due = IF job.active THEN pulled ELSE Larger(pulled, 0)]
        ELSE IF ~watched /\ job.watched
        THEN [told EXCEPT !.due = Anchored(job, told.interval),
                          !.active = job.recurring \/ job.oneShot]
        ELSE told

RequestOpenDue(job) ==
    [job EXCEPT !.active = TRUE, !.oneShot = @ \/ ~job.recurring,
                !.due = IF job.active THEN Smaller(@, 0) ELSE 0]

RetryNow(job) ==
    [job EXCEPT !.active = TRUE, !.oneShot = @ \/ ~job.recurring, !.due = 0]

CompleteBootstrap(job) ==
    [job EXCEPT !.failing = FALSE, !.generation = FALSE, !.oneShot = FALSE,
                !.due = job.interval, !.active = job.recurring \/ job.watched]

AdoptExternal(job, due, failing) ==
    [job EXCEPT !.failing = failing, !.since = 0, !.due = due, !.oneShot = FALSE,
                !.generation = FALSE, !.active = job.recurring \/ job.watched]

\* A smaller number is dispatched first.
Priority(kind, job) ==
    CASE job.watched /\ kind = "open" -> 0
      [] job.watched /\ kind = "catalog" /\ job.generation -> 1
      [] job.generation -> 2
      [] job.failing -> 3
      [] OTHER -> 4

Before(a, b) ==
    LET pa == Priority(a, jobs[a])
        pb == Priority(b, jobs[b])
    IN  \/ pa < pb
        \/ pa = pb /\ jobs[a].due < jobs[b].due
        \/ pa = pb /\ jobs[a].due = jobs[b].due /\ a = "catalog"

FirstFutureDue(due, interval) ==
    IF due > 0 THEN due ELSE interval - ((-due) % interval)

-----------------------------------------------------------------------------
\* register_target_with_snapshot_state, for a fresh coordinator.
RegisteredCatalog(ready, asManual, watched) ==
    IF ready THEN NewJob(Maintenance, Maintenance, FALSE, TRUE, FALSE)
    ELSE NewJob(Maintenance, 0, watched, ~asManual, TRUE)

RegisteredOpen(ready, watched) ==
    LET fresh == NewJob(Effective(watched), Maintenance, watched, FALSE, TRUE)
    IN  IF ready THEN CompleteBootstrap(fresh) ELSE fresh

ScheduleInit ==
    \E ready, asManual, watched \in BOOLEAN :
        /\ jobs = [catalog |-> RegisteredCatalog(ready, asManual, watched),
                   open |-> RegisteredOpen(ready, watched)]
        /\ manual = (asManual /\ ~ready)
        /\ owed = ~ready
        /\ watch = watched
        /\ applied = FALSE
        /\ circuit = 0
        /\ flight = Idle
        /\ changes = 0

\* While run_next is being awaited the supervisor cannot reach the
\* coordinator: requests are held back until the workflow has returned.
Change == flight = Idle /\ changes < MaxChanges /\ changes' = changes + 1

ActivateTarget ==
    /\ Change
    /\ ~applied
    /\ applied' = TRUE
    /\ jobs' = [catalog |-> ActivateCatalog(jobs.catalog, Catalog),
                open |-> ActivateOpen(jobs.open)]
    /\ UNCHANGED <<circuit, flight, manual, watch, owed>>

ReleaseTarget ==
    /\ Change
    /\ applied
    /\ applied' = FALSE
    /\ jobs' = [catalog |-> IF manual THEN ParkCatalog(jobs.catalog)
                            ELSE MaintainCatalog(jobs.catalog),
                open |-> DemoteOpen(jobs.open, watch)]
    /\ UNCHANGED <<circuit, flight, manual, watch, owed>>

SetManual ==
    /\ Change
    /\ manual' = ~manual
    /\ jobs' = IF applied THEN jobs
               ELSE [catalog |-> IF manual' THEN ParkCatalog(jobs.catalog)
                                 ELSE ActivateCatalog(jobs.catalog, Maintenance),
                     open |-> DemoteOpen(jobs.open, watch)]
    /\ UNCHANGED <<circuit, flight, applied, watch, owed>>

ManualRetry ==
    /\ Change
    /\ circuit = 0
    /\ jobs' = [jobs EXCEPT !.catalog = RetryNow(@)]
    /\ owed' = TRUE
    /\ UNCHANGED <<circuit, flight, manual, applied, watch>>

\* The registry is changed by watch connections, at any time.
ChangeWatch ==
    /\ changes < MaxChanges
    /\ changes' = changes + 1
    /\ watch' = ~watch
    /\ UNCHANGED <<jobs, circuit, flight, manual, applied, owed>>

-----------------------------------------------------------------------------
\* refresh_registered_policy: cadence of the Catalog job, then the watches.
MutRefreshed(s) ==
    [catalog |-> [(IF applied THEN Upsert(s.catalog, Catalog)
                   ELSE IF ~manual THEN Upsert(s.catalog, Maintenance)
                   ELSE s.catalog) EXCEPT !.watched = watch],
     open |-> s.open]
Refreshed(s) ==
    [catalog |-> [(IF applied THEN Upsert(s.catalog, Catalog)
                   ELSE IF ~manual THEN Upsert(s.catalog, Maintenance)
                   ELSE s.catalog) EXCEPT !.watched = watch],
     open |-> SetOpenWatch(s.open, watch)]

Ready(kind) == jobs[kind].active /\ jobs[kind].due <= 0

\* next_dispatch_hint with nothing to dispatch only refreshes the policy.
Poll ==
    /\ flight = Idle
    /\ Refreshed(jobs) # jobs
    /\ jobs' = Refreshed(jobs)
    /\ UNCHANGED <<circuit, flight, manual, applied, watch, owed, changes>>

\* A dispatch follows a poll that changed nothing.  The side slot is what
\* concurrent_open_schedule hands to the supervisor.
StartNext ==
    /\ flight = Idle
    /\ Refreshed(jobs) = jobs
    /\ circuit = 0
    /\ \E kind \in Kinds :
        /\ Ready(kind)
        /\ \A other \in Kinds \ {kind} : Ready(other) => Before(kind, other)
        /\ flight' = [kind |-> kind, due |-> jobs[kind].due,
                      side |-> kind = "catalog" /\ jobs.open.watched /\ jobs.open.active]
        /\ jobs' = [jobs EXCEPT ![kind].since = 0]
    /\ UNCHANGED <<circuit, manual, applied, watch, owed, changes>>

\* OriginEdfScheduler::finish on the job that was in flight.
Finished(job, kind, due) ==
    [job EXCEPT !.failing = FALSE, !.due = FirstFutureDue(due, job.interval),
                !.oneShot = FALSE, !.generation = FALSE,
                !.active = IF job.oneShot
                           THEN job.recurring \/ (kind = "open" /\ job.watched)
                           ELSE job.active]

\* finish_primary_workflow: a side schedule survives unless the candidate
\* was published, whose own Open pull then counts.
Settle(after, published) ==
    IF flight.side /\ ~published
    THEN \E due \in 0 .. Watched, failing \in BOOLEAN :
            jobs' = [after EXCEPT !.open = AdoptExternal(@, due, failing)]
    ELSE jobs' = after

FinishSuccess ==
    /\ flight # Idle
    /\ flight' = Idle
    /\ \E published \in IF flight.kind = "catalog" THEN BOOLEAN ELSE {FALSE} :
        LET booted == IF published THEN [jobs EXCEPT !.open = CompleteBootstrap(@)]
                      ELSE jobs
        IN  Settle([booted EXCEPT ![flight.kind] = Finished(@, flight.kind, flight.due)],
                   published)
    /\ owed' = (owed /\ flight.kind = "open")
    /\ UNCHANGED <<circuit, manual, applied, watch, changes>>

\* CompletionSchedule::CatalogRace, and the recheck run_next asks for.
FinishRace ==
    /\ flight # Idle
    /\ flight.kind = "open"
    /\ flight' = Idle
    /\ LET raced == [jobs.open EXCEPT !.failing = FALSE,
                         !.due = FirstFutureDue(flight.due, jobs.open.interval)]
       IN  jobs' = [jobs EXCEPT !.open =
                        IF ~raced.active \/ raced.due > 0 THEN RequestOpenDue(raced)
                        ELSE raced]
    /\ UNCHANGED <<circuit, manual, applied, watch, owed, changes>>

\* A retry directive, and the fallback of run_next's error path; an origin
\* directive opens the circuit for as long as the job waits.
FinishRetry ==
    /\ flight # Idle
    /\ flight' = Idle
    /\ \E delay \in Delays, origin \in BOOLEAN :
        /\ Settle([jobs EXCEPT ![flight.kind].failing = TRUE,
                               ![flight.kind].due = delay], FALSE)
        /\ circuit' = IF origin THEN delay ELSE circuit
    /\ UNCHANGED <<manual, applied, watch, owed, changes>>

\* The supervisor polls every second, far below every interval: time does
\* not pass over a dispatch it could make.
Tick ==
    /\ flight = Idle => Refreshed(jobs) = jobs
    /\ flight = Idle /\ circuit = 0 => \A kind \in Kinds : ~Ready(kind)
    /\ \A kind \in Kinds : jobs[kind].due > -MaxLate
    /\ jobs' = [kind \in Kinds |->
                 [jobs[kind] EXCEPT !.due = @ - 1,
                    !.since = IF @ = Never THEN @ ELSE Smaller(@ + 1, Maintenance)]]
    /\ circuit' = Larger(circuit - 1, 0)
    /\ UNCHANGED <<flight, manual, applied, watch, owed, changes>>

Finish == FinishSuccess \/ FinishRace \/ FinishRetry

ScheduleNext ==
    \/ ActivateTarget \/ ReleaseTarget \/ SetManual \/ ManualRetry \/ ChangeWatch
    \/ Poll \/ StartNext \/ FinishSuccess \/ FinishRace \/ FinishRetry \/ Tick

ScheduleSpec == ScheduleInit /\ [][ScheduleNext]_scheduleVars

-----------------------------------------------------------------------------
(* Work is never forgotten, whatever the order of demand, mode, watch and *)
(* completion: a target outside the manual mode keeps an active Catalog    *)
(* job (refresh_registered_policy fails otherwise, and the target is then  *)
(* never polled again), a pending first load or one-shot keeps its job     *)
(* active, and once the policy has been refreshed a watched or applied     *)
(* target has an active Open job.                                          *)
NothingForgotten ==
    /\ ~manual => jobs.catalog.active
    /\ applied => jobs.catalog.active /\ jobs.open.active
    /\ jobs.catalog.generation \/ jobs.catalog.oneShot => jobs.catalog.active
    /\ watch /\ Refreshed(jobs) = jobs => jobs.open.active

(* set_manual_one_shot_mode: "A target that rolls out of current/next is   *)
(* parked after its requested work unless product demand or an active      *)
(* watch still keeps it live."                                             *)
ParkedAfterWork ==
    manual /\ ~applied /\ ~watch /\ flight = Idle
        => (jobs.catalog.active <=> owed)

-----------------------------------------------------------------------------
(* What every step keeps true, for any value of the constants (module      *)
(* RefreshScheduleProofs).  A Catalog job that owes work is active, and it *)
(* recurs while the target is applied or outside the manual mode: a        *)
(* completion would park it otherwise.  An Open job that was told of a     *)
(* watch is active, and that of an applied target recurs.                  *)
Flags == {"active", "watched", "recurring", "oneShot", "generation"}
IsJob(job) ==
    /\ DOMAIN job = Flags \cup {"interval", "due", "since", "failing"}
    /\ \A flag \in Flags : job[flag] \in BOOLEAN

CatalogKept(job) ==
    /\ IsJob(job)
    /\ job.generation \/ job.oneShot => job.active
    /\ ~manual \/ applied => job.active /\ job.recurring

OpenKept(job) ==
    /\ IsJob(job)
    /\ job.watched => job.active
    /\ applied => job.active /\ job.recurring

JobsKept(s) == DOMAIN s = Kinds /\ CatalogKept(s.catalog) /\ OpenKept(s.open)

ScheduleInv ==
    /\ {manual, applied, watch} \subseteq BOOLEAN
    /\ flight # Idle => flight.kind \in Kinds
    /\ JobsKept(jobs)
=============================================================================
