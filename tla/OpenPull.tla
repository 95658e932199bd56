------------------------------ MODULE OpenPull ------------------------------
(***************************************************************************)
(* How one (term, campus) target is kept fresh: the refresh supervisor     *)
(* (refresh_runtime.rs), the coordinator's catalog and open workflows      *)
(* (refresh_coordinator.rs) and the shared open pull (bcsp-open            *)
(* service.rs), over OpenStorage and SnapshotGate.                         *)
(*                                                                         *)
(* The supervisor lends the target's coordinator to one primary workflow   *)
(* at a time.  While a catalog workflow downloads, a side task may pull    *)
(* open sections for the watches; both use the same pull, and the catalog  *)
(* workflow ends with a candidate pull that publishes catalog and open     *)
(* sections together.  A control is the TargetWorkflowControl the two      *)
(* share.  Removing and registering a target again makes a new control.    *)
(*                                                                         *)
(* Schedules are left out: a job that is registered may be due whenever    *)
(* the supervisor looks.  The network answers with any of Responses and    *)
(* Catalogs, or fails.                                                     *)
(***************************************************************************)
EXTENDS SnapshotGate, OpenStorage

CONSTANTS
    Catalogs,      \* catalogs the source may serve
    Responses,     \* open-section sets the source may serve
    Watchable,     \* sections some page may want to watch
    RestartLimit,  \* summaries the restart rebuild reads
    MaxControls,   \* bound: controls per process life
    MaxAttempts,   \* bound: open-pull attempts
    MaxRefreshes,  \* bound: catalog refreshes
    MaxTime,       \* bound: the wall clock
    MaxRollbacks,  \* bound: wall-clock rollbacks
    MaxCrashes     \* bound: process restarts

ASSUME OpenPullAssumption ==
    /\ \A k \in Catalogs : k.sections \subseteq Index /\ k # NoCatalog
    /\ Responses \subseteq SUBSET Index /\ Watchable \subseteq Index
    /\ RestartLimit \in Nat /\ MaxControls \in Nat \ {0}
    /\ MaxAttempts \in Nat /\ MaxRefreshes \in Nat /\ MaxTime \in Nat
    /\ MaxRollbacks \in Nat /\ MaxCrashes \in Nat

VARIABLES
    db,          \* the operational database
    now,         \* wall clock
    rollbacks,   \* wall-clock rollbacks so far
    crashes,     \* process restarts so far
    watched,     \* sections with an active watch
    registered,  \* registered_targets holds the target
    removed,     \* removed_targets holds the target
    pool,        \* target_coordinators: the idle control, 0 for none
    controls,    \* controls created in this process life
    conc,        \* concurrent_open: the control of the entry (0: none), in_flight
    job,         \* job[c]: the primary workflow of control c
    side,        \* side[c]: the concurrent serving open of control c
    phase,       \* phase[c]: the workflow phase of control c
    openGate,    \* openGate[c]: the holder of the control's open_gate
    gates,       \* gates[c]: the control's TargetGateSet
    cand,        \* cand[c]: the catalog its catalog workflow is working on
    pull,        \* pull[w]: the open pull of worker w
    handed       \* attempts of this process life whose observations were published

supervisor == <<registered, removed, pool, controls, conc>>
workflows == <<job, side, phase, openGate, cand>>
env == <<now, rollbacks, crashes, watched>>
vars == <<db, env, supervisor, workflows, gates, pull, handed>>

Controls == 1..MaxControls
Workers == Controls \X {"primary", "side"}

NoCand == [catalog |-> NoCatalog, refresh |-> 0, base |-> 0, version |-> 0]

(* A pull.  seen is the gate runtime its decision was computed from; plan  *)
(* is the classification of the read-side reconciliation.                  *)
NoPull ==
    [stage |-> "none", refresh |-> 0, base |-> 0, version |-> 0, sections |-> {}, seq |-> 0,
     at |-> 0, response |-> {}, hold |-> FALSE, identity |-> {}, watched |-> {},
     plan |-> "none", kind |-> "none", seen |-> Blank("Absent"), next |-> Blank("Absent")]

NoConc == [ctl |-> 0, inFlight |-> FALSE]

Init ==
    /\ db = EmptyDb
    /\ now = 0 /\ rollbacks = 0 /\ crashes = 0 /\ watched = {}
    /\ registered = TRUE /\ removed = FALSE /\ pool = 1 /\ controls = 1
    /\ conc = NoConc
    /\ job = [c \in Controls |-> IF c = 1 THEN "pool" ELSE "none"]
    /\ side = [c \in Controls |-> "off"]
    /\ phase = [c \in Controls |-> "Idle"]
    /\ openGate = [c \in Controls |-> "free"]
    /\ cand = [c \in Controls |-> NoCand]
    /\ gates = [c \in Controls |-> NewGates]
    /\ pull = [w \in Workers |-> NoPull]
    /\ handed = {}

-----------------------------------------------------------------------------
(* The supervisor.                                                         *)

(* Workers that may still begin an attempt; keeps attempts within bounds.  *)
Claims ==
    {w \in Workers :
        \/ pull[w].stage \in {"starting", "captured"}
        \/ w[2] = "primary" /\ job[w[1]] \in {"fetch", "process", "await"}
        \/ w[2] = "side" /\ side[w[1]] = "waiting"}

Budget == db.lastSeq + Cardinality(Claims) < MaxAttempts

Starting(refresh, base, version, sections) ==
    [NoPull EXCEPT !.stage = "starting", !.refresh = refresh, !.base = base,
                   !.version = version, !.sections = sections]

(* A due Open job: the coordinator leaves the pool for execute_open.       *)
DispatchOpen ==
    /\ pool # 0 /\ Budget
    /\ pool' = 0
    /\ job' = [job EXCEPT ![pool] = "open"]
    /\ pull' = [pull EXCEPT ![<<pool, "primary">>] = Starting(0, 0, 0, {})]
    /\ UNCHANGED <<db, env, registered, removed, controls, conc, side, phase, openGate, cand,
                   gates, handed>>

(* A due Catalog job.  A watched target gets an entry in concurrent_open.  *)
DispatchCatalog ==
    /\ pool # 0 /\ Budget
    /\ LET o == Cardinality(DOMAIN db.refresh) + 1
       IN  /\ o <= MaxRefreshes
           /\ db' = BeginRefresh(db, o)
           /\ cand' = [cand EXCEPT ![pool] = [NoCand EXCEPT !.refresh = o]]
    /\ pool' = 0
    /\ job' = [job EXCEPT ![pool] = "fetch"]
    /\ phase' = [phase EXCEPT ![pool] = "CatalogFetch"]
    /\ conc' = IF watched # {} THEN [ctl |-> pool, inFlight |-> FALSE] ELSE conc
    /\ UNCHANGED <<env, registered, removed, controls, side, openGate, gates, pull, handed>>

AllowsParallelServingOpen(c) == phase[c] \in {"CatalogFetch", "CatalogProcess"}

DispatchSide ==
    LET c == conc.ctl
    IN  /\ c # 0 /\ ~conc.inFlight /\ Budget
        /\ AllowsParallelServingOpen(c) /\ side[c] = "off"
        /\ conc' = [conc EXCEPT !.inFlight = TRUE]
        /\ side' = [side EXCEPT ![c] = "waiting"]
        /\ UNCHANGED <<db, env, registered, removed, pool, controls, job, phase, openGate, cand,
                       gates, pull, handed>>

(* finish_primary_workflow: the coordinator of c returns to the pool,      *)
(* replacing what is there, unless the target was removed meanwhile.       *)
Returned(c) ==
    /\ removed' = FALSE
    /\ pool' = IF removed THEN pool ELSE c
    /\ job' = [d \in Controls |->
                 IF d = c THEN (IF removed THEN "gone" ELSE "pool")
                 ELSE IF d = pool /\ ~removed THEN "gone" ELSE job[d]]
    /\ cand' = [cand EXCEPT ![c] = NoCand]

IsCatalogJob(c) == cand[c].refresh # 0

(* A finished catalog workflow waits for the side task of its target.      *)
PrimaryDone(c) ==
    /\ job[c] = "finished"
    /\ phase' = [phase EXCEPT ![c] = "Idle"]
    /\ IF IsCatalogJob(c) /\ conc.inFlight
       THEN /\ job' = [d \in Controls |-> IF d = c THEN "pending"
                                          ELSE IF job[d] = "pending" THEN "gone" ELSE job[d]]
            /\ UNCHANGED <<removed, pool, cand, conc>>
       ELSE /\ Returned(c)
            /\ conc' = IF IsCatalogJob(c) THEN NoConc ELSE conc
    /\ UNCHANGED <<db, env, registered, controls, side, openGate, gates, pull, handed>>

SideDone(c) ==
    /\ side[c] = "finished"
    /\ side' = [side EXCEPT ![c] = "off"]
    /\ LET waiting == {d \in Controls : job[d] = "pending"}
       IN  IF waiting = {}
           THEN /\ conc' = [conc EXCEPT !.inFlight = FALSE]
                /\ UNCHANGED <<removed, pool, job, cand>>
           ELSE /\ conc' = NoConc
                /\ \E d \in waiting : Returned(d)
    /\ UNCHANGED <<db, env, registered, controls, phase, openGate, gates, pull, handed>>

(* The demand scan dropped the target: retain_registered_targets.          *)
RemoveTarget ==
    /\ registered /\ controls < MaxControls
    /\ registered' = FALSE
    /\ pool' = 0
    /\ removed' = IF pool = 0 THEN TRUE ELSE removed
    /\ job' = [c \in Controls |-> IF c = pool THEN "gone" ELSE job[c]]
    /\ UNCHANGED <<db, env, controls, conc, side, phase, openGate, cand, gates, pull, handed>>

(* ... and found it again: a fresh coordinator and control.                *)
Register ==
    /\ ~registered
    /\ registered' = TRUE
    /\ IF pool # 0 THEN UNCHANGED <<pool, controls, job>>
       ELSE /\ controls' = controls + 1
            /\ pool' = controls + 1
            /\ job' = [job EXCEPT ![controls + 1] = "pool"]
    /\ UNCHANGED <<db, env, removed, conc, side, phase, openGate, cand, gates, pull, handed>>

-----------------------------------------------------------------------------
(* The catalog workflow, execute_catalog.                                  *)

CatalogFetched(c, catalog) ==
    /\ job[c] = "fetch"
    /\ job' = [job EXCEPT ![c] = "process"]
    /\ phase' = [phase EXCEPT ![c] = "CatalogProcess"]
    /\ cand' = [cand EXCEPT ![c].catalog = catalog]
    /\ UNCHANGED <<db, env, supervisor, side, openGate, gates, pull, handed>>

(* The download failed, or the courses do not normalise.                   *)
CatalogFailed(c) ==
    /\ job[c] \in {"fetch", "process"}
    /\ job' = [job EXCEPT ![c] = "finished"]
    /\ db' = FailRefresh(db, cand[c].refresh)
    /\ UNCHANGED <<env, supervisor, side, phase, openGate, cand, gates, pull, handed>>

(* One storage lock: stage the catalog, then retain the last known good    *)
(* snapshot or announce the candidate.  A first empty catalog needs the    *)
(* selector of the source (confirmed) and the persisted one (listed) to    *)
(* name the target; without the first nothing is staged, without the       *)
(* second the workflow ends with the refresh still staged.                 *)
CatalogPrepared(c, confirmed, listed) ==
    LET catalog == cand[c].catalog
        o == cand[c].refresh
        staged == StageRefresh(db, o)
        retained == RetainsLastKnownGood(db, catalog)
        firstEmpty == catalog.sections = {} /\ db.version = 0
    IN  /\ job[c] = "process"
        /\ db' = IF firstEmpty /\ ~confirmed THEN db
                 ELSE IF retained THEN PublishStaged(staged, o, catalog) ELSE staged
        /\ IF retained \/ (firstEmpty /\ ~(confirmed /\ listed))
           THEN /\ job' = [job EXCEPT ![c] = "finished"]
                /\ UNCHANGED <<phase, cand>>
           ELSE /\ job' = [job EXCEPT ![c] = "await"]
                /\ phase' = [phase EXCEPT ![c] = "CandidateOpen"]
                /\ cand' = [cand EXCEPT ![c].base = db.version,
                                        ![c].version = CandidateVersion(db, catalog)]
        /\ UNCHANGED <<env, supervisor, side, openGate, gates, pull, handed>>

CandidateGate(c) ==
    /\ job[c] = "await" /\ openGate[c] = "free"
    /\ openGate' = [openGate EXCEPT ![c] = "primary"]
    /\ job' = [job EXCEPT ![c] = "candidate"]
    /\ pull' = [pull EXCEPT ![<<c, "primary">>] =
                    Starting(cand[c].refresh, cand[c].base, cand[c].version,
                             cand[c].catalog.sections)]
    /\ UNCHANGED <<db, env, supervisor, side, phase, cand, gates, handed>>

(* execute_concurrent_serving_open takes the gate and looks again.         *)
SideStart(c) ==
    /\ side[c] = "waiting" /\ openGate[c] = "free"
    /\ IF AllowsParallelServingOpen(c) /\ watched # {}
       THEN /\ openGate' = [openGate EXCEPT ![c] = "side"]
            /\ side' = [side EXCEPT ![c] = "pull"]
            /\ pull' = [pull EXCEPT ![<<c, "side">>] = Starting(0, 0, 0, {})]
       ELSE /\ side' = [side EXCEPT ![c] = "finished"]
            /\ UNCHANGED <<openGate, pull>>
    /\ UNCHANGED <<db, env, supervisor, job, phase, cand, gates, handed>>

-----------------------------------------------------------------------------
(* The open pull, SharedOpenService::execute_with.                         *)

(* The pull returns to its workflow, which drops the open gate it holds.   *)
EndPull(w) ==
    /\ pull' = [pull EXCEPT ![w] = NoPull]
    /\ IF w[2] = "primary"
       THEN job' = [job EXCEPT ![w[1]] = "finished"] /\ side' = side
       ELSE side' = [side EXCEPT ![w[1]] = "finished"] /\ job' = job
    /\ openGate' = [openGate EXCEPT ![w[1]] = IF @ = w[2] THEN "free" ELSE @]

Advance(w, updated) ==
    /\ pull' = [pull EXCEPT ![w] = updated]
    /\ UNCHANGED <<job, side, openGate>>

(* A candidate pull works on the catalog it was given, a serving pull on   *)
(* the one in the database; there may be none yet.                         *)
Capture(w) ==
    LET p == pull[w]
    IN  /\ p.stage = "starting"
        /\ IF p.refresh # 0 THEN Advance(w, [p EXCEPT !.stage = "captured"])
           ELSE IF db.version = 0 THEN EndPull(w)
           ELSE Advance(w, [p EXCEPT !.stage = "captured", !.version = db.version,
                                     !.sections = db.catalog.sections])
        /\ UNCHANGED <<db, env, supervisor, phase, cand, gates, handed>>

Begin(w) ==
    LET p == pull[w]
    IN  /\ p.stage = "captured"
        /\ IF BeginAccepted(db, p)
           THEN /\ db' = BeginAttempt(db, p, now)
                /\ Advance(w, [p EXCEPT !.stage = "fetching", !.seq = db'.lastSeq])
           ELSE /\ EndPull(w)
                /\ db' = db
        /\ UNCHANGED <<env, supervisor, phase, cand, gates, handed>>

FetchFailed(w) ==
    LET p == pull[w]
    IN  /\ p.stage = "fetching"
        /\ db' = FinishFailure(db, p.seq, now, p.refresh).db
        /\ EndPull(w)
        /\ UNCHANGED <<env, supervisor, phase, cand, gates, handed>>

(* The gate mutex is held from the decision to the commit.                 *)
GateLocked(c) == \E w \in Workers : w[1] = c /\ pull[w].stage = "decided" /\ pull[w].kind # "none"

(* The gates of control c ready to judge a sample of pull p, whose serving *)
(* catalog is now sections: lazy rebuild, reset on a changed catalog, or   *)
(* candidate seed.                                                         *)
MutReadyGates(c, p, sections) ==
    LET floor == LkgReference(db, sections)
        installed == IF gates[c].serving.state = "Absent"
                     THEN Rebuilt(sections, floor, ServingHistory(db, RestartLimit), now)
                     ELSE gates[c].serving
    IN  IF p.refresh # 0 THEN CandidateMut(gates[c], sections, floor)
        ELSE [gates[c] EXCEPT !.serving = installed]

ReadyGates(c, p, sections) ==
    LET floor == LkgReference(db, sections)
        installed == IF gates[c].serving.state = "Absent"
                     THEN Rebuilt(sections, floor, ServingHistory(db, RestartLimit), now)
                     ELSE gates[c].serving
    IN  IF p.refresh # 0 THEN CandidateMut(gates[c], sections, floor)
        ELSE [gates[c] EXCEPT !.serving =
                IF IsSeeded(installed) /\ installed.identity # sections
                THEN Seeded(sections, floor) ELSE installed]

RouteRuntime(gateSet, p) == IF p.refresh # 0 THEN gateSet.candidate ELSE gateSet.serving

(* The answer arrived: read the catalog again, let the gate decide, plan   *)
(* the reconciliation, sample the watches.  Hard rejects bypass the gate.  *)
Decide(w, response) ==
    LET c == w[1]
        p == pull[w]
        version == IF p.refresh # 0 THEN p.version ELSE db.version
        sections == IF p.refresh # 0 THEN p.sections ELSE db.catalog.sections
        observed == response \cap sections
        hardReject == \/ p.version # version
                      \/ response # {} /\ sections # {} /\ observed = {}
        ready == ReadyGates(c, p, sections)
        runtime == RouteRuntime(ready, p)
        decision == Evaluate(runtime, sections, observed, now)
        sampled == [p EXCEPT !.stage = "decided", !.at = now, !.response = response,
                             !.watched = watched]
        plan(hold) == IF p.version # version THEN "StaleCatalogRace"
                      ELSE ClassifyOpenResponse(response, sections, hold)
    IN  /\ p.stage = "fetching"
        /\ IF hardReject
           THEN /\ Advance(w, [sampled EXCEPT !.plan = plan(FALSE)])
                /\ gates' = gates
           ELSE /\ ~GateLocked(c)
                /\ gates' = [gates EXCEPT ![c] = ready]
                /\ Advance(w, [sampled EXCEPT
                        !.hold = Holds(decision), !.identity = {sections},
                        !.plan = plan(Holds(decision)), !.kind = decision.kind,
                        !.seen = runtime, !.next = decision.next])
        /\ UNCHANGED <<db, env, supervisor, phase, cand, handed>>

(* What the storage transaction of a decided pull returns; listed: the     *)
(* persisted selector names the target.                                    *)
CommitOutcome(w, listed) ==
    LET p == pull[w]
    IN  IF p.refresh = 0 THEN FinishSuccess(db, p.seq, p, FALSE)
        ELSE FinishCandidate(db, p.seq, p, p.refresh, cand[w[1]].catalog, listed)

(* GateRuntime::advance for the route of p, and the promotion.             *)
AdvancedGates(gateSet, p, class) ==
    LET advanced == [gateSet EXCEPT !.candidate = p.next]
    IN  IF p.kind = "none" \/ class = "StaleCatalogRace" THEN gateSet
        ELSE IF p.refresh = 0 THEN [gateSet EXCEPT !.serving = p.next]
        ELSE IF class \in Successes THEN PromoteCandidate(advanced) ELSE advanced

(* The commit, the cross-check with the plan, the gate's advance, and the  *)
(* observations built from the committed section events.  A candidate      *)
(* commit that fails is finished as a failure instead.                     *)
Commit(w, listed) ==
    LET c == w[1]
        p == pull[w]
        r == CommitOutcome(w, listed)
        agrees == r.class \in {p.plan, "StaleCatalogRace"}
    IN  /\ p.stage = "decided"
        /\ db' = IF r.ok \/ p.refresh = 0 THEN r.db
                 ELSE FinishFailure(db, p.seq, p.at, p.refresh).db
        /\ gates' = IF r.ok /\ agrees
                    THEN [gates EXCEPT ![c] = AdvancedGates(@, p, r.class)] ELSE gates
        /\ IF /\ r.ok /\ agrees /\ r.class \in Successes
              /\ r.db.attempts[p.seq].events = p.watched
           THEN Advance(w, [NoPull EXCEPT !.stage = "publish", !.seq = p.seq])
           ELSE EndPull(w)
        /\ UNCHANGED <<env, supervisor, phase, cand, handed>>

(* Each committed observation goes to the watch service.                   *)
Publish(w) ==
    /\ pull[w].stage = "publish"
    /\ handed' = handed \cup {pull[w].seq}
    /\ EndPull(w)
    /\ UNCHANGED <<db, env, supervisor, phase, cand, gates>>

-----------------------------------------------------------------------------
(* The environment.                                                        *)

Tick ==
    /\ now < MaxTime
    /\ now' = now + 1
    /\ UNCHANGED <<db, rollbacks, crashes, watched, supervisor, workflows, gates, pull, handed>>

(* The wall clock is set back.                                             *)
Rollback ==
    /\ now > 0 /\ rollbacks < MaxRollbacks
    /\ now' = now - 1
    /\ rollbacks' = rollbacks + 1
    /\ UNCHANGED <<db, crashes, watched, supervisor, workflows, gates, pull, handed>>

(* A page starts or stops watching; only a served section can be watched.  *)
Watch(s) ==
    /\ s \in db.catalog.sections \ watched
    /\ watched' = watched \cup {s}
    /\ UNCHANGED <<db, now, rollbacks, crashes, supervisor, workflows, gates, pull, handed>>

Unwatch(s) ==
    /\ s \in watched
    /\ watched' = watched \ {s}
    /\ UNCHANGED <<db, now, rollbacks, crashes, supervisor, workflows, gates, pull, handed>>

(* The process dies and a new one opens the database.  Observations it had *)
(* not published are lost with the watches they were for.                  *)
Restart ==
    /\ crashes < MaxCrashes
    /\ crashes' = crashes + 1
    /\ db' = Recovered(db, now)
    /\ watched' = {} /\ handed' = 1..db.lastSeq
    /\ registered' = TRUE /\ removed' = FALSE /\ pool' = 1 /\ controls' = 1 /\ conc' = NoConc
    /\ job' = [c \in Controls |-> IF c = 1 THEN "pool" ELSE "none"]
    /\ side' = [c \in Controls |-> "off"]
    /\ phase' = [c \in Controls |-> "Idle"]
    /\ openGate' = [c \in Controls |-> "free"]
    /\ cand' = [c \in Controls |-> NoCand]
    /\ gates' = [c \in Controls |-> NewGates]
    /\ pull' = [w \in Workers |-> NoPull]
    /\ UNCHANGED <<now, rollbacks>>

PullStep(w) ==
    \/ Capture(w) \/ Begin(w) \/ FetchFailed(w) \/ Publish(w)
    \/ \E listed \in BOOLEAN : Commit(w, listed)
    \/ \E response \in Responses : Decide(w, response)

PrimaryStep(c) ==
    \/ \E catalog \in Catalogs : CatalogFetched(c, catalog)
    \/ CatalogFailed(c)
    \/ \E confirmed, listed \in BOOLEAN : CatalogPrepared(c, confirmed, listed)
    \/ CandidateGate(c) \/ PrimaryDone(c)

SideStep(c) == SideStart(c) \/ SideDone(c)

Next ==
    \/ DispatchOpen \/ DispatchCatalog \/ DispatchSide
    \/ RemoveTarget \/ Register
    \/ \E c \in Controls : PrimaryStep(c) \/ SideStep(c)
    \/ \E w \in Workers : PullStep(w)
    \/ \E s \in Watchable : Watch(s) \/ Unwatch(s)
    \/ Tick \/ Rollback \/ Restart

Spec == Init /\ [][Next]_vars

(* The runtime polls every task it spawned, every request has a timeout,   *)
(* and the supervisor's loop joins the tasks that finished.  Nothing makes *)
(* a job due, a page watch or the clock move.                              *)
Fairness ==
    /\ \A c \in Controls : WF_vars(PrimaryStep(c)) /\ WF_vars(SideStep(c))
    /\ \A w \in Workers : WF_vars(PullStep(w))

LiveSpec == Spec /\ Fairness

-----------------------------------------------------------------------------
(* Properties.                                                             *)

(* Every variable has its type: rows, runtimes and pulls are well formed.  *)
TypeOK ==
    /\ now \in 0..MaxTime /\ rollbacks \in 0..MaxRollbacks /\ crashes \in 0..MaxCrashes
    /\ watched \subseteq Watchable /\ pool \in 0..MaxControls /\ controls \in Controls
    /\ registered \in BOOLEAN /\ removed \in BOOLEAN
    /\ conc \in [ctl : 0..MaxControls, inFlight : BOOLEAN]
    /\ job \in [Controls -> {"none", "pool", "open", "fetch", "process", "await", "candidate",
                             "finished", "pending", "gone"}]
    /\ side \in [Controls -> {"off", "waiting", "pull", "finished"}]
    /\ phase \in [Controls -> {"Idle", "CatalogFetch", "CatalogProcess", "CandidateOpen"}]
    /\ openGate \in [Controls -> {"free", "primary", "side"}]
    /\ \A w \in Workers :
          pull[w].stage \in {"none", "starting", "captured", "fetching", "decided", "publish"}
    /\ handed \subseteq 1..db.lastSeq
    /\ DOMAIN db.attempts \subseteq 1..db.lastSeq
    /\ \A q \in DOMAIN db.attempts : db.attempts[q].class \in Classes
    /\ db.catalog \in Catalogs \cup {NoCatalog} /\ db.open \subseteq db.known

(* The attempt counters add up whatever fails, is pruned or is interrupted *)
(* by a restart: begin_open_pull_attempt counts an attempt once, exactly   *)
(* one finish, failure or recovery settles it, and observation sequences   *)
(* count the successes.                                                    *)
CountersBalance ==
    /\ db.attempted = db.lastSeq
    /\ db.attempted = db.succeeded + db.failed + Cardinality(StartedSeqs(db))
    /\ db.obsSeq = db.succeeded /\ db.empty <= db.attempted

(* A catalog is served only with an open snapshot taken against exactly    *)
(* that catalog, and the last known good rows are what the LKG attempt     *)
(* received: publish_staged and the open apply move together, across       *)
(* failures, retained empties, restarts and pruning.                       *)
CompleteSnapshot ==
    /\ (db.version > 0) <=> (db.lkg # 0)
    /\ db.lkg # 0 =>
        /\ db.openVersion = db.version
        /\ db.known = db.catalog.sections
        /\ db.lkg \in DOMAIN db.attempts
        /\ db.attempts[db.lkg].class \in Successes
        /\ db.attempts[db.lkg].response = {UNION db.attempts[db.lkg].response}
        /\ db.open = UNION db.attempts[db.lkg].response \cap db.known

(* Every STARTED attempt belongs to a running pull: "every returned        *)
(* upstream result is finalized before this method returns" (execute_with, *)
(* service.rs).  A row nobody owns blocks every later pull of the target   *)
(* (OpenTargetInFlight) until the process restarts.                        *)
StartedOwned ==
    \A q \in StartedSeqs(db) :
        \E w \in Workers : pull[w].seq = q /\ pull[w].stage \in {"fetching", "decided"}

CandidateEnds ==
    \A c \in Controls :
        job[c] = "candidate" /\ job'[c] = "finished" => cand[c].refresh \notin StagedRefreshes(db')

(* A candidate pull that ends, by success, by a withheld or failed         *)
(* response, or by a commit error and its fallback, never leaves its       *)
(* catalog STAGED.                                                         *)
CandidateSettled == [][CandidateEnds]_vars

(* The open gate, the workflow phase and the pending primary keep the      *)
(* pulls of a target apart: the database never refuses to begin one        *)
(* because another is in flight or the catalog moved since its capture.    *)
BeginNeverRefused ==
    \A w \in Workers : pull[w].stage = "captured" => BeginAccepted(db, pull[w])

(* The gate decision that commits was computed from the runtime it         *)
(* advances (the epoch assertion of GateRuntime::advance), for the catalog *)
(* that runtime is about.                                                  *)
DecisionCurrent ==
    \A w \in Workers :
        LET p == pull[w]
        IN  p.stage = "decided" /\ p.kind # "none" =>
                /\ p.seen = RouteRuntime(gates[w[1]], p)
                /\ p.refresh # 0 => gates[w[1]].key = p.sections
                /\ IsSeeded(p.next) /\ {p.next.identity} = p.identity

(* The served catalog does not move under a serving pull between its begin *)
(* and its commit, not even with two controls: publishing a catalog takes  *)
(* a STARTED attempt of its own.  The StaleCatalogRace paths of            *)
(* finish_success and finish_open_pull_success_transaction are a second    *)
(* line of defence.                                                        *)
CatalogStable ==
    \A w \in Workers :
        pull[w].stage \in {"fetching", "decided"} /\ pull[w].refresh = 0 =>
            pull[w].version = db.version /\ pull[w].sections = db.catalog.sections

(* The baseline the serving gate judges by is the one the database serves: *)
(* its catalog is the served one and its newest count is the number of     *)
(* open rows, after promotions, failed commits and restarts.               *)
GateMatchesLkg ==
    \A c \in Controls :
        LET rt == gates[c].serving
        IN  /\ rt.state = "Unseeded" => db.known = {}
            /\ IsSeeded(rt) =>
                 /\ rt.identity = db.catalog.sections
                 /\ Cardinality(db.open) =
                        IF rt.window = <<>> THEN rt.floor ELSE rt.window[Len(rt.window)]

(* What an attempt row, or the pull at hand, observed within its catalog.  *)
ObservedIn(row) == UNION row.response \cap row.members

(* A shrunken snapshot is believed only on evidence in the attempt log: it *)
(* has been withheld at least ConfirmMin - 1 times before on the same      *)
(* route and catalog, without a gap over MaxGap, over at least MinSpan,    *)
(* with the same content up to the tolerance, and nothing was applied in   *)
(* between.  Restarts (rebuild_after_restart) may lose evidence, never     *)
(* invent it.                                                              *)
ConfirmHasEvidence ==
    \A w \in Workers :
        LET p == pull[w]
            observed == p.response \cap p.sections
            near(a, b) == Cardinality((a \ b) \cup (b \ a))
                             <= CeilDiv(Cardinality(a), ConsistentDen)
            sameRoute(q) == (db.attempts[q].refresh = 0) <=> (p.refresh = 0)
            suspects == {q \in DOMAIN db.attempts :
                /\ IsSuspect(db.attempts[q]) /\ sameRoute(q)
                /\ db.attempts[q].identity = {p.sections}}
        IN  p.stage = "decided" /\ p.kind = "QuarantineConfirm" =>
            \E E \in SUBSET suspects :
                /\ Cardinality(E) >= ConfirmMin - 1
                /\ p.at - db.attempts[Oldest(E)].at >= MinSpan
                /\ \A q \in E :
                     LET later == {r \in E : r > q}
                         nextAt == IF later = {} THEN p.at ELSE db.attempts[Oldest(later)].at
                     IN  /\ WithinGap(nextAt - db.attempts[q].at)
                         /\ near(ObservedIn(db.attempts[Oldest(E)]), ObservedIn(db.attempts[q]))
                /\ near(ObservedIn(db.attempts[Oldest(E)]), observed)
                /\ \A q \in DOMAIN db.attempts :
                     db.attempts[q].class \in Successes /\ (p.refresh = 0 \/ sameRoute(q)) =>
                        q < Oldest(E)

(* Every section event an applied pull committed is published to the       *)
(* watches, unless the process dies first: the watches were sampled right  *)
(* before the commit so that each "receives this valid observation"        *)
(* (finish_success, service.rs).                                           *)
EventsReachWatches ==
    \A q \in DOMAIN db.attempts \ handed :
        db.attempts[q].class \in Successes /\ db.attempts[q].events # {} =>
            \E w \in Workers : pull[w].stage = "publish" /\ pull[w].seq = q

(* The attempt log stays bounded however pulls fail, because every         *)
(* settlement prunes (prune_open_diagnostics_transaction): beyond the      *)
(* Retain newest rows it holds the LKG attempt, a STARTED one and at most  *)
(* one row per restart, whose recovery does not prune.                     *)
LogBounded ==
    Cardinality(DOMAIN db.attempts) <= Retain + 2 + crashes

(* A quarantine survives a restart: when the first response after it       *)
(* equals the newest persisted suspect response, within the gap, the       *)
(* episode goes on rather than start over ("the first post-restart sample  *)
(* continues the episode only on exact hash equality", gate.rs).           *)
RestartResumes ==
    \A w \in Workers :
        LET p == pull[w]
            suspects == {q \in DOMAIN db.attempts : IsSuspect(db.attempts[q])}
        IN  /\ p.stage = "decided" /\ p.refresh = 0 /\ p.kind = "Suspect"
            /\ p.seen.state = "Quarantined" /\ ~p.seen.body /\ WithinGap(p.at - p.seen.last)
            /\ db.attempts[Newest(suspects)].response = {p.response}
            => p.next.first = p.seen.first

(* A workflow that leaves the pool comes back: the coordinator is returned *)
(* by PrimaryDone or SideDone however its steps fail, or the target was    *)
(* removed.                                                                *)
WorkflowsEnd ==
    \A c \in Controls : job[c] = "fetch" ~> job[c] \in {"pool", "gone"}
=============================================================================
