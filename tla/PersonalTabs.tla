---------------------------- MODULE PersonalTabs ----------------------------
(***************************************************************************)
(* The personal state as the local pages hold it: every tab keeps a        *)
(* snapshot of what the service stores, writes through a chain that runs   *)
(* one request after the other, replays what failed, and learns of the     *)
(* other tabs' writes over a broadcast channel.                            *)
(* frontend/src/ui/local/personal (LocalPersonalContext.tsx,               *)
(* LocalPersonalSync.ts, syncFailure.ts, LocalPersonalApi.ts).             *)
(*                                                                         *)
(* Four operations stand for their policies: settings and create are user  *)
(* writes, delete is destructive, reset single use.  There is one name for *)
(* a saved view; view is the operation that created it, or 0.  An answer   *)
(* may be lost before or after the service acted.                          *)
(***************************************************************************)
EXTENDS Integers, Sequences, FiniteSets, FiniteSetsExt

CONSTANTS
    Tabs,
    Kinds,       \* operations the users press
    Retries,     \* replays of a transient failure
    Backgrounds, \* length of the background refresh schedule
    MaxOps, MaxEvents  \* bounds: operations; failed requests and what else befalls a tab

VARIABLES
    srv,     \* what the service stores
    tab,     \* tab[t]: the provider of tab t
    ops, events,
    lost     \* lost[t]: why tab t may hold an old snapshot that nothing will refresh

tabVars == <<srv, tab, ops, events, lost>>

Stored == [state |-> 1, settings |-> [rev |-> 0, by |-> 0], filters |-> 0, view |-> 0]
Rest == [at |-> "rest", why |-> "none", tries |-> 0, conflicted |-> FALSE, code |-> "none",
         got |-> Stored, late |-> FALSE]

NewTab == [held |-> Stored, library |-> 0, phase |-> "IDLE", chain |-> <<>>, step |-> Rest,
           dirty |-> FALSE, requested |-> FALSE, timer |-> FALSE, background |-> 0,
           hidden |-> FALSE, aged |-> FALSE, inbox |-> 0, mount |-> "unsent", first |-> Stored]

TabsInit ==
    /\ srv = Stored /\ tab = [t \in Tabs |-> NewTab]
    /\ ops = 0 /\ events = 0 /\ lost = [t \in Tabs |-> {}]

-----------------------------------------------------------------------------
(* The service: the checks and effect of an operation o sent with the      *)
(* revisions of the snapshot held.                                         *)
Verdict(o, held) ==
    CASE o.kind = "reset" -> "ok"
      [] held.state # srv.state -> "USER_STATE_REVISION_CONFLICT"
      [] o.kind = "settings" /\ held.settings.rev # srv.settings.rev ->
            "SETTINGS_REVISION_CONFLICT"
      [] o.kind \in {"create", "delete"} /\ held.filters # srv.filters ->
            "CURRENT_FILTERS_REVISION_CONFLICT"
      [] o.kind = "create" /\ srv.view # 0 -> "SAVED_VIEW_NAME_CONFLICT"
      [] o.kind = "delete" /\ srv.view # o.target -> "SAVED_VIEW_NOT_FOUND"
      [] OTHER -> "ok"

(* classifyLocalSyncFailure; unreachable stands for a network failure, a   *)
(* rate limit and every 5xx but a full disk.                               *)
Classify(code) ==
    CASE code \in {"SETTINGS_REVISION_CONFLICT", "CURRENT_FILTERS_REVISION_CONFLICT"} ->
            "REVISION_CONFLICT"
      [] code = "USER_STATE_REVISION_CONFLICT" -> "STATE_RESET"
      [] code = "unreachable" -> "TRANSIENT"
      [] OTHER -> "REJECTED"

Effect(o) ==
    CASE o.kind = "reset" -> [Stored EXCEPT !.state = srv.state + 1]
      [] o.kind = "settings" -> [srv EXCEPT !.settings = [rev |-> @.rev + 1, by |-> o.id]]
      [] o.kind = "create" -> [srv EXCEPT !.view = o.id, !.filters = @ + 1]
      [] o.kind = "delete" -> [srv EXCEPT !.view = 0, !.filters = @ + 1]

(* The policies of the operations.                                         *)
ConflictRetry(o) == o.kind \in {"settings", "create"}
TransientRetry(o) == o.kind # "reset"
Settles(o) == o.kind = "create"

-----------------------------------------------------------------------------
(* The snapshot.                                                           *)

(* mergeBootstrap: an older snapshot is dropped, one after a reset taken   *)
(* whole, otherwise each part by its revision.                             *)
MergeBootstrap(before, after) ==
    IF after.state < before.state THEN before
    ELSE IF after.state > before.state THEN after
    ELSE [after EXCEPT
            !.settings = IF @.rev > before.settings.rev THEN @ ELSE before.settings,
            !.filters = IF @ > before.filters THEN @ ELSE before.filters]

(* withSettings, withSavedViewMutation, withSavedViewDeleted: the answer   *)
(* of a committed operation, merged into the snapshot held.                *)
Patched(o, held, answer) ==
    CASE o.kind = "settings" -> [held EXCEPT !.settings = answer.settings]
      [] o.kind = "create" -> [held EXCEPT !.view = answer.view, !.filters = answer.filters]
      [] o.kind = "delete" -> [held EXCEPT !.view = 0, !.filters = answer.filters]
      [] OTHER -> held

(* replaceBootstrap: the library shown is rebuilt with the snapshot.       *)
Replaced(x, next) ==
    LET merged == MergeBootstrap(x.held, next)
    IN  IF next.state < x.held.state THEN x
        ELSE [x EXCEPT !.held = merged, !.library = merged.view]

(* cancelBackgroundRefresh: the timer stops and what it queued is void.    *)
CancelBackground(x) ==
    [x EXCEPT !.background = 0,
              !.chain = [i \in DOMAIN @ |-> IF i > 1 /\ @[i].kind = "background"
                                           THEN [@[i] EXCEPT !.kind = "void"] ELSE @[i]]]

(* scheduleBackgroundRefresh: from its first delay, or the next one.       *)
ScheduleBackground(x, index) ==
    IF index > Backgrounds THEN x ELSE [CancelBackground(x) EXCEPT !.background = index]

(* requestRefresh.                                                         *)
RequestRefresh(x) ==
    IF x.hidden THEN [x EXCEPT !.dirty = TRUE]
    ELSE IF x.requested THEN x
    ELSE [x EXCEPT !.requested = TRUE, !.timer = TRUE]

(* One link of the chain is over.                                          *)
Over(x, phase) == [x EXCEPT !.phase = phase, !.chain = Tail(@), !.step = Rest]

Queued(x, task) == [x EXCEPT !.chain = Append(@, task)]
Task(kind, index) == [kind |-> kind, index |-> index, op |-> [kind |-> "none", id |-> 0, target |-> 0]]

Event == events < MaxEvents /\ events' = events + 1
Become(t, x) == tab' = [tab EXCEPT ![t] = x]

(* syncPort.publish reaches every other tab.                               *)
MutPublished(t, x) == [tab EXCEPT ![t] = x]
Published(t, x) ==
    [u \in Tabs |-> IF u = t THEN x ELSE [tab[u] EXCEPT !.inbox = @ + 1]]

-----------------------------------------------------------------------------
(* What the user and the browser do.                                       *)

Press(t, kind) ==
    /\ ops < MaxOps /\ ops' = ops + 1
    /\ Become(t, Queued(tab[t], [Task("write", 0) EXCEPT
                    !.op = [kind |-> kind, id |-> ops + 1, target |-> tab[t].held.view]]))
    /\ UNCHANGED <<srv, events, lost>>

Reload(t) ==
    /\ Event
    /\ Become(t, Queued([tab[t] EXCEPT !.phase = "IDLE"], Task("reload", 0)))
    /\ UNCHANGED <<srv, ops, lost>>

(* onVisibilityChange.                                                     *)
Hide(t) ==
    /\ ~tab[t].hidden /\ Event
    /\ Become(t, [tab[t] EXCEPT !.hidden = TRUE])
    /\ UNCHANGED <<srv, ops, lost>>

Show(t) ==
    LET x == [tab[t] EXCEPT !.hidden = FALSE]
    IN  /\ tab[t].hidden
        /\ Become(t, IF x.dirty \/ x.aged THEN RequestRefresh(x) ELSE x)
        /\ UNCHANGED <<srv, ops, events, lost>>

Online(t) ==
    /\ Event
    /\ Become(t, RequestRefresh(tab[t]))
    /\ UNCHANGED <<srv, ops, lost>>

(* The snapshot passes LOCAL_PERSONAL_VISIBILITY_STALE_MS.                 *)
Age(t) ==
    /\ ~tab[t].aged /\ Event
    /\ Become(t, [tab[t] EXCEPT !.aged = TRUE])
    /\ UNCHANGED <<srv, ops, lost>>

(* A MUTATED message of another tab.                                       *)
Deliver(t) ==
    /\ tab[t].inbox > 0
    /\ Become(t, RequestRefresh([tab[t] EXCEPT !.inbox = @ - 1, !.dirty = TRUE,
                                               !.step.late = TRUE]))
    /\ UNCHANGED <<srv, ops, events, lost>>

PeerTimer(t) ==
    /\ tab[t].timer
    /\ Become(t, Queued([tab[t] EXCEPT !.timer = FALSE], Task("peer", 0)))
    /\ UNCHANGED <<srv, ops, events, lost>>

BackgroundTimer(t) ==
    /\ tab[t].background > 0
    /\ Become(t, Queued([tab[t] EXCEPT !.background = 0],
                        Task("background", tab[t].background)))
    /\ UNCHANGED <<srv, ops, events, lost>>

(* The notice of a recovery, or an error the user dismisses, goes away.    *)
Dismiss(t) ==
    /\ tab[t].phase \in {"RECOVERED", "FAILED"}
    /\ Become(t, [tab[t] EXCEPT !.phase = "IDLE"])
    /\ UNCHANGED <<srv, ops, events, lost>>

(* The library read of the mount effect, which is not part of the chain.   *)
MountRead(t) ==
    /\ tab[t].mount = "unsent" /\ Event
    /\ Become(t, [tab[t] EXCEPT !.mount = "sent", !.first = srv])
    /\ UNCHANGED <<srv, ops, lost>>

MountLand(t) ==
    LET x == [tab[t] EXCEPT !.mount = "done", !.first = Stored]
    IN  /\ tab[t].mount = "sent"
        /\ Become(t, IF tab[t].first.state = x.held.state
                     THEN [x EXCEPT !.library = tab[t].first.view] ELSE x)
        /\ UNCHANGED <<srv, ops, events, lost>>

-----------------------------------------------------------------------------
(* The chain.  A refresh reads the service, lands, and reads the labels of *)
(* the library; why says what it is for.                                   *)

Reading(x, why) == [x EXCEPT !.step = [@ EXCEPT !.at = "reading", !.why = why]]

Start(t) ==
    LET x == tab[t]
        task == Head(x.chain)
    IN  /\ x.step.at = "rest" /\ x.chain # <<>>
        /\ Become(t, CASE task.kind = "write" ->
                            [x EXCEPT !.phase = "IDLE", !.step = [Rest EXCEPT !.at = "calling"]]
                       [] task.kind = "peer" -> Reading([x EXCEPT !.requested = FALSE], "peer")
                       [] task.kind = "void" -> Over(x, x.phase)
                       [] OTHER -> Reading(x, task.kind))
        /\ UNCHANGED <<srv, ops, events, lost>>

(* The request of a write: a view that is gone is refused before it is     *)
(* sent.                                                                   *)
Call(t) ==
    LET x == tab[t]
        o == Head(x.chain).op
        gone == o.kind = "delete" /\ (o.target = 0 \/ x.held.view # o.target)
        code == IF gone THEN "GONE" ELSE Verdict(o, x.held)
    IN  /\ x.step.at = "calling"
        /\ \/ /\ srv' = IF code = "ok" THEN Effect(o) ELSE srv
              /\ Become(t, [x EXCEPT !.step = [@ EXCEPT !.at = "answered", !.code = code,
                                                       !.got = srv']])
              /\ UNCHANGED <<events, lost>>
           \/ /\ ~gone /\ Event
              /\ srv' \in {srv, IF code = "ok" THEN Effect(o) ELSE srv}
              /\ Become(t, [x EXCEPT !.step = [@ EXCEPT !.at = "answered", !.code = "unreachable"]])
              /\ lost' = IF srv' = srv THEN lost
                         ELSE [u \in Tabs |-> lost[u] \cup {"unanswered"}]
        /\ UNCHANGED ops

(* What enqueue makes of the answer.                                       *)
Handle(t) ==
    LET x == tab[t]
        s == x.step
        o == Head(x.chain).op
    IN  /\ s.at = "answered"
        /\ IF s.code = "ok"
           THEN tab' = Published(t, Reading(Replaced(x, Patched(o, x.held, s.got)), "follow"))
           ELSE Become(t,
                CASE Classify(s.code) = "TRANSIENT" /\ TransientRetry(o) /\ s.tries < Retries ->
                        [x EXCEPT !.phase = "RETRYING",
                                  !.step = [@ EXCEPT !.at = "calling", !.tries = @ + 1]]
                  [] Classify(s.code) = "REVISION_CONFLICT" /\ ConflictRetry(o) /\ ~s.conflicted ->
                        Reading([x EXCEPT !.phase = "RETRYING", !.step.conflicted = TRUE],
                                "conflict")
                  [] s.code = "SAVED_VIEW_NAME_CONFLICT" /\ s.tries > 0 /\ Settles(o) -> Reading(x, "name")
                  [] OTHER -> Over(x, "FAILED"))
        /\ UNCHANGED <<srv, ops, events, lost>>

(* performRefresh: the service answers the bootstrap GET, or its retries   *)
(* run out.                                                                *)
Read(t) ==
    LET x == tab[t]
    IN  /\ x.step.at = "reading"
        /\ \/ /\ Become(t, [x EXCEPT !.step = [@ EXCEPT !.at = "read", !.got = srv,
                                                       !.late = FALSE]])
              /\ UNCHANGED events
           \/ Event /\ Become(t, [x EXCEPT !.step.at = "failed"])
        /\ UNCHANGED <<srv, ops, lost>>

(* The answer lands.  A signal that came since the read and was deferred   *)
(* because the tab is hidden is cleared with it.                           *)
Land(t) ==
    LET x == tab[t]
    IN  /\ x.step.at = "read"
        /\ Become(t, CancelBackground([Replaced(x, x.step.got) EXCEPT
                        !.aged = FALSE, !.dirty = FALSE, !.step.at = "labels"]))
        /\ lost' = [lost EXCEPT ![t] =
                        (IF x.step.got = srv THEN {} ELSE @ \cap {"unanswered"})
                        \cup (IF x.step.late /\ ~x.requested THEN {"forgot"} ELSE {})]
        /\ UNCHANGED <<srv, ops, events>>

(* What follows a refresh that landed.                                     *)
Refreshed(x) ==
    CASE x.step.why = "conflict" -> [x EXCEPT !.step.at = "calling"]
      [] x.step.why = "follow" -> Over(x, IF x.step.conflicted THEN "RECOVERED" ELSE "IDLE")
      [] x.step.why = "name" -> Over(x, IF x.held.view # 0 THEN "IDLE" ELSE "FAILED")
      [] x.step.why = "background" -> Over(x, IF x.phase = "STALE" THEN "RECOVERED" ELSE x.phase)
      [] OTHER -> Over(x, x.phase)

(* The exact-match library: optional, and dropped when a reset came        *)
(* between.                                                                *)
Labels(t) ==
    LET x == tab[t]
        shown == IF srv.state = x.held.state THEN [x EXCEPT !.library = srv.view] ELSE x
        settled == x.step.why = "name" /\ x.held.view # 0
    IN  /\ x.step.at = "labels"
        /\ \E y \in {x, shown} :
              tab' = IF settled THEN Published(t, Refreshed(y))
                     ELSE [tab EXCEPT ![t] = Refreshed(y)]
        /\ UNCHANGED <<srv, ops, events, lost>>

(* A refresh that failed for good.                                         *)
RefreshFails(t) ==
    LET x == tab[t]
        why == x.step.why
    IN  /\ x.step.at = "failed"
        /\ IF why = "name" /\ x.held.view # 0 THEN tab' = Published(t, Over(x, "IDLE"))
           ELSE Become(t, CASE why = "follow" -> ScheduleBackground(Over(x, "STALE"), 1)
                            [] why = "background" ->
                                 ScheduleBackground(Over(x, x.phase), Head(x.chain).index + 1)
                            [] why = "peer" -> Over(x, x.phase)
                            [] OTHER -> Over(x, "FAILED"))
        /\ lost' = IF why = "peer" THEN [lost EXCEPT ![t] = @ \cup {"gaveUp"}] ELSE lost
        /\ UNCHANGED <<srv, ops, events>>

TabsNext ==
    \E t \in Tabs :
        \/ \E kind \in Kinds : Press(t, kind)
        \/ Reload(t) \/ Hide(t) \/ Show(t) \/ Online(t) \/ Age(t)
        \/ Deliver(t) \/ PeerTimer(t) \/ BackgroundTimer(t) \/ Dismiss(t)
        \/ MountRead(t) \/ MountLand(t)
        \/ Start(t) \/ Call(t) \/ Handle(t) \/ Read(t) \/ Land(t) \/ Labels(t) \/ RefreshFails(t)

TabsSpec == TabsInit /\ [][TabsNext]_tabVars

-----------------------------------------------------------------------------
(* Nothing is queued, pending or announced in tab t, and no tab is between *)
(* the commit of a write and its publication.                              *)
Quiet(t) ==
    /\ \A u \in Tabs : tab[u].step.at # "answered" \/ tab[u].step.code # "ok"
    /\ tab[t].chain = <<>> /\ ~tab[t].timer /\ tab[t].inbox = 0 /\ tab[t].background = 0
    /\ tab[t].phase \notin {"STALE", "FAILED"} /\ ~tab[t].hidden

(* A visible tab at rest that shows no problem holds what the service      *)
(* stores, whichever tab wrote it and whatever was replayed on the way,    *)
(* unless a write was committed whose answer nobody got, the refresh that  *)
(* a signal asked for failed, or a deferred signal was forgotten.          *)
QuietIsCurrent == \A t \in Tabs : Quiet(t) /\ lost[t] = {} => tab[t].held = srv

(* LocalPersonalSync.ts: "Every provider publishes a MUTATED message after *)
(* it commits a write; other tabs refresh their bootstrap from it."        *)
OthersRefresh ==
    \A t \in Tabs : Quiet(t) /\ lost[t] \subseteq {"forgot"} => tab[t].held = srv

(* LocalPersonalContext.tsx: "Every request that reads or writes the       *)
(* snapshot runs as one link of this chain", so no read older than a write *)
(* lands after it: the library shown is the one held.                      *)
LibraryFollows ==
    \A t \in Tabs : Quiet(t) /\ tab[t].held = srv => tab[t].library = srv.view
=============================================================================
