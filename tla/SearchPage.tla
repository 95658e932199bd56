------------------------------ MODULE SearchPage ------------------------------
(***************************************************************************)
(* The search page of one window: the search session reducer               *)
(* (SearchSession.tsx), the workspace that drives it                       *)
(* (SearchWorkspace.tsx: searches, course details, scope applications,     *)
(* empty-result probes, each an abortable request), and the local          *)
(* application's filter persistence (LocalApplication.tsx: the debounced   *)
(* save and the snapshots that come back from the local server).           *)
(*                                                                         *)
(* A scope is one term with its campuses; every scope is of the visible    *)
(* term.  A filter definition is a scope and one facet: None, a            *)
(* target-bound choice, or "bad" (a value the request cannot be built      *)
(* from).  A request whose abort races its answer may still be answered.   *)
(***************************************************************************)
EXTENDS Naturals, Sequences, FiniteSets

CONSTANTS None,       \* the absent value
          Scopes,     \* term and campus selections the page may apply
          MaxCalls,   \* bound on the requests the page sends
          MaxActs,    \* bound on the user's acts and the snapshot reads
          MaxSaves,   \* bound on this window's writes
          MaxOutside  \* bound on the peers' writes and on the status changes, each

VARIABLES session,    \* SearchSessionState
          page,       \* the workspace's own state: query, detail, validation, diagnosis
          calls,      \* requests not yet answered
          status,     \* the usable scopes of the service status, or None
          store,      \* the personal snapshot of this window and its writes
          server,     \* the stored current filters, with their revision
          own,        \* history: definitions this window's user made or reloaded
          acts        \* what is left of each bound

vars == <<session, page, calls, status, store, server, own, acts>>

NoTerm == "noTerm"       \* no term is known: the status has not arrived
TermOnly == "termOnly"   \* a term without a campus
Facets == {None, "f1", "bad"}

Def(scope, facet) == [scope |-> scope, facet |-> facet]
Serializable(def) == def.facet # "bad"

(* isSearchDataReady for a status of the second contract. *)
Ready(st, scope) == st # None /\ scope \in Scopes /\ scope \in st.usable

(* resolveInitialSession: a stored scope is adopted only when it is usable. *)
ResolveInitialSession(st, stored) ==
  LET term == IF st = None THEN NoTerm ELSE TermOnly
      facet == IF stored = None THEN None ELSE stored.facet
  IN IF stored # None /\ Ready(st, stored.scope)
     THEN [applied |-> stored.scope, candidate |-> stored.scope, filters |-> stored]
     ELSE [applied |-> None, candidate |-> term, filters |-> Def(term, facet)]

InitialSession ==
  [applied |-> None, candidate |-> None, draft |-> None, edited |-> FALSE,
   touched |-> FALSE, submitted |-> None, succeeded |-> None, empty |-> FALSE]

InitializeScope(s, r) ==
  IF s.candidate # None \/ s.draft # None
  THEN IF s.applied = None /\ ~s.edited /\ s.candidate = NoTerm /\ r.candidate # NoTerm
       THEN LET a == IF s.touched THEN None ELSE r.applied
            IN [s EXCEPT !.applied = a, !.draft = r.filters,
                         !.candidate = IF a # None THEN a ELSE r.candidate]
       ELSE IF s.applied = None /\ r.applied # None /\ ~s.edited /\ ~s.touched
                 /\ s.submitted = None
            THEN [s EXCEPT !.applied = r.applied, !.candidate = r.applied, !.draft = r.filters]
            ELSE s
  ELSE [s EXCEPT !.applied = r.applied, !.candidate = r.candidate, !.draft = r.filters]

ApplyScopeState(s, scope, def) ==
  [s EXCEPT !.applied = scope, !.candidate = scope, !.draft = def, !.edited = TRUE,
            !.submitted = None, !.succeeded = None, !.empty = FALSE, !.touched = TRUE]

Request(c) == [id |-> c.id, def |-> c.def, page |-> c.page]

SetDraft(s, def) == [s EXCEPT !.draft = def, !.edited = TRUE]

RequestMatchesScope(request, scope) == scope # None /\ request.def.scope = scope

(* SUCCEED: only the latest submission, and only of the applied scope. *)
Succeed(s, request, empty) ==
  IF s.submitted # request \/ ~RequestMatchesScope(request, s.applied) THEN s
  ELSE [s EXCEPT !.succeeded = request, !.empty = empty]

Idle(pg) == [pg EXCEPT !.query = "IDLE", !.detail = [kind |-> "CLOSED", scope |-> None]]

Abort(cs, kinds) == {IF c.kind \in kinds THEN [c EXCEPT !.aborted = TRUE] ELSE c : c \in cs}

(* invalidateScopeBoundWork: searchAbort, detailAbort, scopeApplyAbort. *)
InvalidateScopeBoundWork(cs) == Abort(cs, {"search", "detail", "apply"})

SearchAvailable(s, st) == Ready(st, s.applied)

(* The request whose emptiness is diagnosed: COURSES shown, nothing found. *)
DiagnosisRequest(s, pg, st) ==
  IF pg.query = "COURSES" /\ SearchAvailable(s, st) /\ s.empty THEN s.succeeded ELSE None

(* The filter definitions one step wider than a draft (activeRelaxations and  *)
(* relaxValues, with the facet as the only field that can be relaxed).        *)
Relaxations(def) == IF def.facet = None THEN {} ELSE {[def EXCEPT !.facet = None]}
-----------------------------------------------------------------------------
(* The effects React runs after a commit.  Each takes and returns the page *)
(* state as one record w, so that a step and its effects are one action.   *)

(* useEmptyResultDiagnosis: keyed on the request's filters. *)
DiagnosisEffect(w) ==
  LET r == DiagnosisRequest(w.session, w.page, w.status)
      key == IF r = None THEN None ELSE r.def
      stopped == Abort(w.calls, {"probe"})
  IN IF key = w.page.diag.of THEN w
     ELSE IF key = None
     THEN [w EXCEPT !.calls = stopped, !.page.diag = [kind |-> "IDLE", of |-> None]]
     ELSE IF Relaxations(key) = {}
     THEN [w EXCEPT !.calls = stopped, !.page.diag = [kind |-> "READY", of |-> key]]
     ELSE [w EXCEPT !.calls = stopped \cup
                        {[id |-> w.page.serial + 1, kind |-> "probe", aborted |-> FALSE,
                          def |-> key, page |-> 1]},
                    !.page.serial = @ + 1,
                    !.page.diag = [kind |-> "PROBING", of |-> key]]

(* The effect that follows initialFilters: a definition that is not the    *)
(* draft is applied as an external scope.                                  *)
ExternalFiltersEffect(w) ==
  LET next == w.store.initial
  IN IF w.store.seen = next \/ next = None \/ w.status = None THEN w
     ELSE LET s == [w EXCEPT !.store.seen = next]
          IN IF next.scope \notin Scopes \/ next = w.session.draft THEN s
             ELSE IF ~Ready(w.status, next.scope) THEN [s EXCEPT !.page.rejected = TRUE]
             ELSE [s EXCEPT !.session = ApplyScopeState(@, next.scope, next),
                            !.calls = InvalidateScopeBoundWork(@),
                            !.page = Idle([@ EXCEPT !.rejected = FALSE])]

(* NOT_READY is withdrawn when the applied scope becomes searchable. *)
AvailabilityEffect(w) ==
  LET now == SearchAvailable(w.session, w.status)
  IN [w EXCEPT !.page.available = now,
               !.page.query = IF @ = "NOT_READY" /\ now /\ ~w.page.available THEN "IDLE" ELSE @]

Effects(w) ==
  LET i == [w EXCEPT !.session =
              InitializeScope(@, ResolveInitialSession(w.status, w.store.initial))]
  IN DiagnosisEffect(AvailabilityEffect(ExternalFiltersEffect(i)))

World == [session |-> session, page |-> page, calls |-> calls, status |-> status, store |-> store]

Become(w) ==
  LET e == Effects(w)
  IN /\ session' = e.session
     /\ page' = e.page
     /\ calls' = e.calls
     /\ status' = e.status
     /\ store' = e.store
-----------------------------------------------------------------------------
(* Persistence (LocalApplication.tsx and the personal provider's chain). *)

(* persistFilters: a definition that cannot be serialised is not saved, and  *)
(* the timer of the one before it keeps running.                             *)
PersistFilters(st, def) ==
  [st EXCEPT !.edited = TRUE, !.timer = IF Serializable(def) THEN def ELSE @]

HoldsInitialFiltersFor(origin, editing) == editing /\ origin \in {"PEER", "VISIBILITY"}

(* A snapshot lands: the initialFilters memo decides whether the page sees it. *)
Landed(st, value, rev, origin) ==
  LET edited == IF origin = "RELOAD" THEN FALSE ELSE st.edited
      editing == edited \/ st.timer # None
      s == [st EXCEPT !.edited = edited, !.rev = rev]
  IN IF HoldsInitialFiltersFor(origin, editing) THEN s ELSE [s EXCEPT !.initial = value]

Act == acts.left > 0 /\ acts' = [acts EXCEPT !.left = @ - 1]
Outside(what) == acts[what] > 0 /\ acts' = [acts EXCEPT ![what] = @ - 1]
Save == acts.saves > 0 /\ acts' = [acts EXCEPT !.saves = @ - 1]

(* The debounce fires: the write joins the provider's chain. *)
PersistTimer ==
  /\ store.timer # None
  /\ Save
  /\ store' = [store EXCEPT !.timer = None,
                            !.chain = Append(@, [def |-> store.timer, step |-> "send"])]
  /\ UNCHANGED <<session, page, calls, status, server, own>>

(* A write of the settings, a section or a view: it leaves the filters alone *)
(* but its follow-up read returns the whole snapshot.                        *)
OtherWrite ==
  /\ Save
  /\ store' = [store EXCEPT !.chain = Append(@, [def |-> None, step |-> "refresh"])]
  /\ UNCHANGED <<session, page, calls, status, server, own>>

(* The head of the chain saves the filters; the answer is patched in. *)
WriteCommits ==
  /\ store.chain # <<>> /\ Head(store.chain).step # "refresh"
  /\ store.rev = server.rev
  /\ LET def == Head(store.chain).def
     IN /\ server' = [value |-> def, rev |-> server.rev + 1]
        /\ Become([World EXCEPT !.store =
                     Landed([store EXCEPT !.chain[1].step = "refresh"], def, server.rev + 1, "SELF")])
  /\ UNCHANGED <<own, acts>>

(* A revision conflict: the provider reads the snapshot and replays once. *)
WriteConflicts ==
  /\ store.chain # <<>> /\ Head(store.chain).step # "refresh"
  /\ store.rev # server.rev
  /\ Become([World EXCEPT !.store =
               IF Head(store.chain).step = "send"
               THEN Landed([store EXCEPT !.chain[1].step = "replay"], server.value, server.rev, "SELF")
               ELSE [store EXCEPT !.chain = Tail(@)]])
  /\ UNCHANGED <<server, own, acts>>

(* The read that follows a committed write. *)
FollowUpRead ==
  /\ store.chain # <<>> /\ Head(store.chain).step = "refresh"
  /\ Become([World EXCEPT !.store =
               Landed([store EXCEPT !.chain = Tail(@)], server.value, server.rev, "SELF")])
  /\ UNCHANGED <<server, own, acts>>

(* A read for a peer's message, for a window shown again, or by Reload. *)
SnapshotRead(origin) ==
  /\ store.chain = <<>>
  /\ Act
  /\ Become([World EXCEPT !.store = Landed(store, server.value, server.rev, origin)])
  /\ own' = IF origin = "RELOAD" THEN own \cup {server.value} ELSE own
  /\ UNCHANGED server

PeerWrites(def) ==
  /\ Outside("peers")
  /\ def # server.value
  /\ server' = [value |-> def, rev |-> server.rev + 1]
  /\ UNCHANGED <<session, page, calls, status, store, own>>
-----------------------------------------------------------------------------
(* The user's acts. *)

(* FilterPanel's onChange.  A course detail in flight is closed, not aborted. *)
EditFilters(facet) ==
  /\ page.query # "LOADING" /\ SearchAvailable(session, status)
  /\ facet # session.draft.facet
  /\ Act
  /\ LET def == [session.draft EXCEPT !.facet = facet]
     IN /\ Become([World EXCEPT !.session = SetDraft(@, def), !.store = PersistFilters(@, def),
                                !.page = Idle(@)])
        /\ own' = own \cup {def}
  /\ UNCHANGED server

(* changeCandidateScope *)
ChangeCandidateScope(scope) ==
  /\ status # None /\ scope # session.candidate
  /\ Act
  /\ Become([World EXCEPT !.calls = Abort(@, {"apply"}), !.page.validation = "NONE",
                          !.session.candidate = scope, !.session.touched = TRUE])
  /\ UNCHANGED <<server, own>>

(* resolveQueryScopeAction: Apply is offered for a usable scope that is not  *)
(* applied yet, while no validation is pending.                              *)
ApplyOffered ==
  /\ Ready(status, session.candidate)
  /\ session.candidate # session.applied
  /\ page.validation # "PENDING"

Applied(w, def) ==
  [w EXCEPT !.calls = InvalidateScopeBoundWork(@), !.session = ApplyScopeState(@, def.scope, def),
            !.store = PersistFilters(@, def), !.page = Idle([@ EXCEPT !.validation = "NONE"])]

(* applyScope: without target-bound choices at once, else after the server   *)
(* has validated the choices for the new scope.                              *)
ApplyScope ==
  /\ ApplyOffered
  /\ Act
  /\ LET def == Def(session.candidate, session.draft.facet)
     IN IF def.facet = None
        THEN Become(Applied([World EXCEPT !.calls = Abort(@, {"apply"})], def)) /\ own' = own \cup {def}
        ELSE /\ page.serial < MaxCalls
             /\ Become([World EXCEPT !.calls = Abort(@, {"apply"}) \cup
                             {[id |-> page.serial + 1, kind |-> "apply", aborted |-> FALSE,
                               def |-> def, page |-> 0]},
                           !.page.serial = @ + 1, !.page.validation = "PENDING"])
             /\ UNCHANGED own
  /\ UNCHANGED server

(* The validation answers: accepted, some values invalid, or a failure. *)
ValidationAnswers(c, verdict) ==
  /\ c \in calls /\ c.kind = "apply"
  /\ LET w == [World EXCEPT !.calls = @ \ {c}]
     IN IF c.aborted THEN Become(w) /\ UNCHANGED own
        ELSE IF verdict = "ACCEPTED" THEN Become(Applied(w, c.def)) /\ own' = own \cup {c.def}
        ELSE Become([w EXCEPT !.page.validation = verdict]) /\ UNCHANGED own
  /\ UNCHANGED <<server, acts>>

(* runSearch: the request of the draft, of a relaxation of it, or another    *)
(* page of the last successful request.                                      *)
RunSearch(w, def, number) ==
  IF ~SearchAvailable(w.session, w.status) THEN [w EXCEPT !.page.query = "NOT_READY"]
  ELSE LET request == [id |-> w.page.serial + 1, kind |-> "search", aborted |-> FALSE,
                       def |-> def, page |-> number]
           started == [w EXCEPT !.calls = Abort(@, {"search", "detail"}),
                                !.page = [Idle(@) EXCEPT !.serial = @ + 1, !.search = w.page.serial + 1]]
       IN IF ~Serializable(def) THEN [started EXCEPT !.page.query = "VALIDATION_ERROR"]
          ELSE [started EXCEPT !.calls = @ \cup {request}, !.page.query = "LOADING",
                               !.session.submitted = Request(request)]

Submit ==
  /\ page.query # "LOADING" /\ SearchAvailable(session, status)
  /\ page.serial < MaxCalls
  /\ Act
  /\ Become(RunSearch(World, session.draft, 1))
  /\ UNCHANGED <<server, own>>

ResultsShown == page.detail.kind = "CLOSED" /\ session.succeeded # None /\ ~session.empty

(* onPageChange: the results stay on screen, and clickable, while loading. *)
TurnPage(number) ==
  /\ ResultsShown
  /\ page.serial < MaxCalls
  /\ Act
  /\ Become(RunSearch(World, session.succeeded.def, number))
  /\ UNCHANGED <<server, own>>

(* applyRelaxation: offered by the diagnosis, applied to the current draft. *)
Relax(def) ==
  /\ page.query = "COURSES" /\ page.diag.kind = "READY" /\ page.detail.kind = "CLOSED"
  /\ Relaxations(page.diag.of) # {}
  /\ def \in {[session.draft EXCEPT !.facet = None]}
  /\ page.serial < MaxCalls
  /\ Act
  /\ Become(RunSearch([World EXCEPT !.session = SetDraft(@, def), !.store = PersistFilters(@, def)],
                      def, 1))
  /\ own' = own \cup {def}
  /\ UNCHANGED server

MutLandedSearch(c) == TRUE

(* A search may touch the page only while it is the current one. *)
LandedSearch(c) == ~c.aborted /\ page.search = c.id

SearchAnswers(c, outcome) ==
  /\ c \in calls /\ c.kind = "search"
  /\ LET w == [World EXCEPT !.calls = @ \ {c}]
     IN Become(IF ~LandedSearch(c) THEN w
               ELSE IF outcome \in {"items", "nothing"}
               THEN [w EXCEPT !.session = Succeed(@, Request(c), outcome = "nothing"), !.page.query = "COURSES"]
               ELSE [w EXCEPT !.page.query = outcome])
  /\ UNCHANGED <<server, own, acts>>

OpenCourseDetail ==
  /\ ResultsShown
  /\ page.serial < MaxCalls
  /\ Act
  /\ Become([World EXCEPT !.calls = Abort(@, {"detail"}) \cup
                  {[id |-> page.serial + 1, kind |-> "detail", aborted |-> FALSE,
                    def |-> session.succeeded.def, page |-> 0]},
                !.page.serial = @ + 1,
                !.page.detail = [kind |-> "LOADING", scope |-> None]])
  /\ UNCHANGED <<server, own>>

DetailAnswers(c, ok) ==
  /\ c \in calls /\ c.kind = "detail"
  /\ LET w == [World EXCEPT !.calls = @ \ {c}]
     IN Become(IF c.aborted THEN w
               ELSE [w EXCEPT !.page.detail = IF ok THEN [kind |-> "READY", scope |-> c.def.scope]
                                              ELSE [kind |-> "ERROR", scope |-> None]])
  /\ UNCHANGED <<server, own, acts>>

CloseDetail ==
  /\ page.detail.kind = "READY"
  /\ Become([World EXCEPT !.page.detail = [kind |-> "CLOSED", scope |-> None]])
  /\ UNCHANGED <<server, own, acts>>

(* Every probe settled: rows, or nothing to offer after a rate limit. *)
ProbesSettle(c, ok) ==
  /\ c \in calls /\ c.kind = "probe"
  /\ LET w == [World EXCEPT !.calls = @ \ {c}]
     IN Become(IF c.aborted THEN w
               ELSE [w EXCEPT !.page.diag.kind = IF ok THEN "READY" ELSE "UNAVAILABLE"])
  /\ UNCHANGED <<server, own, acts>>

(* A service status arrives. *)
StatusArrives(usable) ==
  /\ status # [usable |-> usable]
  /\ Outside("statuses")
  /\ Become([World EXCEPT !.status = [usable |-> usable]])
  /\ UNCHANGED <<server, own>>
-----------------------------------------------------------------------------
(* The page mounts with a status already known or not. *)
Init ==
  \E stored \in {None} \cup {Def(s, None) : s \in Scopes}, st \in {None, [usable |-> Scopes]} :
    LET w == AvailabilityEffect(
               [session |-> InitializeScope(InitialSession, ResolveInitialSession(st, stored)),
                page |-> [query |-> "IDLE", detail |-> [kind |-> "CLOSED", scope |-> None],
                          validation |-> "NONE", diag |-> [kind |-> "IDLE", of |-> None],
                          serial |-> 0, search |-> 0, available |-> FALSE, rejected |-> FALSE],
                status |-> st])
    IN /\ session = w.session
       /\ page = w.page
       /\ calls = {}
       /\ status = st
       /\ store = [initial |-> stored, seen |-> stored, edited |-> FALSE, timer |-> None,
                   chain |-> <<>>, rev |-> 0]
       /\ server = [value |-> stored, rev |-> 0]
       /\ own = {stored}
       /\ acts = [left |-> MaxActs, saves |-> MaxSaves,
                  peers |-> MaxOutside, statuses |-> MaxOutside]

Definitions == {Def(s, f) : s \in Scopes, f \in Facets \ {"bad"}}

Next ==
  \/ PersistTimer
  \/ OtherWrite
  \/ WriteCommits
  \/ WriteConflicts
  \/ FollowUpRead
  \/ \E o \in {"PEER", "VISIBILITY", "RELOAD"} : SnapshotRead(o)
  \/ \E d \in Definitions : PeerWrites(d)
  \/ \E f \in Facets : EditFilters(f)
  \/ \E s \in Scopes \cup {TermOnly} : ChangeCandidateScope(s)
  \/ ApplyScope
  \/ \E c \in calls, v \in {"ACCEPTED", "INVALID", "ERROR"} : ValidationAnswers(c, v)
  \/ Submit
  \/ \E n \in 1..2 : TurnPage(n)
  \/ \E d \in Definitions : Relax(d)
  \/ \E c \in calls, o \in {"items", "nothing", "NOT_READY", "INVALID_OPTION", "ERROR"} :
       SearchAnswers(c, o)
  \/ OpenCourseDetail
  \/ \E c \in calls, ok \in BOOLEAN : DetailAnswers(c, ok)
  \/ CloseDetail
  \/ \E c \in calls, ok \in BOOLEAN : ProbesSettle(c, ok)
  \/ \E u \in SUBSET Scopes : StatusArrives(u)

SearchSpec == Init /\ [][Next]_vars
-----------------------------------------------------------------------------
(* What the page shows answers what was asked last, of the scope that is    *)
(* applied: the retained results and the course detail are of the applied   *)
(* scope, COURSES is shown only for the latest submission, and an empty     *)
(* result's diagnosis is of the result on screen.  Late answers, page turns *)
(* and scopes applied from outside must not break this.                     *)
ShownAnswersAsked ==
  /\ session.succeeded # None => session.succeeded.def.scope = session.applied
  /\ page.query = "COURSES" => session.succeeded # None /\ session.succeeded = session.submitted
  /\ page.query = "LOADING" => \E c \in calls : c.kind = "search" /\ ~c.aborted /\ c.id = page.search
  /\ page.detail.kind = "READY" => page.detail.scope = session.applied
  /\ page.diag.of # None => page.diag.of = session.succeeded.def

(* Once the user has edited the search draft in this window, the draft is   *)
(* always a definition of theirs or one they reloaded: a peer window's      *)
(* typing never rewrites the panel (LocalApplication.tsx, filtersEdited).   *)
PeerNeverRewrites == store.edited => session.draft \in own
=============================================================================
