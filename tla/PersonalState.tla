---------------------------- MODULE PersonalState ----------------------------
(***************************************************************************)
(* The local target's personal state: settings, selection, current filters *)
(* and saved views in SQLite (bcsp-local-user-state store.rs,              *)
(* saved_store.rs) behind the HTTP surface that reads, checks and commits  *)
(* them for the pages (bcsp-local-runtime personal.rs).                    *)
(*                                                                         *)
(* A page works from the snapshot it last read. Every write is one         *)
(* IMMEDIATE transaction; put_selection and apply_saved_view first read on *)
(* the other connection. A full reset is prepared, then confirmed.         *)
(***************************************************************************)
EXTENDS Integers, FiniteSets, FiniteSetsExt, Functions

CONSTANTS
    Clients,      \* pages
    Names,        \* folded names of saved views
    Filters,      \* filter requests
    Recent, Past, \* sections inside and outside the term window
    MaxSelected,  \* MAX_SELECTED_SECTIONS
    MaxWrites     \* bound: transactions of one run

None == "none"
NoCall == [op |-> None]
NoReset == [state |-> 0]
Custom == [view |-> 0, revision |-> 0]
NoFilters == [revision |-> 0, has |-> FALSE, association |-> Custom, filters |-> None]

VARIABLES
    db,        \* the tables
    page,      \* page[c]: the snapshot client c works from
    pending,   \* pending_reset: the token and its state revision, or None
    call,      \* call[c]: a request between its read and its transaction
    serving,   \* filters the serving generation accepts
    selected,  \* sections selected since the last reset
    writes     \* transactions so far

personalVars == <<db, page, pending, call, serving, selected, writes>>

(* A database of an earlier term may hold selections that have left the    *)
(* window.                                                                 *)
Empty(revision, nextId) ==
    [state |-> revision, settings |-> 0, selection |-> {}, current |-> NoFilters,
     views |-> <<>>, nextId |-> nextId]

PersonalInit ==
    /\ \E old \in SUBSET Past :
         Cardinality(old) <= MaxSelected /\ db = [Empty(1, 1) EXCEPT !.selection = old]
    /\ page = [c \in Clients |-> db] /\ pending = NoReset
    /\ call = [c \in Clients |-> NoCall] /\ serving = Filters
    /\ selected = db.selection /\ writes = 0

(* bootstrap, saved_views: one consistent read.                            *)
Refresh(c) ==
    /\ call[c] = NoCall /\ page' = [page EXCEPT ![c] = db]
    /\ UNCHANGED <<db, pending, call, serving, selected, writes>>

-----------------------------------------------------------------------------
StateCurrent(c) == page[c].state = db.state                 \* require_user_state_revision
FiltersCurrent(c) == page[c].current.revision = db.current.revision
ViewCurrent(c, v) ==                                        \* require_saved_view
    v \in DOMAIN db.views /\ v \in DOMAIN page[c].views
        /\ db.views[v].revision = page[c].views[v].revision
NameFree(name, except) ==                                   \* require_name_available
    \A v \in DOMAIN db.views \ except : db.views[v].name # name

Commit(next) ==
    /\ writes < MaxWrites /\ writes' = writes + 1
    /\ db' = next

(* write_current_filters: the next revision, a value or none.              *)
Written(has, association, filters) ==
    [revision |-> db.current.revision + 1, has |-> has, association |-> association,
     filters |-> filters]
Applied(v, revision) == [view |-> v, revision |-> revision]
WithView(v, view) == [u \in DOMAIN db.views \cup {v} |-> IF u = v THEN view ELSE db.views[u]]

(* refresh_association_revision.                                           *)
Refreshed(v, revision) ==
    IF db.current.association.view # v THEN db.current
    ELSE [db.current EXCEPT !.revision = @ + 1, !.association = Applied(v, revision)]

(* detach_association.                                                     *)
Detached(gone) ==
    IF db.current.association.view \notin gone THEN db.current
    ELSE [db.current EXCEPT !.revision = @ + 1, !.association = Custom]

CreateView(c, name, f) ==
    /\ StateCurrent(c) /\ FiltersCurrent(c) /\ NameFree(name, {})
    /\ Commit([db EXCEPT !.views = WithView(db.nextId, [name |-> name, filters |-> f, revision |-> 1]),
                         !.current = Written(TRUE, Applied(db.nextId, 1), f),
                         !.nextId = @ + 1])

RenameView(c, v, name) ==
    /\ StateCurrent(c) /\ FiltersCurrent(c) /\ ViewCurrent(c, v) /\ NameFree(name, {v})
    /\ LET next == db.views[v].revision + 1 IN
       Commit([db EXCEPT !.views[v].name = name, !.views[v].revision = next,
                         !.current = Refreshed(v, next)])

UpdateView(c, v, f) ==
    /\ StateCurrent(c) /\ FiltersCurrent(c) /\ ViewCurrent(c, v)
    /\ LET next == db.views[v].revision + 1 IN
       Commit([db EXCEPT !.views[v].filters = f, !.views[v].revision = next,
                         !.current = Written(TRUE, Applied(v, next), f)])

(* The copy keeps the raw snapshot and does not touch the current filters. *)
DuplicateView(c, v, name) ==
    /\ StateCurrent(c) /\ ViewCurrent(c, v) /\ NameFree(name, {})
    /\ Commit([db EXCEPT !.views = WithView(db.nextId, [db.views[v] EXCEPT !.name = name,
                                                                           !.revision = 1]),
                         !.nextId = @ + 1])

DeleteView(c, v) ==
    /\ StateCurrent(c) /\ FiltersCurrent(c) /\ ViewCurrent(c, v)
    /\ Commit([db EXCEPT !.views = Restrict(@, DOMAIN @ \ {v}), !.current = Detached({v})])

DeleteAllViews(c) ==
    /\ StateCurrent(c) /\ FiltersCurrent(c)
    /\ Commit([db EXCEPT !.views = <<>>, !.current = Detached(DOMAIN db.views)])

ResetCurrentFilters(c) ==
    /\ StateCurrent(c) /\ FiltersCurrent(c)
    /\ Commit([db EXCEPT !.current = Written(FALSE, Custom, None)])

ReplaceCurrentFilters(c, f) ==
    /\ StateCurrent(c) /\ FiltersCurrent(c)
    /\ Commit([db EXCEPT !.current = Written(TRUE, @.association, f)])

PutSettings(c) ==
    /\ StateCurrent(c) /\ page[c].settings = db.settings
    /\ Commit([db EXCEPT !.settings = @ + 1])

(* A request that is one transaction; a failed check leaves no trace.      *)
Mutate(c) ==
    /\ call[c] = NoCall
    /\ \/ \E name \in Names, f \in Filters : CreateView(c, name, f)
       \/ \E v \in DOMAIN db.views :
            \/ \E name \in Names : RenameView(c, v, name) \/ DuplicateView(c, v, name)
            \/ \E f \in Filters : UpdateView(c, v, f)
            \/ DeleteView(c, v)
       \/ DeleteAllViews(c) \/ ResetCurrentFilters(c) \/ PutSettings(c)
       \/ \E f \in Filters : ReplaceCurrentFilters(c, f)
    /\ UNCHANGED <<page, pending, call, serving, selected>>

-----------------------------------------------------------------------------
(* put_selection: what is not selected yet must be in the window; the      *)
(* answer to "selected yet" comes from an earlier read.                    *)
CheckSelection(c, sections) ==
    /\ call[c] = NoCall /\ Cardinality(sections) <= MaxSelected
    /\ sections \cap Past \subseteq db.selection
    /\ call' = [call EXCEPT ![c] = [op |-> "select", sections |-> sections]]
    /\ UNCHANGED <<db, page, pending, serving, selected, writes>>

Conflict(c) ==
    /\ call[c] # NoCall /\ call' = [call EXCEPT ![c] = NoCall]
    /\ UNCHANGED <<db, page, pending, serving, selected, writes>>

ReplaceSelection(c) ==
    /\ call[c].op = "select" /\ StateCurrent(c)
    /\ Commit([db EXCEPT !.selection = call[c].sections])
    /\ selected' = selected \cup call[c].sections
    /\ call' = [call EXCEPT ![c] = NoCall]
    /\ UNCHANGED <<page, pending, serving>>

(* apply_saved_view: bind the serving generation, judge the view it would  *)
(* apply when the page is current, then commit.                            *)
BindApply(c, v) ==
    /\ call[c] = NoCall /\ v \in DOMAIN page[c].views
    /\ (StateCurrent(c) /\ FiltersCurrent(c) /\ ViewCurrent(c, v)) => db.views[v].filters \in serving
    /\ call' = [call EXCEPT ![c] = [op |-> "apply", view |-> v, bound |-> serving]]
    /\ UNCHANGED <<db, page, pending, serving, selected, writes>>

ApplyView(c) ==
    LET v == call[c].view IN
    /\ call[c].op = "apply"
    /\ StateCurrent(c) /\ FiltersCurrent(c) /\ ViewCurrent(c, v)
    /\ Commit([db EXCEPT !.current = Written(TRUE, Applied(v, db.views[v].revision),
                                              db.views[v].filters)])
    /\ call' = [call EXCEPT ![c] = NoCall]
    /\ UNCHANGED <<page, pending, serving, selected>>

-----------------------------------------------------------------------------
(* prepare_local_user_data_reset, confirm_local_user_data_reset. The token *)
(* is taken when it matches and dropped when it has expired.               *)
PrepareReset(c) ==
    /\ call[c] = NoCall /\ StateCurrent(c)
    /\ pending' = [state |-> db.state]
    /\ UNCHANGED <<db, page, call, serving, selected, writes>>

ExpireReset ==
    /\ pending # NoReset /\ pending' = NoReset
    /\ UNCHANGED <<db, page, call, serving, selected, writes>>

ConfirmReset ==
    /\ pending # NoReset /\ pending' = NoReset
    /\ IF pending.state = db.state
       THEN Commit(Empty(db.state + 1, db.nextId)) /\ selected' = {}
       ELSE UNCHANGED <<db, selected, writes>>
    /\ UNCHANGED <<page, call, serving>>

(* Another generation of the catalog is served.                            *)
ChangeServing(accepted) ==
    /\ serving # accepted /\ serving' = accepted
    /\ UNCHANGED <<db, page, pending, call, selected, writes>>

PersonalNext ==
    \/ \E c \in Clients :
         \/ Refresh(c) \/ Mutate(c) \/ Conflict(c) \/ ReplaceSelection(c) \/ ApplyView(c)
         \/ \E sections \in SUBSET (Recent \cup Past) : CheckSelection(c, sections)
         \/ \E v \in DOMAIN page[c].views : BindApply(c, v)
         \/ PrepareReset(c)
    \/ ExpireReset \/ ConfirmReset
    \/ \E accepted \in {Filters, {}} : ChangeServing(accepted)

PersonalSpec == PersonalInit /\ [][PersonalNext]_personalVars

-----------------------------------------------------------------------------
(* Filters that say they are a saved view's name one that exists, at the   *)
(* revision it is at, through every rename, update and delete; and no two  *)
(* views share a name (saved_store.rs refresh_association_revision,        *)
(* detach_association, require_name_available).                            *)
AssociationLive ==
    /\ db.current.association # Custom =>
         /\ db.current.has /\ db.current.association.view \in DOMAIN db.views
         /\ db.views[db.current.association.view].revision = db.current.association.revision
    /\ \A u, v \in DOMAIN db.views : db.views[u].name = db.views[v].name => u = v

(* A page's write replaces only what the page has seen: filters change     *)
(* from the value in its snapshot, a view from the version in its          *)
(* snapshot, though revisions start over after a reset (store.rs,          *)
(* saved_store.rs).                                                        *)
SawWhatChanged(c) ==
    /\ db'.current # db.current => db.current = page[c].current
    /\ \A v \in DOMAIN db.views :
         (v \notin DOMAIN db'.views \/ (v \in DOMAIN db'.views /\ db'.views[v] # db.views[v]))
             => (v \in DOMAIN page[c].views /\ page[c].views[v] = db.views[v])
             \/ db'.views = <<>>
WriteInformed ==
    db' # db => \/ db'.state > db.state
                \/ \E c \in Clients : SawWhatChanged(c) /\ page[c].state = db.state

NoLostUpdate == [][WriteInformed]_personalVars

WriteChecked ==
    /\ \A s \in Past : (s \in db'.selection /\ db'.state = db.state) => s \in selected
    /\ \A c \in Clients :
         (call[c].op = "apply" /\ call'[c] # call[c] /\ db' # db)
             => db'.current.filters \in call[c].bound

(* What a request checked before its transaction holds when that commits:  *)
(* a section outside the window is selected only if it has been since the  *)
(* last reset, and a view becomes current only if the generation the       *)
(* request bound accepts it (personal.rs put_selection, apply_saved_view). *)
ChecksStillHold == [][WriteChecked]_personalVars
=============================================================================
