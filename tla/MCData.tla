------------------------------- MODULE MCData -------------------------------
(***************************************************************************)
(* Where the data a page shows comes from: the pipelines that turn what    *)
(* Rutgers sends into what is served, the query engine that answers from   *)
(* it, and the calendar.  Each part is an instance of its own; they take   *)
(* turns (module Turns), the catalog pipeline with its own variables.      *)
(***************************************************************************)
EXTENDS CatalogPipeline, Turns

Data == INSTANCE Fixtures
RawCourses == Data!RawCourses

Question == INSTANCE QueryPredicates WITH
    MaxOccurrences <- 2, Minutes <- {0, 1}, Days <- {1, 2},
    about <- v1, subject <- v2, parts <- v3, listed <- v4, wanted <- v5

Engine == INSTANCE QueryEngine WITH
    Home <- <<1, "nb">>, Away <- <<1, "nk">>, MaxPageSize <- 2,
    MaxOccurrences <- 2, Minutes <- {0, 1}, Days <- {1, 2},
    about <- Off, subject <- Off, parts <- Off, listed <- Off, wanted <- Off,
    phase <- v1, catalogs <- v2, hash <- v3, active <- v4, forced <- v5, open <- v6, verdicts <- v7, filters <- v8

Discovery == INSTANCE DiscoveryPipeline WITH
    Pages <- Data!DiscoveryPages, Books <- Data!TargetBooks, Shelf <- Data!BookShelf, MaxFetches <- 2,
    site <- v1, fetching <- v2, stored <- v3, live <- v4, books <- v5, age <- v6, fetches <- v7

\* v1 is the day of the term window or the date walked to, by turn.
Calendar == INSTANCE Calendars WITH
    Days <- Data!QuietDays, Anchors <- Data!YearStarts, MaxDays <- 800,
    day <- v1, date <- v1, count <- v2, weekday <- v3, walked <- v4

Service == INSTANCE QueryService WITH
    Targets <- Data!ServiceTargets, Visible <- {1, 2}, ManualTerms <- {2}, ChosenTerms <- {},
    Catalogs <- Data!ServiceCatalogs, Initially <- Data!ServiceStarts, Requests <- Data!ServiceRequests,
    SavedViews <- {Data!SavedView(1, Data!CoreView)}, Accented <- {7}, MaxPublished <- 4, MaxRevision <- 2,
    db <- v1, bound <- v2, demanded <- v3, view <- v4, current <- v5, call <- v6, moments <- v7

Routes == INSTANCE QueryService WITH
    Targets <- Data!ServiceTargets, Visible <- {1, 2}, ManualTerms <- {2}, ChosenTerms <- {},
    Catalogs <- Data!ServiceCatalogs, Initially <- Data!ServiceStarts, Requests <- Data!ServiceRequests,
    SavedViews <- Data!ServiceViews, Accented <- {7}, MaxPublished <- 3, MaxRevision <- 2,
    db <- v1, bound <- v2, demanded <- v3, view <- v4, current <- v5, call <- v6, moments <- v7

TurnInit ==
    /\ PipelineInit
    /\ \/ part = "pipeline" /\ Off0
       \/ part = "question" /\ Question!QuestionInit /\ Off5
       \/ part = "engine" /\ Engine!EngineInit /\ Off8
       \/ part = "discovery" /\ Discovery!DiscoveryInit /\ Off7
       \/ part = "term" /\ Calendar!WindowInit /\ Off1
       \/ part = "retry" /\ Calendar!WalkInit /\ Off4
       \/ part = "service" /\ Service!ServiceInit /\ Off7
       \/ part = "routes" /\ Routes!ServiceInit /\ Off7

PipelineTurn == part = "pipeline" /\ PipelineNext /\ UNCHANGED <<part, after0>>
QuestionTurn == part = "question" /\ Question!AddOccurrence /\ UNCHANGED <<pipelineVars, part, after5>>
EngineTurn == part = "engine" /\ Engine!EngineNext /\ UNCHANGED <<pipelineVars, part, after8>>
DiscoveryTurn == part = "discovery" /\ Discovery!DiscoveryNext /\ UNCHANGED <<pipelineVars, part, after7>>
TermTurn == part = "term" /\ Calendar!Midnight /\ UNCHANGED <<pipelineVars, part, after1>>
RetryTurn == part = "retry" /\ Calendar!Walk /\ UNCHANGED <<pipelineVars, part, after4>>
ServiceTurn == part = "service" /\ Service!ServiceNext /\ UNCHANGED <<pipelineVars, part, after7>>
RoutesTurn == part = "routes" /\ Routes!RouteNext /\ UNCHANGED <<pipelineVars, part, after7>>

TurnNext ==
    \/ PipelineTurn \/ QuestionTurn \/ EngineTurn \/ DiscoveryTurn \/ TermTurn \/ RetryTurn
    \/ ServiceTurn \/ RoutesTurn

TurnSpec == TurnInit /\ [][TurnNext]_<<pipelineVars, turns>>

-----------------------------------------------------------------------------
(* QueryPredicates: MATCH and NO_MATCH stay so whatever the unknown fields *)
(* turn out to hold, and every answer has an admissible explanation        *)
(* (predicates.rs, availability.rs, evaluation.rs).                        *)
AnswersStand == part = "question" => Question!DecidedIsFinal /\ Question!AnswersExplain

(* QueryEngine: the course list and the section list answer one question,  *)
(* and the prepared engine answers, page after page, what an engine built  *)
(* for the request would (engine.rs, corpus.rs).                           *)
SearchesAgree == part = "engine" => Engine!SearchesAgree /\ Engine!PreparedAgrees

(* QueryService: an answer put together from several reads is the answer   *)
(* of one moment, and the one the prepared service gives from it; a route  *)
(* whose targets are ready is served, what a page is told to wait for has  *)
(* been demanded, and a saved view becomes the current filters only as it  *)
(* was reviewed (query_service.rs, prepared_serving.rs, product_routes.rs, *)
(* personal.rs).                                                           *)
ServicesAgree ==
    /\ part = "service" => Service!OneMoment
    /\ part = "routes" => Routes!RoutesServe /\ Routes!AppliedWasReviewed


(* DiscoveryPipeline: a restart restores the targets that are being        *)
(* refreshed, what the service offers is refreshed, and no label is shown  *)
(* that a variant contradicts (selector.rs, discovery_runtime.rs,          *)
(* discovery.rs).                                                          *)
DiscoveryFaithful ==
    part = "discovery" =>
      Discovery!RestartKeepsTargets /\ Discovery!OfferedIsRefreshed /\ Discovery!LabelsUnanimous

(* Calendars: the term window only moves forward, by whole                 *)
(* terms that follow one another, and the date Rutgers asks a retry for is *)
(* honoured to the second, in leap years too (term_window.rs,              *)
(* open_sections.rs).                                                      *)
CalendarExact == [][(part = "term" => Calendar!WindowAdvances) /\ (part = "retry" => Calendar!RetryDateExact')]_<<pipelineVars, turns>>
=============================================================================
