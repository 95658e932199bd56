----------------------------- MODULE QueryService -----------------------------
(***************************************************************************)
(* The query services of bcsp-application (query_service.rs): the same     *)
(* questions answered from the operational database, one transaction after *)
(* another while refreshes publish new catalogs, and from the immutable    *)
(* generation a request is bound to (prepared_serving.rs), with the routes *)
(* in front of it (product_routes.rs) and the review of saved views that   *)
(* asks it (bcsp-local-runtime personal.rs).  The searches themselves are  *)
(* QueryEngine's.                                                          *)
(*                                                                         *)
(* A text is [word, upper]: words are numbers, compared as their texts     *)
(* are, and as long as the number; those of Accented have a letter outside *)
(* ASCII.  A query is the set of words it is part of.                      *)
(***************************************************************************)
EXTENDS SequencesExt

CONSTANTS
    Targets,         \* <<term, campus>>
    Visible,         \* terms of the term window
    ManualTerms,     \* those that are loaded only when chosen
    ChosenTerms,     \* the manual terms that are chosen
    Catalogs,        \* what a published catalog may hold, by name
    Initially,       \* the databases a run begins with
    Requests,        \* what is asked
    Accented,        \* words with a letter outside ASCII
    SavedViews,      \* the saved view to begin with
    MaxPublished,    \* bound: publications of one run
    MaxRevision      \* bound: revisions of the saved view

VARIABLES
    db,         \* db.of[t]: the published catalog, [version, ready, name]; db.discovered
    bound,      \* the generation the routes bind
    demanded,   \* targets whose refresh a route has asked for
    view,       \* the saved view: [revision, schema, raw, filters]
    current,    \* the current filters, if set: [filters, reviewed], by which generation if any
    call,       \* the request in hand; a behaviour is one request
    moments     \* every db since it began

serviceVars == <<db, bound, demanded, view, current, call, moments>>

-----------------------------------------------------------------------------
(* Texts.                                                                  *)
Absent == [word |-> 0, upper |-> FALSE]
Lower(text) == [text EXCEPT !.upper = FALSE]
AsciiLower(text) == IF text.word \in Accented THEN text ELSE Lower(text)
AsciiUpper(text) == IF text.word \in Accented THEN text ELSE [text EXCEPT !.upper = TRUE]

(* query_matches folds case as Unicode does, SQLite's lower() only ASCII:  *)
(* a query with an upper-case letter outside ASCII is part of no term.     *)
QueryMatches(text, query) == text.word \in query.words
TermMatches(term, query) == ~query.wide /\ term.word \in query.words

CourseNumberBand(number) == [number EXCEPT !.word = (@ \div 100) * 100]

-----------------------------------------------------------------------------
(* Options: a map from the lower-case value to [value, label], a label     *)
(* being the texts it shows.                                               *)
Option(value, label) == [value |-> value, label |-> label]
Length(label) == SumFunction([i \in DOMAIN label |-> label[i].word])

InsertOption(options, option) ==
    LET key == Lower(option.value)
    IN IF key \in DOMAIN options
       THEN [options EXCEPT ![key].label = IF Length(option.label) > Length(@) THEN option.label ELSE @]
       ELSE options @@ (key :> option)

Collect(options) == FoldLeft(InsertOption, <<>>, options)

(* The elements of a set, from the first to the last.                      *)
Sorted(set, before(_, _)) ==
    [i \in 1..Cardinality(set) |-> CHOOSE x \in set : Cardinality({y \in set : before(y, x)}) = i - 1]

(* sort_prepared_options; the bands sort as numbers.                       *)
Place(text) == 2 * text.word + (IF text.upper THEN 0 ELSE 1)
LabelPlace(label) == 1000 * label[1].word + (IF Len(label) = 1 THEN 0 ELSE label[2].word)
Before(a, b) ==
    \/ LabelPlace(a.label) < LabelPlace(b.label)
    \/ LabelPlace(a.label) = LabelPlace(b.label) /\ Place(a.value) < Place(b.value)
SortOptions(options) == Sorted(Range(options), Before)
SortTexts(texts) == Sorted(texts, LAMBDA a, b : Place(a) < Place(b))

(* collect_catalog_options: what one row of a catalog offers. A blank or   *)
(* unknown fact is Absent.                                                 *)
CodedFields == {"location", "exam"}
CodedOption(row) ==
    IF row.code = Absent THEN Option(AsciiUpper(row.name), <<row.name>>)
    ELSE Option(AsciiUpper(row.code),
                IF row.name = Absent THEN <<AsciiUpper(row.code)>> ELSE <<AsciiUpper(row.code), row.name>>)
RowOption(field, row) ==
    CASE field = "band" -> Option(CourseNumberBand(row.code), <<CourseNumberBand(row.code)>>)
      [] field = "level" -> Option(AsciiUpper(row.code), <<AsciiUpper(row.code)>>)
      [] field = "instructor" -> Option(row.code, <<row.code>>)
      [] field \in CodedFields -> CodedOption(row)
Offers(field, row, query) ==
    /\ row.code # Absent \/ (field \in CodedFields /\ row.name # Absent)
    /\ field = "instructor" => QueryMatches(row.code, query)
AnyText == [words |-> Nat, wide |-> FALSE]
CatalogOptions(content, field, query) ==
    LET offering == SelectSeq(content.rows[field], LAMBDA row : Offers(field, row, query))
    IN [i \in DOMAIN offering |-> RowOption(field, offering[i])]

Plain(texts) == [i \in DOMAIN texts |-> Option(texts[i], <<texts[i]>>)]
AtMost(limit, seq) == SubSeq(seq, 1, IF Len(seq) < limit THEN Len(seq) ELSE limit)

(* Every band is returned, at most `limit` of the others.                  *)
Bounded(r, options) ==
    IF r.field = "band" THEN [options |-> options, truncated |-> FALSE]
    ELSE [options |-> AtMost(r.limit, options), truncated |-> Len(options) > r.limit]

-----------------------------------------------------------------------------
(* A prepared generation: the dictionaries of its targets.                 *)
KeywordOptions(content) ==
    Plain(SortTexts(content.terms)) \o Plain(SortTexts(content.groups))
DictionaryOptions(content, field) ==
    SortOptions(Collect(IF field = "keyword" THEN KeywordOptions(content)
                        ELSE CatalogOptions(content, field, AnyText)))

NormalizeDynamicValue(field, value) ==
    CASE field = "subject" -> value
      [] field = "core" -> AsciiUpper(value)
      [] field = "keyword" -> AsciiLower(value)
      [] OTHER -> Lower(value)

DynamicValues(content, field) ==
    {NormalizeDynamicValue(field, v) :
       v \in CASE field = "keyword" -> content.terms \cup content.groups
               [] field = "subject" -> content.subjects
               [] field = "core" -> content.cores
               [] OTHER -> {o.value : o \in Range(DictionaryOptions(content, field))}}

Shown(content, r, option) ==
    CASE r.field = "keyword" ->
           \/ option.value \in content.terms /\ TermMatches(option.value, r.query)
           \/ option.value \in content.groups /\ QueryMatches(option.value, r.query)
      [] r.field = "instructor" -> QueryMatches(option.value, r.query)
      [] OTHER -> TRUE

PreparedFilterOptions(contents, r) ==
    SortOptions(Collect(FlattenSeq([i \in DOMAIN contents |->
        SelectSeq(DictionaryOptions(contents[i], r.field), LAMBDA o : Shown(contents[i], r, o))])))

PreparedInvalid(contents, r) ==
    {s \in r.selected :
       \A i \in DOMAIN contents : NormalizeDynamicValue(s[1], s[2]) \notin DynamicValues(contents[i], s[1])}

(* A full-text search: the variants whose document has every word.         *)
Hits(content, r) == {d.variant : d \in {d \in content.documents : r.text \subseteq d.words}}

-----------------------------------------------------------------------------
(* What is asked of both services.                                         *)
Failed(code) == [error |-> code]
SortTargets(targets) == Sorted(targets, LAMBDA a, b : a[1] < b[1] \/ (a[1] = b[1] /\ a[2] < b[2]))
CampusTargets(r) == SortTargets({<<r.term, c>> : c \in r.campuses})

(* canonical_targets, validate_search_targets, validate_detail_targets.    *)
TargetError(r) ==
    CASE r.targets = <<>> -> "EmptyTargetSet"
      [] Cardinality(Range(r.targets)) # Len(r.targets) -> "DuplicateTarget"
      [] r.kind = "options" /\ SortTargets(Range(r.targets)) # CampusTargets(r) -> "FilterCampusSetMismatch"
      [] r.kind \in {"search", "validation"} /\ \E t \in Range(r.targets) : t[1] # r.term -> "FilterTermMismatch"
      [] r.kind \in {"search", "validation"} /\ r.campuses # {} /\ {t[2] : t \in Range(r.targets)} # r.campuses
           -> "FilterCampusSetMismatch"
      [] r.kind = "detail" /\ r.key \notin Range(r.targets) -> "DetailTargetMismatch"
      [] OTHER -> "none"

Versions(generation, targets) == [i \in DOMAIN targets |-> <<targets[i], generation.of[targets[i]].version>>]
ContentsOf(generation, targets) == [i \in DOMAIN targets |-> Catalogs[generation.of[targets[i]].name]]

Detail(r, contents, answer) ==
    IF \E i \in DOMAIN contents : r.section \in contents[i].sections THEN answer ELSE Failed("NotFound")

(* PreparedQueryService: every read is of the one generation.              *)
PreparedAnswer(r, generation) ==
    LET targets == SortTargets(Range(r.targets))
        contents == ContentsOf(generation, targets)
        answer == [versions |-> Versions(generation, targets)]
    IN CASE TargetError(r) # "none" -> Failed(TargetError(r))
         [] \E t \in Range(targets) : ~generation.of[t].ready -> Failed("TargetNotPrepared")
         [] r.kind = "options" -> answer @@ Bounded(r, PreparedFilterOptions(contents, r))
         [] r.kind = "validation" -> answer @@ [invalid |-> PreparedInvalid(contents, r)]
         [] r.kind = "search" /\ PreparedInvalid(contents, r) # {} -> Failed("InvalidFilterOption")
         [] r.kind = "search" -> answer @@ [hits |-> [i \in DOMAIN contents |-> Hits(contents[i], r)]]
         [] r.kind = "detail" -> Detail(r, contents, answer)

-----------------------------------------------------------------------------
(* SharedQueryService: a request is a sequence of reads, each of one       *)
(* transaction; refreshes may publish between any two. call.todo holds the *)
(* reads still to come, call.loaded the catalogs read.                     *)
Idle == [at |-> "idle"]
Answered(r, answer) == [at |-> "answered", request |-> r, answer |-> answer]
Each(read, targets) == [i \in DOMAIN targets |-> <<read, targets[i]>>]
Indexed(read, targets) == [i \in DOMAIN targets |-> <<read, i>>]

(* SharedRuntimeContext asks, before the service is, that every catalog be *)
(* published, and reads the Open evidence of every target.                 *)
Ask(r) ==
    /\ call = Idle
    /\ call' = [at |-> "reading", request |-> r, loaded |-> <<>>, evidence |-> {}, found |-> {},
                terms |-> <<>>, hits |-> <<>>,
                todo |-> IF r.kind \in {"search", "detail"}
                         THEN Each("published", r.targets) \o Each("evidence", r.targets) \o <<<<"begin">>>>
                         ELSE <<<<"begin">>>>]
    /\ moments' = {db}
    /\ UNCHANGED <<db, bound, demanded, view, current>>

Reading(read) == call.at = "reading" /\ call.todo # <<>> /\ Head(call.todo)[1] = read
Fail(code) == call' = Answered(call.request, Failed(code))
Goes(progress) == call' = progress @@ [call EXCEPT !.todo = Tail(@)]
StorageUnchanged == UNCHANGED <<db, bound, demanded, view, current, moments>>
Argument == Head(call.todo)[2]

EnsurePublished ==
    /\ Reading("published")
    /\ IF db.of[Argument].version = 0 THEN Fail("TargetNotPublished") ELSE Goes(<<>>)
    /\ StorageUnchanged

ReadEvidence ==
    /\ Reading("evidence")
    /\ Goes([evidence |-> call.evidence \cup Catalogs[db.of[Argument].name].sections])
    /\ StorageUnchanged

(* The reads the service makes of its targets, in order.                   *)
Plan(r, targets) ==
    LET keywords == SetToSeq({s[2] : s \in {s \in r.selected : s[1] = "keyword"}})
        lookups == FlattenSeq([k \in DOMAIN keywords |->
                     [i \in DOMAIN targets |-> <<"exists", i, keywords[k]>>]])
    IN Each("load", targets)
       \o (IF r.kind \in {"search", "validation"} THEN lookups \o <<<<"check">>>> ELSE <<>>)
       \o (IF r.kind = "search" /\ r.text # {} THEN Indexed("search", targets) ELSE <<>>)
       \o (IF r.kind = "options" /\ r.field = "keyword" THEN Indexed("terms", targets) ELSE <<>>)
       \o Indexed("verify", targets)

Begin ==
    /\ Reading("begin")
    /\ IF TargetError(call.request) # "none" THEN Fail(TargetError(call.request))
       ELSE call' = [call EXCEPT !.todo = Plan(call.request, SortTargets(Range(call.request.targets)))]
    /\ StorageUnchanged

Load ==
    /\ Reading("load")
    /\ LET published == db.of[Argument]
       IN IF published.version = 0 THEN Fail("TargetNotPublished")
          ELSE Goes([loaded |-> Append(call.loaded, [target |-> Argument, version |-> published.version,
                                                     content |-> Catalogs[published.name]])])
    /\ StorageUnchanged

(* A read of the full-text tables names the version it expects.            *)
AtVersion(i) == db.of[call.loaded[i].target].version = call.loaded[i].version
ReadAt(i, progress) == IF AtVersion(i) THEN Goes(progress) ELSE Fail("PublicationChanged")

KeywordExists ==
    /\ Reading("exists")
    /\ LET i == Argument
           keyword == Head(call.todo)[3]
           content == call.loaded[i].content
       IN IF keyword \in call.found THEN Goes(<<>>)
          ELSE IF \E g \in content.groups : AsciiLower(g) = AsciiLower(keyword)
               THEN Goes([found |-> call.found \cup {keyword}])
               ELSE ReadAt(i, IF \E term \in content.terms : AsciiLower(term) = AsciiLower(keyword)
                              THEN [found |-> call.found \cup {keyword}] ELSE <<>>)
    /\ StorageUnchanged

(* collect_invalid_dynamic_filter_values_with, over the loaded catalogs.   *)
Loaded == [i \in DOMAIN call.loaded |-> call.loaded[i].content]
SharedValid(contents, found, s) ==
    LET all(f(_)) == UNION {f(contents[i]) : i \in DOMAIN contents}
    IN CASE s[1] = "keyword" -> s[2] \in found
         [] s[1] = "subject" -> s[2] \in all(LAMBDA c : c.subjects)
         [] s[1] = "core" -> s[2] \in all(LAMBDA c : {AsciiUpper(v) : v \in c.cores})
         [] OTHER -> Lower(s[2]) \in all(LAMBDA c : DOMAIN Collect(CatalogOptions(c, s[1], AnyText)))
SharedInvalid == {s \in call.request.selected : ~SharedValid(Loaded, call.found, s)}

CheckDynamic ==
    /\ Reading("check")
    /\ IF call.request.kind = "search" /\ SharedInvalid # {} THEN Fail("InvalidFilterOption") ELSE Goes(<<>>)
    /\ StorageUnchanged

SearchText ==
    /\ Reading("search")
    /\ ReadAt(Argument, [hits |-> Append(call.hits, Hits(call.loaded[Argument].content, call.request))])
    /\ StorageUnchanged

ReadTerms ==
    /\ Reading("terms")
    /\ LET matching == {t \in call.loaded[Argument].content.terms : TermMatches(t, call.request.query)}
       IN ReadAt(Argument, [terms |-> Append(call.terms, AtMost(call.request.limit + 1, SortTexts(matching)))])
    /\ StorageUnchanged

MutVerify ==
    /\ Reading("verify")
    /\ IF Argument < Len(call.loaded) \/ AtVersion(Argument) THEN Goes(<<>>) ELSE Fail("PublicationChanged")
    /\ StorageUnchanged
Verify ==
    /\ Reading("verify")
    /\ ReadAt(Argument, <<>>)
    /\ StorageUnchanged

SharedFilterOptions(r, contents, terms) ==
    LET keywords(i) == Plain(terms[i])
                       \o Plain(SortTexts({g \in contents[i].groups : QueryMatches(g, r.query)}))
        offered(i) == IF r.field = "keyword" THEN keywords(i) ELSE CatalogOptions(contents[i], r.field, r.query)
    IN SortOptions(Collect(FlattenSeq([i \in DOMAIN contents |-> offered(i)])))

SharedAnswer ==
    LET r == call.request
        answer == [versions |-> [i \in DOMAIN call.loaded |-> <<call.loaded[i].target, call.loaded[i].version>>]]
    IN CASE r.kind = "options" -> answer @@ Bounded(r, SharedFilterOptions(r, Loaded, call.terms))
         [] r.kind = "validation" -> answer @@ [invalid |-> SharedInvalid]
         [] r.kind = "search" -> answer @@ [hits |-> IF r.text = {} THEN [i \in DOMAIN Loaded |-> Hits(Loaded[i], r)]
                                                     ELSE call.hits]
         [] r.kind = "detail" -> Detail(r, Loaded, answer)

(* The engine refuses evidence of a section that no catalog has.           *)
(* QueryEngine::try_new_from_refs: evidence is of a section of the corpus. *)
EvidenceFits == call.evidence \subseteq UNION {Loaded[i].sections : i \in DOMAIN Loaded}
Finish ==
    /\ call.at = "reading"
    /\ call.todo = <<>>
    /\ IF EvidenceFits
       THEN call' = Answered(call.request, SharedAnswer)
       ELSE Fail("ForeignOpenEvidence")
    /\ StorageUnchanged

-----------------------------------------------------------------------------
(* The routes (SharedProductRoutes): bind a generation once, select and    *)
(* validate the targets, ask for their refresh, then require them ready.   *)
DiscoveredOf(term, generation) == {t \in generation.discovered : t[1] = term}
RouteTargets(r, generation) ==
    CASE r.kind \in {"search", "validation"} /\ r.campuses = {} -> DiscoveredOf(r.term, generation)
      [] r.kind \in {"detail", "open"} -> {r.key}
      [] OTHER -> Range(CampusTargets(r))
ValidTargets(targets, generation) ==
    /\ targets # {}
    /\ \A t \in targets : t[1] \in Visible /\ (t \in generation.discovered \/ generation.of[t].ready)
Eligible(targets, generation) ==
    {t \in targets : t[1] \notin ManualTerms \/ t[1] \in ChosenTerms \/ generation.of[t].ready}
NotReady(targets, generation) == {t \in targets : ~generation.of[t].ready}

OpenAnswer(r, generation) ==
    IF r.section \in Catalogs[generation.of[r.key].name].sections
    THEN [versions |-> Versions(generation, <<r.key>>)] ELSE Failed("NotFound")

RouteAnswer(r, generation) ==
    LET targets == RouteTargets(r, generation)
    IN CASE r.kind \in {"search", "validation"} /\ targets = {} -> Failed("CatalogUnavailable")
         [] r.kind = "status" /\ targets = {} -> [status |-> {}]
         [] ~ValidTargets(targets, generation) -> Failed("InvalidTarget")
         [] r.kind = "status" -> [status |-> targets]
         [] NotReady(targets, generation) # {} ->
              [error |-> "SearchDataNotReady", waits |-> NotReady(targets, generation)]
         [] r.kind = "open" -> OpenAnswer(r, generation)
         [] OTHER -> PreparedAnswer([r EXCEPT !.targets = SortTargets(targets)], generation)

(* A route asks for the refresh of its targets before it looks at their    *)
(* readiness, so that a page that is told to wait is waiting for something. *)
Serve(r, generation) ==
    LET targets == RouteTargets(r, generation)
    IN /\ call = Idle
       /\ call' = [Answered(r, RouteAnswer(r, generation)) EXCEPT !.at = "served"]
       /\ demanded' = IF ValidTargets(targets, generation)
                      THEN demanded \cup Eligible(targets, generation) ELSE demanded
       /\ UNCHANGED <<db, bound, view, current, moments>>

(* Product queries read the bound generation; Open status and service      *)
(* status read the database, under its lock.                               *)
StorageRoutes == {"open", "status"}
ServePrepared(r) == r.kind \notin StorageRoutes /\ Serve(r, bound)
ServeStorage(r) == r.kind \in StorageRoutes /\ Serve(r, db)

-----------------------------------------------------------------------------
(* Reviewing a saved view against the bound generation before it becomes   *)
(* the current filters.                                                    *)
ReviewTargets(r, generation) ==
    IF r.campuses = {} THEN DiscoveredOf(r.term, generation) ELSE Range(CampusTargets(r))
ReviewReasons(generation, r) ==
    LET targets == ReviewTargets(r, generation)
        answer == PreparedAnswer([r EXCEPT !.kind = "validation", !.targets = SortTargets(targets)], generation)
    IN CASE r.term \notin Visible -> {"term"}
         [] targets = {} \/ \E t \in targets : t \notin generation.discovered \/ ~generation.of[t].ready -> {"campus"}
         [] r.selected = {} -> {}
         [] "error" \in DOMAIN answer -> {"campus"}
         [] OTHER -> {s[1] : s \in answer.invalid}

(* Rows of schema 2 and before carry their raw form, of some revision.     *)
Incompatible(definition, generation) ==
    \/ definition.schema <= 2 /\ definition.raw # definition.revision
    \/ ReviewReasons(generation, definition.filters) # {}

(* The page names the revision it shows; the view is read and reviewed,    *)
(* and applied in a later transaction that checks the revision again.      *)
ReviewView(expected) ==
    /\ call = Idle
    /\ IF expected = view.revision /\ Incompatible(view, bound)
       THEN call' = Answered(view.filters, Failed("SavedViewIncompatible"))
       ELSE call' = [at |-> "applying", expected |-> expected, generation |-> bound]
    /\ UNCHANGED <<db, bound, demanded, view, current, moments>>

ApplyView ==
    /\ call.at = "applying"
    /\ current' = IF call.expected = view.revision
                  THEN {[filters |-> view.filters, reviewed |-> {call.generation}]} ELSE current
    /\ call' = [at |-> "applied"]
    /\ UNCHANGED <<db, bound, demanded, view, moments>>

(* The filters on the page become those of the view; they are current.     *)
EditView(r) ==
    /\ view.revision < MaxRevision
    /\ view' = [revision |-> view.revision + 1, schema |-> 3, raw |-> view.revision + 1, filters |-> r]
    /\ current' = {[filters |-> r, reviewed |-> {}]}
    /\ UNCHANGED <<db, bound, demanded, call, moments>>

-----------------------------------------------------------------------------
(* The environment: refreshes publish catalogs, alone or complete with     *)
(* their Open snapshot, and the serving generation is rebuilt.             *)
Published(generation) == SumFunction([t \in Targets |-> generation.of[t].version])
Changes(generation) ==
    /\ db' = generation
    /\ moments' = IF call.at = "reading" THEN moments \cup {generation} ELSE moments
    /\ UNCHANGED <<bound, demanded, view, current, call>>

Publish(t, name, complete) ==
    /\ Published(db) < MaxPublished
    /\ Changes([db EXCEPT !.of[t] = [version |-> @.version + 1, ready |-> complete, name |-> name]])

Complete(t) ==
    /\ db.of[t].version > 0
    /\ ~db.of[t].ready
    /\ Changes([db EXCEPT !.of[t].ready = TRUE])

Discover(t) ==
    /\ t \notin db.discovered
    /\ Changes([db EXCEPT !.discovered = @ \cup {t}])

(* A generation holds what is visible, and only complete targets. It is    *)
(* discarded when anything it was built from has changed meanwhile.        *)
Generation(database) ==
    [of |-> [t \in Targets |-> [database.of[t] EXCEPT !.ready = @ /\ t[1] \in Visible]],
     discovered |-> {t \in database.discovered : t[1] \in Visible}]
Prepare ==
    /\ bound # Generation(db)
    /\ bound' = Generation(db)
    /\ UNCHANGED <<db, demanded, view, current, call, moments>>

ServiceInit ==
    /\ db \in Initially
    /\ bound = Generation(db)
    /\ demanded = {}
    /\ view \in SavedViews
    /\ current = {}
    /\ call = Idle
    /\ moments = {}

(* Requests of the storage-backed service. It looks at no readiness, no    *)
(* discovery and no bound generation.                                      *)
ServiceNext ==
    \/ \E r \in Requests : r.kind \notin StorageRoutes /\ Ask(r)
    \/ EnsurePublished \/ ReadEvidence \/ Begin \/ Load \/ KeywordExists \/ CheckDynamic
    \/ SearchText \/ ReadTerms \/ Verify \/ Finish
    \/ \E t \in Targets, name \in DOMAIN Catalogs : Publish(t, name, TRUE)

(* Requests of the routes and of saved views.                              *)
RouteNext ==
    \/ \E r \in Requests : ServePrepared(r) \/ ServeStorage(r)
    \/ \E n \in 1..view.revision : ReviewView(n)
    \/ ApplyView
    \/ \E saved \in SavedViews : EditView(saved.filters)
    \/ \E t \in Targets : (\E n \in DOMAIN Catalogs, b \in BOOLEAN : Publish(t, n, b)) \/ Complete(t) \/ Discover(t)
    \/ Prepare

-----------------------------------------------------------------------------
(* What the storage-backed service answers is what the prepared service    *)
(* answers from the database of one moment of the request, whatever was    *)
(* published between its reads (verify_current_versions): no mixture of    *)
(* two publications, and the same options, dictionaries and hits.          *)
AllReady(generation) ==
    [generation EXCEPT !.of = [t \in Targets |-> [generation.of[t] EXCEPT !.ready = TRUE]]]
OneMoment ==
    call.at = "answered" /\ "error" \notin DOMAIN call.answer =>
      \E m \in moments : call.answer = PreparedAnswer(call.request, AllReady(m))

(* A route whose targets are valid and ready is served: the service's own  *)
(* target checks never refuse it. A target a page is told to wait for has  *)
(* been demanded, unless its term is manual and not chosen.                *)
RoutesServe ==
    call.at = "served" /\ "error" \in DOMAIN call.answer =>
      /\ call.answer.error \in {"InvalidTarget", "CatalogUnavailable", "SearchDataNotReady",
                                "InvalidFilterOption", "NotFound"}
      /\ call.answer.error = "SearchDataNotReady" =>
           \A t \in call.answer.waits : t \in demanded \/ t[1] \in ManualTerms \ ChosenTerms

(* The filters an application makes current stood the review: an edit      *)
(* between the review and the application is refused.                      *)
AppliedWasReviewed ==
    \A applied \in current : \A generation \in applied.reviewed :
      ReviewReasons(generation, applied.filters) = {}
=============================================================================
