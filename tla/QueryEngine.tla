----------------------------- MODULE QueryEngine -----------------------------
(***************************************************************************)
(* The query engine of crate bcsp-query over a corpus of catalogs: the     *)
(* corpus is validated once and then read by reference without checks; the *)
(* same searches run on a corpus built for one request (try_new_from_refs) *)
(* and on a prepared one shared between requests, indexed by hash and      *)
(* narrowed to the request's targets (try_new_prepared).                   *)
(*                                                                         *)
(* A target is <<term, campus>>; a group's key is <<target, course>>, a    *)
(* variant's <<target, course, n>>, a section's <<target, index>>, an      *)
(* occurrence's <<target, index, n>>. An entity is [key, owner, refs]: the *)
(* keys it lists, and the one it says it belongs to. What the predicates   *)
(* answer for a variant or a section is an input, of the kind that         *)
(* QueryPredicates computes.                                               *)
(***************************************************************************)
EXTENDS QueryPredicates, Sequences, SequencesExt

CONSTANTS Home, Away, MaxPageSize

VARIABLES
    phase,       \* "supplied", "refused", "corpus", "bound" or "asked"
    catalogs,    \* the catalogs supplied: [target, version, groups, variants, sections, occurrences]
    hash,        \* "spread" or "collide": what the hasher makes of the keys
    active,      \* the request's targets
    forced,      \* those whose Open state is known to be unavailable
    open,        \* section key :> evidence
    verdicts,    \* what the predicates other than Open answer, by variant and section key
    filters      \* [sectionFilters, open, core, campuses, exact, text, sort, descending]

engineVars == <<phase, catalogs, hash, active, forced, open, verdicts, filters>>

Kinds == {"groups", "variants", "sections", "occurrences"}
TermOf(target) == target[1]
TargetOf(key) == key[1]
GroupOf(variantKey) == <<variantKey[1], variantKey[2]>>
Keys(values) == {v.key : v \in Range(values)}
Entities(cats, kind) == UNION {Range(c[kind]) : c \in Range(cats)}

-----------------------------------------------------------------------------
(* CatalogCorpus::try_new_from_refs_with_cancellation.                     *)
Distinct(s) == Cardinality(Range(s)) = Len(s)

TargetsOwned(cats) ==
    \A i, j \in DOMAIN cats :
      /\ TermOf(cats[i].target) = TermOf(cats[1].target)
      /\ cats[i].target = cats[j].target => i = j
      /\ \A kind \in Kinds :
           /\ \A k \in Keys(cats[i][kind]) : TargetOf(k) = cats[i].target
           /\ Cardinality(Keys(cats[i][kind])) = Len(cats[i][kind])
      /\ \A s \in Range(cats[i].sections) : TargetOf(s.owner) = cats[i].target

References(parents, children) ==
    /\ \A p \in parents :
         Distinct(p.refs) /\ \A k \in Range(p.refs) : \E c \in children : c.key = k /\ c.owner = p.key
    /\ \A c \in children : \E p \in parents : p.key = c.owner /\ c.key \in Range(p.refs)

CorpusValid(cats) ==
    /\ cats # <<>> /\ TargetsOwned(cats)
    /\ \A g \in Entities(cats, "groups") : g.refs # <<>>
    /\ References(Entities(cats, "groups"), Entities(cats, "variants"))
    /\ References(Entities(cats, "variants"), Entities(cats, "sections"))
    /\ References(Entities(cats, "sections"), Entities(cats, "occurrences"))

-----------------------------------------------------------------------------
(* The prepared corpus finds an entity by the hash of its key; keys that   *)
(* collide share a bucket and are told apart by comparison.                *)
HashOf(key) == IF hash = "collide" THEN <<>> ELSE key

BuildIndex(values) ==
    [h \in {HashOf(k) : k \in Keys(values)} |->
       SelectSeq([i \in DOMAIN values |-> i], LAMBDA i : HashOf(values[i].key) = h)]

MutLookup(index, values, key) == IF HashOf(key) \in DOMAIN index THEN {index[HashOf(key)][1]} ELSE {}
Lookup(index, values, key) ==
    IF HashOf(key) \in DOMAIN index THEN {i \in Range(index[HashOf(key)]) : values[i].key = key} ELSE {}

Find(engine, kind, key) ==
    IF engine = "built" THEN {e \in Entities(catalogs, kind) : e.key = key}
    ELSE LET values == (CHOOSE c \in Range(catalogs) : c.target = TargetOf(key))[kind]
         IN {values[i] : i \in Lookup(BuildIndex(values), values, key)}

(* An entity a reference names: the code takes it without a check.         *)
Get(engine, kind, key) == CHOOSE e \in Find(engine, kind, key) : TRUE

(* for_each_group, for_each_section: a built corpus holds the request's    *)
(* catalogs only; a prepared one visits the active targets.                *)
Visited(engine, kind) == {e \in Entities(catalogs, kind) : TargetOf(e.key) \in active}
VariantsFor(engine, g) == {Get(engine, "variants", k) : k \in Range(g.refs)}
SectionsFor(engine, v) == {Get(engine, "sections", k) : k \in Range(v.refs)}
KnownOccurrencesFor(engine, s) == {Get(engine, "occurrences", k) : k \in Range(s.refs)}

-----------------------------------------------------------------------------
(* open_for: a prepared overlay names its doubt when the target is forced  *)
(* unavailable or the evidence is stale.                                   *)
NoEvidence == [state |-> "unknown", fresh |-> FALSE, doubt |-> "MISSING_RELIABLE_DATA"]
Overlay(target) ==
    LET keys == {k \in DOMAIN open : TargetOf(k) = target} IN [i \in 1..Cardinality(keys) |-> [key |-> SetToSeq(keys)[i]]]

Overlaid(engine, key, values) ==
    IF engine = "built" THEN {key} \cap DOMAIN open
    ELSE {values[i].key : i \in Lookup(BuildIndex(values), values, key)}
EvidenceOf(found) == IF found = {} THEN NoEvidence ELSE open[CHOOSE k \in found : TRUE]
OverlayGet(engine, key) == EvidenceOf(Overlaid(engine, key, Overlay(TargetOf(key))))

Doubted(engine, key, e) ==
    IF engine = "prepared" /\ key \in DOMAIN open
         /\ (TargetOf(key) \in forced \/ (e.doubt = "none" /\ ~e.fresh))
    THEN [e EXCEPT !.doubt = "SOURCE_UNAVAILABLE"] ELSE e
OpenFor(engine, key) == Doubted(engine, key, OverlayGet(engine, key))

OpenStateFor(engine, key) == OverlayGet(engine, key).state

(* What the other predicates answered: evaluation and admission.           *)
Verdict(kind) ==
    CASE kind = "match" -> [evaluation |-> Matched, admitted |-> TRUE]
      [] kind = "doubt" -> [evaluation |-> Uncertain("UNKNOWN_VALUE"), admitted |-> TRUE]
      [] kind = "hidden" -> [evaluation |-> Uncertain("UNKNOWN_VALUE"), admitted |-> FALSE]
      [] kind = "no" -> [evaluation |-> NoMatch, admitted |-> FALSE]

SectionFiltersActive == filters.sectionFilters \/ filters.open # {}

AskedAndLive(asked, live) ==
    [evaluation |-> AndAll({asked.evaluation, live}), admitted |-> asked.admitted /\ live.outcome # "NO_MATCH"]
SectionEvaluation(engine, s) ==
    AskedAndLive(Verdict(IF filters.sectionFilters THEN verdicts[s.key] ELSE "match"),
                 EvaluateOpen(OpenFor(engine, s.key), filters.open))

-----------------------------------------------------------------------------
(* course_search. A group is listed through a variant whose filters and,   *)
(* when section filters are active, one of whose admitted sections pass.   *)
OrNonempty(evaluations) == IF evaluations = {} THEN NoMatch ELSE OrActive(evaluations)
Passing(evaluated) == {e \in evaluated : e.admitted}
AnyOf(passing) == [evaluation |-> OrNonempty({e.evaluation : e \in passing}), admitted |-> passing # {}]

Witness(engine, v) ==
    IF ~SectionFiltersActive THEN [evaluation |-> Matched, admitted |-> TRUE]
    ELSE AnyOf(Passing({SectionEvaluation(engine, x) : x \in SectionsFor(engine, v)}))

Both(v, course, witness) ==
    [variant |-> v, evaluation |-> AndAll({course.evaluation, witness.evaluation}),
     admitted |-> course.admitted /\ witness.admitted]
VariantEvaluation(engine, v) == Both(v, Verdict(verdicts[v.key]), Witness(engine, v))

(* The rank of a text hit and the title, which only order the list; a      *)
(* second variant has no title.                                            *)
NoRank == 9
Rank(variantKey) == IF filters.text THEN variantKey[3] ELSE NoRank
Titles(variantKeys) == {3 - k[2] : k \in {x \in variantKeys : x[3] = 1}}

PassingVariants(engine, g) == Passing({VariantEvaluation(engine, v) : v \in VariantsFor(engine, g)})

Course(g, passing) ==
    [key |-> g.key, evaluation |-> OrNonempty({e.evaluation : e \in passing}), exact |-> g.key[2] = filters.exact,
     ranks |-> {Rank(e.variant.key) : e \in passing}, titles |-> Titles({e.variant.key : e \in passing})]
CourseCandidate(engine, g) == Course(g, PassingVariants(engine, g))

CourseCandidates(engine) ==
    {c \in {CourseCandidate(engine, g) : g \in Visited(engine, "groups")} : c.evaluation.outcome # "NO_MATCH"}

(* materialize_course_candidate: the variants and sections shown.          *)
ShownSections(engine, g) ==
    {x.key : x \in UNION {{y \in SectionsFor(engine, e.variant) :
                             SectionFiltersActive => SectionEvaluation(engine, y).admitted} :
                          e \in PassingVariants(engine, g)}}

(* section_search.                                                         *)
Section(x, course, section, state) ==
    [key |-> x.key, group |-> GroupOf(x.owner), admitted |-> course.admitted /\ section.admitted,
     evaluation |-> AndAll({course.evaluation, section.evaluation}), exact |-> x.owner[2] = filters.exact,
     rank |-> Rank(x.owner), state |-> state]
SectionCandidate(engine, x) ==
    Section(x, Verdict(verdicts[Get(engine, "variants", x.owner).key]), SectionEvaluation(engine, x),
            OpenStateFor(engine, x.key))

SectionCandidates(engine) ==
    {c \in {SectionCandidate(engine, x) : x \in Visited(engine, "sections")} : c.admitted}

-----------------------------------------------------------------------------
(* compare_course and compare_section: MATCH first, then the exact course, *)
(* the field asked for in its direction, and the key as the last word.     *)
OutcomeOrder(e) == CASE e.outcome = "MATCH" -> 0 [] e.outcome = "UNCERTAIN" -> 1 [] OTHER -> 2
OpenOrder(state) == CASE state = "closed" -> 0 [] state = "unknown" -> 1 [] state = "open" -> 2
CampusOrder(target) == IF target = Home THEN 0 ELSE 1
Directed(n) == IF filters.descending THEN 9 - n ELSE n
Lowest(S, none) == IF S = {} THEN none ELSE CHOOSE x \in S : \A y \in S : x <= y

CourseOrder(c) ==
    <<OutcomeOrder(c.evaluation), IF c.exact THEN 0 ELSE 1,
      CASE filters.sort = "relevance" -> Directed(9 - Lowest(c.ranks, NoRank))
        [] filters.sort = "course" -> Directed(2 * c.key[2] + CampusOrder(c.key[1]))
        [] filters.sort = "title" -> IF c.titles = {} THEN 10 ELSE Directed(Lowest(c.titles, 9)),
      CampusOrder(c.key[1]), c.key[2]>>

SectionOrder(c) ==
    <<OutcomeOrder(c.evaluation), IF c.exact THEN 0 ELSE 1,
      CASE filters.sort = "relevance" -> Directed(c.key[2])
        [] filters.sort = "course" -> Directed(2 * c.group[2] + CampusOrder(c.key[1]))
        [] filters.sort = "title" -> Directed(OpenOrder(c.state)),
      9 - c.rank, CampusOrder(c.key[1]), c.key[2]>>

Before(x, y) == \E i \in DOMAIN x : x[i] < y[i] /\ \A j \in 1..(i - 1) : x[j] = y[j]
Sorted(S, order(_)) == SetToSortSeq(S, LAMBDA x, y : Before(order(x), order(y)))

Paginate(values, page, size) ==
    LET start == (page - 1) * size
    IN IF start >= Len(values) THEN <<>>
       ELSE SubSeq(values, start + 1, IF start + size < Len(values) THEN start + size ELSE Len(values))
TotalPages(values, size) == (Len(values) + size - 1) \div size

-----------------------------------------------------------------------------
(* validate_filters and validate_text_plan. A variant's core code is its   *)
(* number.                                                                 *)
FiltersValid(engine) ==
    filters.core \subseteq
      {v.key[3] : v \in UNION {VariantsFor(engine, g) :
                                 g \in {x \in Visited(engine, "groups") :
                                          filters.campuses # {} => TargetOf(x.key) \in filters.campuses}}}

VersionOf(target) == (CHOOSE c \in Range(catalogs) : c.target = target).version
PlanValid(engine, plan) ==
    /\ DOMAIN plan.versions = active
    /\ \A t \in active : plan.versions[t] = VersionOf(t)
    /\ \A k \in plan.hits : TargetOf(k) \in active /\ Find(engine, "variants", k) # {}

(* PreparedOpenOverlay::try_new, is_bound_to and try_new_prepared.         *)
EvidenceOwned(evidence) == \A k \in DOMAIN evidence : Find("prepared", "sections", k) # {}
Bindable(targets, unavailable, overlays) ==
    /\ targets # {} /\ \A t \in targets : \E c \in Range(catalogs) : c.target = t
    /\ DOMAIN overlays = targets /\ \A t \in targets : overlays[t] = VersionOf(t)
    /\ unavailable \subseteq targets

-----------------------------------------------------------------------------
(* Inputs: a catalog of Home with references that may be wrong, and a      *)
(* plain one of Away.                                                      *)
Entity(key, owner, refs) == [key |-> key, owner |-> owner, refs |-> refs]
HomeVariants == {<<Home, 2, 1>>, <<Home, 2, 2>>}
HomeSections == {<<Home, 1>>, <<Home, 2>>}
RefLists(S) == {SetToSeq(T) : T \in SUBSET S}
Listed(S, owners, refLists) ==
    {SetToSeq({Entity(k, f[k].owner, f[k].refs) : k \in S}) : f \in [S -> [owner : owners, refs : refLists]]}

HomeCatalogs ==
    [target : {Home}, version : {1},
     groups : {<<Entity(<<Home, 2>>, <<Home, 2>>, r), Entity(<<Home, 1>>, <<Home, 1>>, <<<<Home, 1, 1>>>>)>> : r \in RefLists(HomeVariants)},
     variants : {Append(l, Entity(<<Home, 1, 1>>, <<Home, 1>>, <<>>)) :
                   l \in UNION {Listed(S, {<<Home, 2>>}, RefLists(HomeSections)) : S \in SUBSET HomeVariants}},
     sections : UNION {Listed(S, HomeVariants, {<<>>, <<<<Home, 1, 1>>>>}) : S \in SUBSET HomeSections},
     occurrences : {<<>>, <<Entity(<<Home, 1, 1>>, <<Home, 1>>, <<>>)>>}]

AwayCatalog ==
    [target |-> Away, version |-> 2, groups |-> <<Entity(<<Away, 1>>, <<Away, 1>>, <<<<Away, 1, 1>>>>)>>,
     variants |-> <<Entity(<<Away, 1, 1>>, <<Away, 1>>, <<<<Away, 1>>>>)>>,
     sections |-> <<Entity(<<Away, 1>>, <<Away, 1, 1>>, <<>>)>>, occurrences |-> <<>>]

EngineInit ==
    /\ phase = "supplied" /\ hash = "spread" /\ active = {} /\ forced = {}
    /\ \E c \in HomeCatalogs : catalogs \in {<<c, AwayCatalog>>}
    /\ open = <<>> /\ verdicts = <<>> /\ filters = <<>>

(* A cancelled build leaves nothing, like a refused one.                   *)
BuildCorpus ==
    /\ phase = "supplied" /\ phase' \in IF CorpusValid(catalogs) THEN {"corpus", "refused"} ELSE {"refused"}
    /\ UNCHANGED <<catalogs, hash, active, forced, open, verdicts, filters>>

(* A section known to be open a while ago, or another known to be closed.  *)
Evidence == {<<Home, 1>> :> [state |-> "open", fresh |-> FALSE, doubt |-> "none"],
             <<Home, 2>> :> [state |-> "closed", fresh |-> TRUE, doubt |-> "none"]}

Bind ==
    /\ phase = "corpus" /\ phase' = "bound" /\ hash' \in {"spread", "collide"}
    /\ \E targets \in {{Home}, {Home, Away}, {}}, unavailable \in {{}, {Home}}, fresh \in BOOLEAN :
         /\ Bindable(targets, unavailable, [t \in targets |-> IF fresh THEN VersionOf(t) ELSE 0])
         /\ active' = targets /\ forced' = unavailable /\ (unavailable # {} => hash' = "collide" /\ Away \in targets)
         /\ open' \in Evidence
         /\ EvidenceOwned(open')
    /\ UNCHANGED <<catalogs, verdicts, filters>>

Orders == {[sort |-> "relevance", descending |-> FALSE, exact |-> 0, text |-> TRUE, core |-> {}],
           [sort |-> "course", descending |-> TRUE, exact |-> 1, text |-> FALSE, core |-> {}],
           [sort |-> "title", descending |-> FALSE, exact |-> 0, text |-> FALSE, core |-> {2}]}

Ask ==
    /\ phase = "bound" /\ phase' = "asked"
    /\ \E o \in Orders, sectionFilters \in BOOLEAN, states \in {{}, {"open"}}, hits \in {{}, {<<Home, 2, 2>>}} :
         /\ filters' = [sort |-> o.sort, descending |-> o.descending, exact |-> o.exact, text |-> o.text,
                        sectionFilters |-> sectionFilters, open |-> states, core |-> o.core, campuses |-> {}]
         /\ IF o.text THEN PlanValid("prepared", [versions |-> [t \in active |-> VersionOf(t)], hits |-> hits])
            ELSE hits = {}
    /\ LET variants == {v.key : v \in Entities(catalogs, "variants")}
           sections == {x.key : x \in Entities(catalogs, "sections")}
       IN \E v \in [variants -> {"match", "hidden"}], x \in [sections -> {"match", "doubt", "hidden"}] :
            /\ \A k \in variants \ HomeVariants : v[k] = "match"
            /\ \A k \in DOMAIN x : TargetOf(k) = Away \/ ~filters'.sectionFilters => x[k] = "match"
            /\ verdicts' = v @@ x
    /\ UNCHANGED <<catalogs, hash, active, forced, open>>

EngineNext == BuildCorpus \/ Bind \/ Ask
EngineSpec == EngineInit /\ [][EngineNext]_engineVars

-----------------------------------------------------------------------------
RowsOf(sorted) == [i \in DOMAIN sorted |-> <<sorted[i].key, sorted[i].evaluation.outcome>>]
CourseList(engine) == RowsOf(Sorted(CourseCandidates(engine), CourseOrder))
SectionList(engine) == RowsOf(Sorted(SectionCandidates(engine), SectionOrder))

Paged(list, size) == FlattenSeq([page \in 1..TotalPages(list, size) |-> Paginate(list, page, size)])

Of(sections, g) == {x \in sections : x.group = g}
ListsAgree(engine, courses, sections) ==
    /\ \A c \in courses :
         /\ ShownSections(engine, Get(engine, "groups", c.key)) = {x.key : x \in Of(sections, c.key)}
         /\ SectionFiltersActive =>
              OutcomeOrder(c.evaluation) = Lowest({OutcomeOrder(x.evaluation) : x \in Of(sections, c.key)}, 3)
    /\ {x.group : x \in sections} \subseteq {c.key : c \in courses}

(* The course list and the section list answer one question: a course      *)
(* found through section filters shows exactly the sections the section    *)
(* search lists for it, is listed when there is one, and carries their     *)
(* best outcome, on either engine (course_search, section_search,          *)
(* materialize_course_candidate).                                          *)
SearchesAgree ==
    phase = "asked" =>
      \A engine \in {"built", "prepared"} :
        ListsAgree(engine, CourseCandidates(engine), SectionCandidates(engine))

PagesAre(prepared, built) == \A size \in 1..MaxPageSize : Paged(prepared, size) = built

(* The prepared engine answers what an engine built for the request would: *)
(* page after page the same rows in the same order, whatever keys collide; *)
(* and an Open source known to be unavailable hides no row                 *)
(* (PreparedCatalogCorpus, PreparedOpenOverlay).                           *)
PreparedAgrees ==
    phase = "asked" =>
      /\ FiltersValid("built") = FiltersValid("prepared")
      /\ IF forced = {}
         THEN /\ PagesAre(CourseList("prepared"), CourseList("built"))
              /\ PagesAre(SectionList("prepared"), SectionList("built"))
         ELSE /\ {c.key : c \in CourseCandidates("built")} \subseteq {c.key : c \in CourseCandidates("prepared")}
              /\ {c.key : c \in SectionCandidates("built")} \subseteq {c.key : c \in SectionCandidates("prepared")}
=============================================================================
