--------------------------- MODULE DiscoveryPipeline ---------------------------
(***************************************************************************)
(* How the terms and campuses Rutgers lists become the targets the product *)
(* refreshes and offers: the two resources the discovery client fetches    *)
(* and reads (selector.rs), the snapshot it validates (discovery.rs), the  *)
(* stored rows (mapping.rs, the store's discovery.rs), the targets the     *)
(* refresh runtime registers from a live discovery or restores from the    *)
(* rows (discovery_runtime.rs), and what the service shows of them         *)
(* (projection.rs, product_scope.rs).                                      *)
(*                                                                         *)
(* A web page is what its readers look for in it: the current term, the    *)
(* script references and, in the script, the definitions by name.  A term  *)
(* is <<code, year>>, a target <<term, campus>>, and the digest of the two *)
(* bodies is the pair of pages they were read from.                        *)
(***************************************************************************)
EXTENDS Integers, Sequences, FiniteSets, SequencesExt

CONSTANTS Pages,        \* the pages the site may serve, one after the other
          Books,        \* the catalogs a target may publish: sets of variants
          Shelf,        \* the targets whose catalogs the model publishes
          MaxFetches    \* bound on the discoveries started

VARIABLES site,         \* the page Rutgers serves now (an index of Pages)
          fetching,     \* the page the bootstrap of the running discovery came from
          stored,       \* the published discovery rows and their state
          live,         \* current_targets of the refresh runtime
          books,        \* the published catalog of each target of Shelf
          age,          \* age of the last success in discovery intervals, -1: in the future
          fetches

discoveryVars == <<site, fetching, stored, live, books, age, fetches>>

Refused == [ok |-> FALSE]
Accepted(v) == [ok |-> TRUE, value |-> v]

Present(v) == [state |-> "VALUE", value |-> v]

-----------------------------------------------------------------------------
(* The pages.                                                              *)

Codes == {0, 1, 7, 9}

(* find_once and the script scan: the one match, or no match at all.       *)
Once(matches) == IF Len(matches) = 1 THEN Accepted(matches[1]) ELSE Refused

(* validate_script_url: the versioned soc_utils.js of the same origin.     *)
ScriptUrl(reference) == reference.sameOrigin /\ reference.path = "/soc/js/soc_utils.js"
                        /\ reference.version # "none"

(* parse_bootstrap: the current term, its campus and the script to fetch.  *)
ParseBootstrap(page) ==
    LET current == Once(page.currentTermDate)
        script == Once(page.scripts)
    IN  IF /\ current.ok /\ script.ok
           /\ current.value.year \in 1000..9999 /\ current.value.term \in Codes
           /\ current.value.campus # "" /\ current.value.dated
           /\ ScriptUrl(script.value)
        THEN Accepted(current.value) ELSE Refused

(* find_definition: a name defined twice is no definition.                 *)
FindDefinition(script, name) ==
    Once(SelectSeq(script, LAMBDA definition : definition.name = name))

(* parse_object: an object literal with a repeated key is refused.         *)
Distinct(keys) == Cardinality(ToSet(keys)) = Len(keys)

ParseObject(pairs) ==
    IF Distinct([i \in DOMAIN pairs |-> pairs[i].key])
    THEN Accepted([k \in {pairs[i].key : i \in DOMAIN pairs} |->
                     (CHOOSE q \in ToSet(pairs) : q.key = k).scalar])
    ELSE Refused

(* A text that is there and not empty (JsScalar::as_text).                 *)
HasText(object, key) ==
    key \in DOMAIN object /\ object[key].kind = "text" /\ object[key].value # ""

(* The CAMPUSES array: every entry named, coded and typed, no code twice.  *)
CampusEntry(object) ==
    /\ HasText(object, "code") /\ HasText(object, "name")
    /\ "type" \in DOMAIN object /\ object["type"].kind = "integer" /\ object["type"].value >= 0

ParseCampuses(script) ==
    LET found == FindDefinition(script, "CAMPUSES")
        parsed == IF found.ok THEN [i \in DOMAIN found.value.body |-> ParseObject(found.value.body[i])]
                  ELSE <<>>
        objects == [i \in DOMAIN parsed |-> parsed[i].value]
        codes == [i \in DOMAIN parsed |-> objects[i]["code"].value]
    IN  IF /\ parsed # <<>> /\ \A i \in DOMAIN parsed : parsed[i].ok /\ CampusEntry(objects[i])
           /\ Distinct(codes)
        THEN Accepted({[code |-> codes[i], category |-> objects[i]["type"].value] : i \in DOMAIN codes})
        ELSE Refused

(* parse_semester_names: exactly the four codes, each with its name.       *)
ParseSemesterNames(script) ==
    LET found == FindDefinition(script, "_SEMESTER_NAMES")
        parsed == IF found.ok THEN ParseObject(found.value.body) ELSE Refused
    IN  parsed.ok /\ DOMAIN parsed.value = Codes
        /\ \A code \in Codes : HasText(parsed.value, code)

(* parse_previous_count: the one loop of getSemesters.                     *)
ParsePreviousCount(script) ==
    LET found == FindDefinition(script, "getSemesters")
        loop == IF found.ok /\ found.value.body.pushes THEN Once(found.value.body.counts) ELSE Refused
    IN  IF loop.ok /\ loop.value \in 1..32 THEN loop ELSE Refused

(* parse_previous_transitions: an `if` for all codes but one, and the one  *)
(* `else` that steps back a year.                                          *)
ParseTransitions(script) ==
    LET found == FindDefinition(script, "getPreviousSemester")
        body == found.value.body
        arrows == ToSet(body.arrows)
        missing == Codes \ {a.from : a \in arrows}
        wrap == Once(body.wraps)
        steps == [code \in Codes |->
                    IF code \in missing THEN [to |-> wrap.value, back |-> TRUE]
                    ELSE [to |-> (CHOOSE a \in arrows : a.from = code).to, back |-> FALSE]]
    IN  IF /\ found.ok
           /\ body.returns /\ Distinct([i \in DOMAIN body.arrows |-> body.arrows[i].from])
           /\ Cardinality(missing) = 1 /\ wrap.ok
           /\ \A a \in arrows : a.from \in Codes /\ a.to \in Codes
           /\ wrap.value \in Codes
        THEN Accepted(steps) ELSE Refused

(* The terms from the current one backwards, by the script's transitions.  *)
Terms(current, count, steps) ==
    LET term[i \in 0..count] ==
          IF i = 0 THEN <<current.term, current.year>>
          ELSE LET later == term[i - 1]
               IN  <<steps[later[1]].to, later[2] - (IF steps[later[1]].back THEN 1 ELSE 0)>>
    IN  [i \in 1..(count + 1) |-> term[i - 1]]

(* parse_selector_script: every term it walks through with every campus it *)
(* lists, all published and enabled; a repeated term is refused.           *)
ParseSelectorScript(script, current) ==
    LET campuses == ParseCampuses(script)
        count == ParsePreviousCount(script)
        steps == ParseTransitions(script)
        terms == Terms(current, count.value, steps.value)
    IN  IF /\ campuses.ok /\ ParseSemesterNames(script) /\ count.ok /\ steps.ok
           /\ current.campus \in {c.code : c \in campuses.value}
           /\ Distinct(terms) /\ \A t \in ToSet(terms) : t[2] \in 1000..9999
        THEN Accepted([terms |-> ToSet(terms), campuses |-> campuses.value]) ELSE Refused

-----------------------------------------------------------------------------
(* The validated snapshot and its stored form.                             *)

(* The raw document parse_selector_script returns.                         *)
Document(parsed) ==
    [terms |-> {[id |-> t, year |-> Present(t[2]), termCode |-> Present(t[1]),
                 published |-> Present(TRUE)] : t \in parsed.terms},
     campuses |-> {[code |-> c.code, category |-> Present(c.category), enabled |-> Present(TRUE)]
                     : c \in parsed.campuses},
     targets |-> {[key |-> <<t, c.code>>, enabled |-> Present(TRUE)]
                     : t \in parsed.terms, c \in parsed.campuses}]

(* try_from_bundle for the one source: every target's term and campus are  *)
(* of the document.                                                        *)
Snapshot(document, source) ==
    IF \A target \in document.targets :
         /\ \E t \in document.terms : t.id = target.key[1]
         /\ \E c \in document.campuses : c.code = target.key[2]
    THEN Accepted([source |-> source, terms |-> document.terms,
                   campuses |-> document.campuses, targets |-> document.targets])
    ELSE Refused

(* known_bool, known_string: a column holds the value or nothing.          *)
Known(presence) == IF presence.state = "VALUE" THEN presence.value ELSE "null"

(* to_operational_discovery_snapshot: a campus row per target, with the    *)
(* campus's and the target's own facts beside the columns.                 *)
Rows(snapshot) ==
    [source |-> snapshot.source,
     terms |-> {[id |-> t.id, year |-> Known(t.year), termCode |-> Known(t.termCode),
                 published |-> Known(t.published), facts |-> [published |-> t.published],
                 source |-> snapshot.source] : t \in snapshot.terms},
     campuses |-> {LET campus == CHOOSE c \in snapshot.campuses : c.code = target.key[2]
                   IN  [key |-> target.key, category |-> Known(campus.category),
                        enabled |-> Known(target.enabled),
                        facts |-> [campusEnabled |-> campus.enabled, targetEnabled |-> target.enabled],
                        source |-> snapshot.source] : target \in snapshot.targets}]

(* canonicalize_and_validate_discovery: the store's own checks.            *)
Storable(rows) ==
    /\ \A t \in rows.terms : t.source = rows.source /\ t.year >= 1900
    /\ \A c \in rows.campuses : c.source = rows.source /\ \E t \in rows.terms : t.id = c.key[1]

(* discovery_content_sha256_v1: everything but the source.                 *)
Unowned(rowSet) == {[f \in DOMAIN r \ {"source"} |-> r[f]] : r \in rowSet}
Content(rows) == <<Unowned(rows.terms), Unowned(rows.campuses)>>

Owned(rowSet, source) == {[r EXCEPT !.source = source] : r \in rowSet}

(* refresh_discovery_source_ownership: unchanged rows go to the new source.*)
Kept(rows) == [source |-> rows.source, terms |-> Owned(stored.rows.terms, rows.source),
               campuses |-> Owned(stored.rows.campuses, rows.source)]

(* apply_discovery_transaction.                                            *)
Publish(rows) ==
    LET unchanged == stored.version > 0 /\ Content(rows) = Content(stored.rows)
    IN  stored' = [rows |-> IF unchanged THEN Kept(rows) ELSE rows,
                   version |-> IF unchanged THEN stored.version ELSE stored.version + 1,
                   availability |-> "FRESH", attempt |-> "APPLIED",
                   counts |-> <<Cardinality(rows.terms), Cardinality(rows.campuses)>>]

(* finish_discovery_failure: the rows stay, and are stale.                 *)
Failed(code) ==
    stored' = [stored EXCEPT !.attempt = code,
                 !.availability = IF @ = "UNAVAILABLE" THEN @ ELSE "STALE"]

-----------------------------------------------------------------------------
(* The targets the runtime refreshes.                                      *)

ProductCampuses == {"NB", "NK", "CM"}
OnlineAliases == {"ONLINE_NB", "ONLINE_NK", "ONLINE_CM"}

(* OpenSectionsRequest::try_from_persisted_discovery, for a product target.*)
Request(source, term, campus, year, code) ==
    [target |-> <<term, campus>>, source |-> source, year |-> year, code |-> code]

Requestable(year, code) == year \in 1000..9999 /\ code \in 0..99

IsTrue(presence) == presence.state = "VALUE" /\ presence.value = TRUE

(* product_refresh_targets: a published term with one enabled product      *)
(* campus stands for all three.                                            *)
ProductTargets(snapshot) ==
    LET affirmed == {t \in snapshot.terms :
          /\ IsTrue(t.published)
          /\ \E target \in snapshot.targets :
               /\ target.key[1] = t.id /\ target.key[2] \in ProductCampuses /\ IsTrue(target.enabled)
               /\ \E c \in snapshot.campuses : c.code = target.key[2] /\ IsTrue(c.enabled)}
    IN  IF \A t \in affirmed : Requestable(Known(t.year), Known(t.termCode))
        THEN Accepted({Request(snapshot.source, t.id, campus, Known(t.year), Known(t.termCode))
                         : t \in affirmed, campus \in ProductCampuses})
        ELSE Refused

MutRestoredTargets(rows) ==
    LET affirmed == {t \in rows.terms : t.published = TRUE /\ \E c \in rows.campuses :
          c.key[1] = t.id /\ c.key[2] \in ProductCampuses /\ c.enabled = TRUE}
    IN  {Request(t.source, t.id, campus, t.year, t.termCode)
           : t \in affirmed, campus \in {c.key[2] : c \in rows.campuses} \cap ProductCampuses}

(* product_refresh_targets_from_persisted.                                 *)
RestoredTargets(rows) ==
    LET affirmed == {t \in rows.terms :
          /\ t.published = TRUE
          /\ \E c \in rows.campuses :
               /\ c.key[1] = t.id /\ c.key[2] \in ProductCampuses /\ c.enabled = TRUE
               /\ IsTrue(c.facts.campusEnabled) /\ IsTrue(c.facts.targetEnabled)}
    IN  IF \A t \in affirmed : Requestable(t.year, t.termCode)
        THEN {Request(t.source, t.id, campus, t.year, t.termCode)
                : t \in affirmed, campus \in ProductCampuses}
        ELSE {}

(* scheduled_targets: publishing first projects every enabled target that  *)
(* is not an online alias, and gives up when one cannot be requested.      *)
Scheduled(snapshot) ==
    \A target \in snapshot.targets :
        IsTrue(target.enabled) /\ target.key[2] \notin OnlineAliases =>
            \E t \in snapshot.terms :
                /\ t.id = target.key[1]
                /\ IsTrue(t.published) => Requestable(Known(t.year), Known(t.termCode))

-----------------------------------------------------------------------------
(* What the service shows.                                                 *)

(* discovery_fact: the five states of a stored fact, as knowledge.         *)
Fact(presence) ==
    CASE presence.state = "VALUE" -> [known |-> TRUE, as |-> "value", value |-> presence.value]
      [] presence.state = "MISSING" -> [known |-> TRUE, as |-> "absent"]
      [] presence.state = "EXPLICIT_NULL" -> [known |-> TRUE, as |-> "null"]
      [] presence.state = "MALFORMED" -> [known |-> FALSE, as |-> "malformed"]

(* validate_discovery_state and validate_discovery_counts.                 *)
StateProjects ==
    /\ (stored.availability = "UNAVAILABLE") = (stored.version = 0)
    /\ stored.counts = <<Cardinality(stored.rows.terms), Cardinality(stored.rows.campuses)>>

(* The joins of to_catalog_discovery_response_v1: each target's term is    *)
(* there, of the same source, and the source is published.                 *)
RowsProject ==
    \A c \in stored.rows.campuses :
        /\ stored.version > 0 /\ c.source = stored.rows.source
        /\ \E t \in stored.rows.terms : t.id = c.key[1] /\ t.source = c.source

(* The targets the response offers.                                        *)
Selectable ==
    LET Shown(presence) == Fact(presence).as = "value" /\ Fact(presence).value = TRUE
    IN  {c.key : c \in {d \in stored.rows.campuses :
            /\ \E t \in stored.rows.terms : t.id = d.key[1] /\ Shown(t.facts.published)
            /\ Shown(d.facts.campusEnabled) /\ Shown(d.facts.targetEnabled)}}

(* CatalogSubjectLabelEvidence and CatalogCoreDescriptionEvidence: one     *)
(* label when all that give one agree.                                     *)
Evidence(presences) ==
    LET given == {e.value : e \in {d \in presences : d.state = "VALUE"}}
        states == {e.state : e \in presences}
    IN  CASE Cardinality(given) > 1 -> [known |-> FALSE, value |-> "conflicting"]
          [] Cardinality(given) = 1 -> [known |-> TRUE, value |-> CHOOSE v \in given : TRUE]
          [] given = {} /\ "MALFORMED" \in states -> [known |-> FALSE, value |-> "malformed"]
          [] given = {} /\ "MALFORMED" \notin states /\ "EXPLICIT_NULL" \in states ->
               [known |-> TRUE, value |-> "null"]
          [] OTHER -> [known |-> TRUE, value |-> "absent"]

(* The subject a variant names, if it is a code the product accepts.       *)
ValidSubjects == {"198", "640"}
SubjectColumn(variant) ==
    IF variant.subject.state = "VALUE" /\ variant.subject.value \in ValidSubjects
    THEN variant.subject.value ELSE "null"

(* merge_catalog_subjects: the subjects of a selectable target's catalog.  *)
Subjects(t) ==
    LET named == {v \in books[t] : SubjectColumn(v) # "null"}
    IN  IF t \notin Selectable THEN {}
        ELSE {[code |-> code,
               label |-> Evidence({v.description : v \in {w \in named : SubjectColumn(w) = code}})]
                : code \in {SubjectColumn(v) : v \in named}}

(* project_core_code_entry: a bare code has no description, an object its  *)
(* preferred one; any other value spoils the whole list.                   *)
CoreEntry(entry) ==
    CASE entry.kind = "text" -> [code |-> entry.code, description |-> [state |-> "MISSING"]]
      [] entry.kind = "object" -> [code |-> entry.code, description |-> entry.description]

CoreEntries(variant) ==
    IF /\ variant.cores.state = "VALUE"
       /\ \A e \in variant.cores.value : e.kind \in {"text", "object"} /\ e.code # ""
    THEN {CoreEntry(e) : e \in variant.cores.value} ELSE {}

(* derive_core_code_dictionaries.                                          *)
CoreCodes(t) ==
    LET entries == UNION {CoreEntries(v) : v \in books[t]}
    IN  IF t \notin Selectable THEN {}
        ELSE {[code |-> code, description |-> Evidence({e.description : e \in {d \in entries : d.code = code}})]
                : code \in {e.code : e \in entries}}

(* consistent_stored_bool: the fact and its column agree.                  *)
Consistent(presence, column) ==
    IF presence.state = "VALUE" /\ presence.value = column
    THEN IF column THEN "TRUE" ELSE "FALSE" ELSE "INDETERMINATE"

(* product_term_publication: what the status says of a term of the window. *)
Publication(term) ==
    LET evidence == {t \in stored.rows.terms : t.id = term}
        matching == {c \in stored.rows.campuses : c.key[1] = term /\ c.key[2] \in ProductCampuses}
        verdicts == {Consistent(t.facts.published, t.published) : t \in evidence}
    IN  CASE stored.version = 0 \/ age < 0 \/ age > 1 -> "UNKNOWN"
          [] "INDETERMINATE" \in verdicts -> "UNKNOWN"
          [] \E c \in matching : \/ c.facts.campusEnabled.state # "VALUE"
                                 \/ Consistent(c.facts.targetEnabled, c.enabled) = "INDETERMINATE" -> "UNKNOWN"
          [] matching = {} -> "UNPUBLISHED"
          [] OTHER -> IF "TRUE" \in verdicts THEN "PUBLISHED" ELSE "UNKNOWN"

-----------------------------------------------------------------------------
(* The actions.                                                            *)

NoRows == [source |-> <<>>, terms |-> {}, campuses |-> {}]

DiscoveryInit ==
    /\ site = 1 /\ fetching = 0 /\ live = {} /\ age = 0 /\ fetches = 0
    /\ books = [t \in Shelf |-> {}]
    /\ stored = [rows |-> NoRows, version |-> 0, availability |-> "UNAVAILABLE",
                 attempt |-> "NONE", counts |-> <<0, 0>>]

(* Rutgers serves the next page.                                           *)
SiteChanges(p) ==
    /\ site # p /\ site' = p
    /\ UNCHANGED <<fetching, stored, live, books, age, fetches>>

(* decode_resource, classify_reqwest_error and discovery_failure_code: the *)
(* ways fetching one resource fails, as the code the failure is kept by.   *)
TransportCodes == {"DISCOVERY_UPSTREAM_TIMEOUT", "DISCOVERY_UPSTREAM_NETWORK",
                   "DISCOVERY_UPSTREAM_HTTP", "DISCOVERY_UPSTREAM_PROTOCOL"}

(* record_discovery_transport_failure: the runtime keeps its targets.      *)
RecordFailure(code) == Failed(code) /\ fetching' = 0 /\ UNCHANGED <<live, age>>

(* fetch: the bootstrap, which names the script.                           *)
FetchBootstrap ==
    /\ fetching = 0 /\ fetches < MaxFetches /\ fetches' = fetches + 1
    /\ \/ /\ ParseBootstrap(Pages[site]).ok
          /\ fetching' = site /\ UNCHANGED <<stored, live, age>>
       \/ /\ ~ParseBootstrap(Pages[site]).ok /\ RecordFailure("DISCOVERY_UPSTREAM_PROTOCOL")
       \/ \E code \in TransportCodes : RecordFailure(code)
    /\ UNCHANGED <<site, books>>

(* The discovery the two bodies amount to, for a bootstrap and a script    *)
(* of any two pages.                                                       *)
Discoveries ==
    [b \in DOMAIN Pages |-> [p \in DOMAIN Pages |->
        LET current == ParseBootstrap(Pages[b])
            parsed == IF current.ok THEN ParseSelectorScript(Pages[p].script, current.value) ELSE Refused
        IN  IF parsed.ok THEN Snapshot(Document(parsed.value), <<b, p>>) ELSE Refused]]

Discovered == Discoveries[fetching][site]

(* fetch: the script, perhaps of a newer page than the bootstrap; then the *)
(* publication, and the runtime takes the targets over.                    *)
FetchScript ==
    /\ fetching # 0
    /\ \/ /\ ~Discovered.ok /\ RecordFailure("DISCOVERY_UPSTREAM_PROTOCOL")
       \/ \E code \in TransportCodes : RecordFailure(code)
       \/ /\ Discovered.ok /\ fetching' = 0
          /\ LET snapshot == Discovered.value
                 targets == ProductTargets(snapshot)
             IN  IF Scheduled(snapshot) /\ Storable(Rows(snapshot))
                 THEN /\ Publish(Rows(snapshot)) /\ age' = 0
                      /\ live' = IF targets.ok THEN targets.value ELSE live
                 ELSE UNCHANGED <<stored, live, age>>
    /\ UNCHANGED <<site, books, fetches>>

(* The process ends and comes back: restore_product_refresh_targets.       *)
Restart ==
    /\ live' = RestoredTargets(stored.rows) /\ fetching' = 0
    /\ UNCHANGED <<site, stored, books, age, fetches>>

(* A discovery interval passes, or the wall clock is set back.             *)
Tick ==
    /\ stored.version > 0 /\ age' \in {-1} \cup {n \in {age + 1} : n <= 2} /\ age' # age
    /\ UNCHANGED <<site, fetching, stored, live, books, fetches>>

(* A target publishes a catalog.                                           *)
PublishCatalog(t, book) ==
    /\ books' = [books EXCEPT ![t] = book] /\ books' # books
    /\ UNCHANGED <<site, fetching, stored, live, age, fetches>>

DiscoveryNext ==
    \/ \E p \in DOMAIN Pages : SiteChanges(p)
    \/ FetchBootstrap \/ FetchScript \/ Restart \/ Tick
    \/ \E t \in Shelf, book \in Books : PublishCatalog(t, book)

DiscoverySpec == DiscoveryInit /\ [][DiscoveryNext]_discoveryVars

-----------------------------------------------------------------------------
(* The terms the site's own program lists: the current one and, before it, *)
(* what its if/else chain says, whatever else the script holds.            *)
SiteTerms(bootstrap, page) ==
    LET script == page.script
        Body(name) == (CHOOSE i \in DOMAIN script : script[i].name = name)
        loops == script[Body("getSemesters")].body.counts[1]
        chain == script[Body("getPreviousSemester")].body
        Previous(t) ==
          LET taken == SelectSeq(chain.arrows, LAMBDA a : a.from = t[1])
          IN  IF taken # <<>> THEN <<taken[1].to, t[2]>> ELSE <<chain.wraps[1], t[2] - 1>>
        listed[i \in 0..loops] ==
          IF i = 0 THEN <<bootstrap.currentTermDate[1].term, bootstrap.currentTermDate[1].year>>
          ELSE Previous(listed[i - 1])
    IN  {listed[i] : i \in 0..loops}

(* The runtime refreshes what a restart would restore: the requests kept   *)
(* from the live discovery and the ones rebuilt from the stored rows are   *)
(* the same, down to the discovery source they name, through unchanged and *)
(* failed discoveries and pages that change between the two fetches.       *)
RestartKeepsTargets == live = RestoredTargets(stored.rows)

(* What the service shows can be acted on: the stored discovery always     *)
(* projects; its terms are the ones the site's program lists; every        *)
(* product target it offers, and every term it calls published, is being   *)
(* refreshed; and it never calls a refreshed term unpublished.             *)
OfferedIsRefreshed ==
    /\ StateProjects /\ RowsProject
    /\ stored.version > 0 =>
         {t.id : t \in stored.rows.terms} =
             SiteTerms(Pages[stored.rows.source[1]], Pages[stored.rows.source[2]])
    /\ \A key \in Selectable : key[2] \in ProductCampuses => \E r \in live : r.target = key
    /\ \A t \in stored.rows.terms :
         LET refreshed == \A campus \in ProductCampuses : \E r \in live : r.target = <<t.id, campus>>
         IN  /\ Publication(t.id) = "PUBLISHED" => refreshed
             /\ Publication(t.id) = "UNPUBLISHED" => ~refreshed

(* A label is shown for a subject or a core code only if no variant of the *)
(* target's catalog gives another one, and what no variant gives is shown  *)
(* as missing, never as a label.                                           *)
LabelsUnanimous ==
    \A t \in Shelf :
        /\ \A s \in Subjects(t) :
             LET given == {v.description : v \in {w \in books[t] : SubjectColumn(w) = s.code}}
             IN  s.label.value \notin {"absent", "null", "malformed", "conflicting"} =>
                    \A d \in given : d.state = "VALUE" => d.value = s.label.value
        /\ \A c \in CoreCodes(t) :
             c.description.value \notin {"absent", "null", "malformed", "conflicting"} =>
                \A v \in books[t] : \A e \in CoreEntries(v) :
                    e.code = c.code /\ e.description.state = "VALUE" => e.description.value = c.description.value
=============================================================================
