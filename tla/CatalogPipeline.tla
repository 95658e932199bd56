--------------------------- MODULE CatalogPipeline ---------------------------
(***************************************************************************)
(* The road of a Catalog payload from Rutgers' JSON to what a reader is    *)
(* served: normalize_target collapses the raw courses into variants and    *)
(* sections and hashes them, to_operational_snapshot flattens them into    *)
(* rows, storage recomputes the content hash and keeps the old rows when   *)
(* it did not change, and to_normalized_catalog_v1 re-derives every        *)
(* flattened column from the stored facts and refuses rows that disagree.  *)
(*                                                                         *)
(* A field is a Presence: missing, null, malformed or a value.  Text is a  *)
(* word and whether white space surrounds it; a hash is its preimage.      *)
(* The fields are one of each class the code treats alike: an identity     *)
(* string (title), another semantic string (notes), a set array            *)
(* (campusLocations), a structured array with a derived text (comments),   *)
(* instructors, majors, the section's flattened strings and meetings.      *)
(***************************************************************************)
EXTENDS Integers, Sequences, FiniteSets, SequencesExt

CONSTANTS Courses,      \* raw courses Rutgers may send
          MaxCourses,   \* courses in the first payload
          MaxLater,     \* courses in a later one
          MaxRefreshes

VARIABLES payload,      \* the payload of the latest refresh
          rows,         \* the rows storage serves, or NoRows
          accepted,     \* the latest payload storage accepted
          refreshes

pipelineVars == <<payload, rows, accepted, refreshes>>

Missing == [is |-> "missing"]
Null == [is |-> "null"]
Malformed == [is |-> "malformed"]
Value(v) == [is |-> "value", of |-> v]
Text(word, pad) == [word |-> word, pad |-> pad]
Blank == 0                     \* the empty word
NotText == -1                  \* an array entry that is no string and has none
Absent == [is |-> "absent"]    \* an Option without a value
NoRows == [is |-> "no rows"]

IsValue(p) == p.is = "value"
OnValue(p, Op(_)) == IF IsValue(p) THEN Value(Op(p.of)) ELSE p
OptionOf(p, Op(_)) == IF IsValue(p) THEN Value(Op(p.of)) ELSE Absent
Trim(t) == [t EXCEPT !.pad = 0]
Same(v) == v

(* Arrays the canonical form treats as sets are sorted by their JSON text. *)
Sorted(s) == SortSeq(s, LAMBDA a, b : 2 * a.word + a.pad < 2 * b.word + b.pad)
TrimmedSorted(s) == Sorted([i \in DOMAIN s |-> Trim(s[i])])
NonBlank(t) == t.word \notin {Blank, NotText}
Entries(s) == {s[i] : i \in DOMAIN s}
AllNonBlank(s) == \A i \in DOMAIN s : NonBlank(s[i])

-----------------------------------------------------------------------------
(* canonical.rs *)

(* canonicalize under CourseSemantic, on what canonical_course_facts keeps *)
(* of a course: not its sections nor the fields about the payload.         *)
CourseSemantic(c) ==
    [string    |-> OnValue(c.string, Trim),
     title     |-> OnValue(c.title, Trim),
     notes     |-> OnValue(c.notes, Trim),
     locations |-> OnValue(c.locations, TrimmedSorted)]

(* A derived text is left out of the semantic form when the structured     *)
(* array it was derived from can be trusted.                               *)
TrustworthySource(derived, structured) ==
    /\ IsValue(derived) /\ IsValue(structured)
    /\ IF structured.of = <<>> THEN derived.of.word = Blank ELSE AllNonBlank(structured.of)

SectionSemantic(s) ==
    [s EXCEPT !.number = OnValue(@, Trim), !.type = OnValue(@, Trim),
              !.comments = OnValue(@, TrimmedSorted), !.instructors = OnValue(@, TrimmedSorted),
              !.majors = OnValue(@, TrimmedSorted),
              !.commentsText = IF TrustworthySource(@, s.comments) THEN Missing ELSE OnValue(@, Trim)]

IdentityFacts(facts) == facts.title
VariantFingerprint(c) == IdentityFacts(CourseSemantic(c))

-----------------------------------------------------------------------------
(* delivery.rs *)

Day(letter) == CASE letter = "M" -> 1 [] letter = "T" -> 2 [] letter = "W" -> 3
                 [] letter = "H" -> 4 [] letter = "F" -> 5 [] OTHER -> 0
Letters(s, i) == IF s[i] = "T" /\ i < Len(s) /\ s[i + 1] = "H" THEN 4 ELSE Day(s[i])

ParseWeekdays(p) ==
    CASE p.is \in {"missing", "null"} -> [is |-> p.is]
      [] p.is = "malformed" -> [is |-> "invalid"]
      [] p.is = "value" /\ p.of = <<>> -> [is |-> "empty"]
      [] OTHER -> LET found == {Letters(p.of, i) : i \in DOMAIN p.of} IN
                  IF 0 \in found THEN [is |-> "invalid"] ELSE [is |-> "known", days |-> found]

(* A time text is its four digits as a number, -1 for any other text and   *)
(* -2 for the empty one.                                                   *)
EmptyTime == -2
NoMinute == -1
ParseMilitary(v, allowEndOfDay) ==
    IF v < 0 THEN NoMinute
    ELSE IF allowEndOfDay /\ v = 2400 THEN 1440
    ELSE IF v \div 100 < 24 /\ v % 100 < 60 THEN (v \div 100) * 60 + (v % 100) ELSE NoMinute

NormalizeTime(start, end) ==
    CASE start.is = "missing" /\ end.is = "missing" -> [is |-> "missing"]
      [] start.is = "null" /\ end.is = "null" -> [is |-> "null"]
      [] "malformed" \in {start.is, end.is} -> [is |-> "invalid"]
      [] IsValue(start) /\ IsValue(end) /\ (start.of = EmptyTime <=> end.of = EmptyTime) ->
           IF start.of = EmptyTime THEN [is |-> "empty"]
           ELSE LET from == ParseMilitary(start.of, FALSE)
                    to == ParseMilitary(end.of, TRUE)
                IN IF NoMinute \in {from, to} \/ to <= from THEN [is |-> "invalid"]
                   ELSE [is |-> "known", from |-> from, to |-> to]
      [] OTHER -> [is |-> "partial"]

TrimmedWord(p) == IF IsValue(p) THEN p.of.word ELSE "none"
Timeless(time) == time.is \in {"empty", "missing", "null"}

(* normalize_occurrence.  "90", "92" and "93" are the remote modes, "91"   *)
(* the hybrid one, "02" stands for the other observed codes and "77" for   *)
(* one never observed; locations "O" and "T" are remote.                   *)
NormalizeOccurrence(m) ==
    LET time == NormalizeTime(m.start, m.end)
        code == TrimmedWord(m.code)
        place == TrimmedWord(m.location)
        arranged == TrimmedWord(m.hours) = "B" /\ Timeless(time)
        observed == code \in {"02", "90", "91", "92", "93"}
        modeRemote == code \in {"90", "92", "93"}
        placeRemote == place \in {"O", "T"}
        placePhysical == place \notin {"none", "", "O", "T"}
        byArrangement == arranged /\ placeRemote
        onsite == arranged /\ ~placeRemote /\ ~modeRemote
        timed == time.is = "known"
    IN [days |-> ParseWeekdays(m.day),
        time |-> time,
        evidence |-> IF ~observed THEN "NONE"
                     ELSE IF modeRemote \/ placeRemote THEN "REMOTE"
                     ELSE IF placePhysical THEN "PHYSICAL" ELSE "NONE",
        kind |-> IF byArrangement THEN "BY_ARRANGEMENT" ELSE IF timed THEN "SCHEDULED" ELSE "UNSPECIFIED",
        synchronicity |-> CASE code = "92" -> "SYNC"
                            [] code = "93" -> "ASYNC"
                            [] code = "90" -> IF timed THEN "SYNC" ELSE IF arranged THEN "ASYNC" ELSE "UNSPECIFIED"
                            [] observed /\ ~modeRemote /\ timed -> "SYNC"
                            [] observed /\ ~modeRemote /\ ~timed /\ byArrangement -> "UNSPECIFIED"
                            [] observed /\ ~modeRemote /\ ~timed /\ onsite -> "BY_ARRANGEMENT"
                            [] OTHER -> "UNKNOWN",
        modality |-> IF ~observed THEN "UNKNOWN"
                     ELSE IF modeRemote /\ placePhysical THEN "UNKNOWN_CONFLICT"
                     ELSE IF code = "91" THEN "HYBRID"
                     ELSE IF modeRemote \/ placeRemote THEN "ONLINE"
                     ELSE IF placePhysical THEN "ON_CAMPUS_OR_IN_PERSON" ELSE "UNKNOWN"]

Occurrences(s) ==
    IF IsValue(s.meetings) THEN [i \in DOMAIN s.meetings.of |-> NormalizeOccurrence(s.meetings.of[i])] ELSE <<>>

ClassifyDelivery(type, occurrences) ==
    LET has(e) == \E i \in DOMAIN occurrences : occurrences[i].evidence = e
        kinds == {occurrences[i].synchronicity : i \in DOMAIN occurrences}
        word == TrimmedWord(type)
    IN [modality |-> CASE word = "T" -> IF has("REMOTE") THEN "UNKNOWN_CONFLICT" ELSE "ON_CAMPUS_OR_IN_PERSON"
                       [] word = "H" -> "HYBRID"
                       [] word = "O" -> IF has("PHYSICAL") THEN "UNKNOWN_CONFLICT" ELSE "ONLINE"
                       [] OTHER -> "UNKNOWN",
        synchronicity |-> IF Cardinality(kinds) = 1 THEN CHOOSE k \in kinds : TRUE
                          ELSE IF kinds = {"SYNC", "ASYNC"} THEN "MIXED" ELSE "UNKNOWN"]

-----------------------------------------------------------------------------
(* normalize.rs.  A normalised target is its variants, by key (the course  *)
(* string and the fingerprint), and its sections, by index; error names    *)
(* the reason it was refused.                                              *)
Nothing == [error |-> "none", variants |-> <<>>, sections |-> <<>>]
Refused(reason) == [error |-> reason, variants |-> <<>>, sections |-> <<>>]
Put(f, k, v) == [x \in DOMAIN f \cup {k} |-> IF x = k THEN v ELSE f[x]]

Required(p) == CASE p.is \in {"missing", "null"} -> "MissingRequiredField"
                 [] p.is = "malformed" -> "MalformedRequiredField"
                 [] OTHER -> "none"

(* merge_course_variant_facts: two courses of one variant may differ in    *)
(* their locations only, and then have the union of both.                  *)
Mergeable(old, new) ==
    /\ [old EXCEPT !.locations = Null] = [new EXCEPT !.locations = Null]
    /\ old.locations = new.locations \/ (IsValue(old.locations) /\ IsValue(new.locations))
MergedFacts(old, new) ==
    IF old.locations = new.locations THEN old
    ELSE [old EXCEPT !.locations = Value(Sorted(SetToSeq(ToSet(@.of) \cup ToSet(new.locations.of))))]

(* normalize_section. *)
NormalizeSection(variant, s) ==
    LET semantic == SectionSemantic(s) IN
    [variant |-> variant, facts |-> s, semantic |-> semantic,
     delivery |-> ClassifyDelivery(semantic.type, Occurrences(s)),
     occurrences |-> Occurrences(s)]
SectionRefusal(s) ==
    CASE s.campus.is = "malformed" -> "MalformedRequiredField"
      [] s.campus.is # "malformed" /\ Required(s.index) # "none" -> Required(s.index)
      [] OTHER -> "none"

(* Which of two equivalent records stands for the section: the one with    *)
(* the smaller raw hash.  TLC's own order of the raw facts stands in for   *)
(* the order of their hashes: any fixed total order will do.               *)
RawOrder == SetToSeq(UNION {ToSet(c.sections.of) : c \in {d \in Courses : IsValue(d.sections)}})
Rank(s) == CHOOSE i \in DOMAIN RawOrder : RawOrder[i] = s
Represents(new, old) == Rank(new.facts) < Rank(old.facts)

AbsorbSection(target, s, variant) ==
    LET new == NormalizeSection(variant, s)
        index == s.index.of
        seen == index \in DOMAIN target.sections
    IN IF target.error # "none" THEN target
       ELSE IF SectionRefusal(s) # "none" THEN Refused(SectionRefusal(s))
       ELSE IF seen /\ target.sections[index].variant # variant THEN Refused("SectionAcrossVariants")
       ELSE IF seen /\ target.sections[index].semantic # new.semantic THEN Refused("ConflictingDuplicate")
       ELSE IF seen /\ ~Represents(new, target.sections[index]) THEN target
       ELSE [target EXCEPT !.sections = Put(@, index, new)]

CourseRefusal(c) ==
    CASE c.campus.is = "malformed" -> "MalformedRequiredField"
      [] c.campus.is # "malformed" /\ Required(c.string) # "none" -> Required(c.string)
      [] OTHER -> Required(c.sections)

AbsorbCourse(target, c) ==
    LET key == <<c.string, VariantFingerprint(c)>>
        facts == CourseSemantic(c)
        known == key \in DOMAIN target.variants
        with == [target EXCEPT !.variants =
                   Put(@, key, IF known THEN MergedFacts(target.variants[key], facts) ELSE facts)]
    IN IF target.error # "none" THEN target
       ELSE IF CourseRefusal(c) # "none" THEN Refused(CourseRefusal(c))
       ELSE IF known /\ ~Mergeable(target.variants[key], facts) THEN Refused("ConflictingVariantFacts")
       ELSE FoldLeft(LAMBDA t, s : AbsorbSection(t, s, key), with, c.sections.of)

NormalizeTarget(courses) == FoldLeft(AbsorbCourse, Nothing, courses)

(* content_hash: the semantic facts only. *)
ContentHash(target) ==
    [variants |-> target.variants,
     sections |-> [i \in DOMAIN target.sections |-> <<target.sections[i].variant, target.sections[i].semantic>>]]

-----------------------------------------------------------------------------
(* mapping.rs: the rows of a normalised target. *)
MapOccurrence(n, ordinal) ==
    LET o == n.occurrences[ordinal] IN
    [ordinal |-> ordinal, facts |-> n.facts.meetings.of[ordinal],
     weekday |-> IF o.days.is = "known" THEN o.days.days ELSE {},
     minutes |-> IF o.time.is = "known" THEN <<o.time.from, o.time.to>> ELSE <<>>,
     knowledge |-> o.time.is, wire |-> <<o.kind, o.evidence, o.modality, o.synchronicity>>]

MapSection(n) ==
    [variant |-> n.variant, facts |-> n.facts, sha |-> n.semantic,
     number |-> OptionOf(n.semantic.number, Same), type |-> OptionOf(n.semantic.type, Same),
     status |-> OptionOf(n.semantic.open, Same), delivery |-> n.delivery,
     occurrences |-> {MapOccurrence(n, i) : i \in DOMAIN n.occurrences}]

MapVariant(target, key) == [facts |-> target.variants[key], sha |-> target.variants[key]]

OperationalSnapshot(target) ==
    [is |-> "rows",
     groups |-> [g \in {k[1] : k \in DOMAIN target.variants} |->
                   {k[2] : k \in {v \in DOMAIN target.variants : v[1] = g}}],
     variants |-> [k \in DOMAIN target.variants |-> MapVariant(target, k)],
     sections |-> [i \in DOMAIN target.sections |-> MapSection(target.sections[i])]]

(* catalog_content_sha256_v1: storage computes the hash again, from rows.  *)
RowsHash(r) ==
    [variants |-> [k \in DOMAIN r.variants |-> r.variants[k].sha],
     sections |-> [i \in DOMAIN r.sections |-> <<r.sections[i].variant, r.sections[i].sha>>]]

(* canonicalize_and_validate_snapshot. *)
OccurrenceStorable(o) ==
    /\ o.knowledge = "known" <=> o.minutes # <<>>
    /\ o.knowledge = "known" => o.minutes[1] < 1440 /\ o.minutes[2] <= 1440 /\ o.minutes[2] > o.minutes[1]
SnapshotStorable(r) ==
    /\ \A k \in DOMAIN r.variants : k[1] \in DOMAIN r.groups
    /\ \A i \in DOMAIN r.sections : /\ r.sections[i].variant \in DOMAIN r.variants
                                    /\ \A o \in r.sections[i].occurrences : OccurrenceStorable(o)

-----------------------------------------------------------------------------
(* projection.rs *)
Known(v) == [known |-> "present", value |-> v]
Unknown(reason) == [known |-> "unknown", why |-> reason]
Knowledge(p) ==
    CASE p.is = "missing" -> [known |-> "absent"]
      [] p.is = "null" -> [known |-> "null"]
      [] p.is = "malformed" -> Unknown("malformed")
      [] OTHER -> Known(p.of)
StringKnowledge(p) == Knowledge(p)
SemanticString(p) == Knowledge(OnValue(p, Trim))

(* value_array_knowledge: one bad entry makes the whole array unknown. *)
ArrayKnowledge(p) ==
    IF IsValue(p) /\ ~AllNonBlank(p.of) THEN Unknown("malformed")
    ELSE Knowledge(OnValue(p, Entries))
CommentsKnowledge(p) == ArrayKnowledge(OnValue(p, TrimmedSorted))
MajorsKnowledge(p) == ArrayKnowledge(OnValue(p, TrimmedSorted))
InstructorsKnowledge(p) ==
    IF IsValue(p) /\ \E i \in DOMAIN p.of : ~NonBlank(p.of[i])
    THEN LET first == CHOOSE i \in DOMAIN p.of : ~NonBlank(p.of[i]) /\ \A j \in 1..(i - 1) : NonBlank(p.of[j])
         IN Unknown(IF p.of[first].word = NotText THEN "malformed" ELSE "sparse")
    ELSE Knowledge(OnValue(p, TrimmedSorted))

(* comments_text_knowledge: the text is rebuilt from the structured        *)
(* comments when they are the better authority.                            *)
Authoritative(structured, derived) ==
    CASE derived.is = "missing" -> AllNonBlank(structured)
      [] derived.is = "value" -> IF structured = <<>> THEN derived.of.word = Blank ELSE AllNonBlank(structured)
      [] OTHER -> FALSE
CommentsText(s) ==
    IF IsValue(s.comments) /\ Authoritative(s.comments.of, s.commentsText)
    THEN Known(CommentsKnowledge(s.comments).value)
    ELSE SemanticString(s.commentsText)

VariantValid(key, v) ==
    /\ v.facts.string = key[1]
    /\ v.sha = v.facts
    /\ VariantFingerprint(v.facts) = key[2]
VariantView(v) ==
    [title |-> StringKnowledge(v.facts.title), notes |-> StringKnowledge(v.facts.notes),
     locations |-> ArrayKnowledge(v.facts.locations)]

(* project_section refuses a row whose flattened columns are not those of  *)
(* its facts, and project_occurrence one whose derivation is not.          *)
OccurrenceValid(o) ==
    LET n == NormalizeOccurrence(o.facts) IN
    /\ o.weekday = IF n.days.is = "known" THEN n.days.days ELSE {}
    /\ o.minutes = IF n.time.is = "known" THEN <<n.time.from, n.time.to>> ELSE <<>>
    /\ o.knowledge = n.time.is
    /\ o.wire = <<n.kind, n.evidence, n.modality, n.synchronicity>>
SectionValid(index, r) ==
    /\ r.facts.index = Value(index)
    /\ SectionSemantic(r.facts) = r.sha
    /\ r.number = OptionOf(r.facts.number, Trim)
    /\ r.type = OptionOf(r.facts.type, Trim)
    /\ r.status = OptionOf(r.facts.open, Same)
SectionDerived(r) ==
    LET expected == Occurrences(r.facts) IN
    /\ Cardinality(r.occurrences) = Len(expected)
    /\ \A i \in DOMAIN expected : \E o \in r.occurrences :
         o.ordinal = i /\ o.facts = r.facts.meetings.of[i] /\ OccurrenceValid(o)
    /\ r.delivery = ClassifyDelivery(r.facts.type, expected)
SectionView(r) ==
    [variant |-> r.variant, delivery |-> r.delivery, number |-> SemanticString(r.facts.number),
     type |-> SemanticString(r.facts.type), comments |-> CommentsKnowledge(r.facts.comments),
     text |-> CommentsText(r.facts), instructors |-> InstructorsKnowledge(r.facts.instructors),
     majors |-> MajorsKnowledge(r.facts.majors), open |-> StringKnowledge(r.facts.open),
     occurrences |-> {[ordinal |-> o.ordinal, facts |-> o.facts, wire |-> o.wire] : o \in r.occurrences}]

(* validate_group_facts and the identity checks of to_normalized_catalog.  *)
GroupsValid(r) ==
    \A g \in DOMAIN r.groups : r.groups[g] = {k[2] : k \in {v \in DOMAIN r.variants : v[1] = g}}
Projects(r) ==
    /\ GroupsValid(r)
    /\ \A k \in DOMAIN r.variants : VariantValid(k, r.variants[k])
    /\ \A i \in DOMAIN r.sections : SectionValid(i, r.sections[i]) /\ SectionDerived(r.sections[i])
View(r) ==
    [variants |-> [k \in DOMAIN r.variants |-> VariantView(r.variants[k])],
     sections |-> [i \in DOMAIN r.sections |-> SectionView(r.sections[i])]]

-----------------------------------------------------------------------------
Payloads == UNION {[1..n -> Courses] : n \in 0..MaxCourses}
Normalized == [p \in Payloads |-> NormalizeTarget(p)]

(* One refresh: a refused payload changes nothing, an empty one does not   *)
(* replace courses, an equal content hash keeps the rows.                  *)
RefreshCatalog(p) ==
    LET target == Normalized[p]
        new == OperationalSnapshot(target)
        stored == target.error = "none" /\ SnapshotStorable(new) /\ RowsHash(new) = ContentHash(target)
        suspect == rows # NoRows /\ p = <<>> /\ rows.variants # <<>>
    IN /\ refreshes < MaxRefreshes /\ refreshes' = refreshes + 1
       /\ Len(p) <= IF refreshes = 0 THEN MaxCourses ELSE MaxLater
       /\ payload' = p
       /\ accepted' = IF stored /\ ~suspect THEN p ELSE accepted
       /\ rows' = IF ~stored \/ suspect THEN rows
                  ELSE IF rows # NoRows /\ RowsHash(rows) = RowsHash(new) THEN rows
                  ELSE new

PipelineInit == payload = <<>> /\ rows = NoRows /\ accepted = <<>> /\ refreshes = 0
PipelineNext == \E p \in Payloads : RefreshCatalog(p)
PipelineSpec == PipelineInit /\ [][PipelineNext]_pipelineVars

-----------------------------------------------------------------------------
(* What is served is what the latest accepted payload says.  The rows a    *)
(* refresh leaves behind always pass the reader's re-derivation            *)
(* (to_normalized_catalog_v1 never refuses what this pipeline stored), and *)
(* keeping the old rows because the content hash did not change never      *)
(* hides a difference that a reader could see.                             *)
ServedIsLatest ==
    rows # NoRows =>
      /\ Projects(rows)
      /\ View(rows) = View(OperationalSnapshot(Normalized[accepted]))

(* Nothing a normalised payload contains is refused by storage, and        *)
(* whether it is accepted, and its content hash, do not depend on the      *)
(* order in which Rutgers lists the courses.                               *)
OrderBlind ==
    LET forth == Normalized[payload]
        back == NormalizeTarget(Reverse(payload))
    IN /\ forth.error = "none" <=> back.error = "none"
       /\ ContentHash(forth) = ContentHash(back)
       /\ forth.error = "none" => /\ SnapshotStorable(OperationalSnapshot(forth))
                                  /\ OperationalSnapshot(forth) = OperationalSnapshot(back)

=============================================================================
