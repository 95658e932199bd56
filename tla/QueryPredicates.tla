--------------------------- MODULE QueryPredicates ---------------------------
(***************************************************************************)
(* The three-valued filter predicates of crate bcsp-query: a filter over   *)
(* incomplete catalog facts answers MATCH, NO_MATCH or UNCERTAIN, with the *)
(* codes that explain it. The state is one question: a subject (a section  *)
(* with its occurrences, or a course variant) and the filter it meets.     *)
(*                                                                         *)
(* A known field is [know |-> "present", value |-> v]; the others are an   *)
(* explicit null, an absent field and an unknown one with its reason.      *)
(* Texts are compared by identity; case folding and trimming are done.     *)
(***************************************************************************)
EXTENDS Naturals, FiniteSets

CONSTANTS MaxOccurrences, Minutes, Days

VARIABLES
    about,       \* "sync", "place", "time" or "course": which predicate is asked
    subject,     \* the section or variant
    parts,       \* its occurrences; irrelevant when ~listed
    listed,      \* the occurrence list is known
    wanted       \* the filter's selection

questionVars == <<about, subject, parts, listed, wanted>>

-----------------------------------------------------------------------------
(* Evaluations (evaluation.rs): an outcome with the codes that explain    *)
(* it, conjunction and disjunction.                                        *)
Matched == [outcome |-> "MATCH", codes |-> {}]
Uncertain(code) == [outcome |-> "UNCERTAIN", codes |-> {code}]
NoMatch == [outcome |-> "NO_MATCH", codes |-> {"KNOWN_MISMATCH"}]
BoolResult(b) == IF b THEN Matched ELSE NoMatch
Outcomes(evaluations) == {e.outcome : e \in evaluations}

Aggregate(outcome, evaluations, uncertaintyOnly) ==
    [outcome |-> outcome,
     codes |-> {c \in UNION {e.codes : e \in evaluations} : uncertaintyOnly => c # "KNOWN_MISMATCH"}]

AndAll(evaluations) ==
    IF "NO_MATCH" \in Outcomes(evaluations) THEN Aggregate("NO_MATCH", evaluations, FALSE)
    ELSE IF "UNCERTAIN" \in Outcomes(evaluations) THEN Aggregate("UNCERTAIN", evaluations, FALSE)
    ELSE Matched

OrActive(evaluations) ==
    IF evaluations = {} \/ "MATCH" \in Outcomes(evaluations) THEN Matched
    ELSE IF "UNCERTAIN" \in Outcomes(evaluations) THEN Aggregate("UNCERTAIN", evaluations, TRUE)
    ELSE Aggregate("NO_MATCH", evaluations, FALSE)

(* MatchExplanation::try_new; its error is a panic in into_explanation.    *)
ExplanationValid(e) ==
    CASE e.outcome = "MATCH" -> e.codes = {}
      [] e.outcome = "UNCERTAIN" -> e.codes # {} /\ "KNOWN_MISMATCH" \notin e.codes
      [] e.outcome = "NO_MATCH" -> "KNOWN_MISMATCH" \in e.codes

(* evaluate_open: evidence that is stale, unknown or doubtful counts as    *)
(* UNKNOWN.                                                                *)
EvaluateOpen(e, selected) ==
    IF selected = {} THEN Matched
    ELSE IF ~e.fresh \/ e.state = "unknown" \/ e.doubt # "none" THEN
           IF "unknown" \in selected THEN Matched
           ELSE Uncertain(IF e.doubt \in {"none", "KNOWN_MISMATCH"} THEN "MISSING_RELIABLE_DATA" ELSE e.doubt)
    ELSE BoolResult(e.state \in selected)

-----------------------------------------------------------------------------
Present(v) == [know |-> "present", value |-> v]
Without(kind) == [know |-> kind]
IsPresent(k) == k.know = "present"
(* unknown_reason_code, and the codes of a null or an absent field.        *)
CodeOf(k) ==
    CASE k.know \in {"null", "absent", "missing"} -> "MISSING_RELIABLE_DATA"
      [] k.know = "malformed" -> "INVALID_VALUE"
      [] k.know = "unavailable" -> "SOURCE_UNAVAILABLE"
      [] k.know = "conflicting" -> "CONFLICTING_EVIDENCE"

-----------------------------------------------------------------------------
EvaluateKnown(k, holds) == IF IsPresent(k) THEN BoolResult(holds) ELSE Uncertain(CodeOf(k))
ExactValues(k, selected) == IF selected = {} THEN Matched ELSE EvaluateKnown(k, k.value \in selected)

-----------------------------------------------------------------------------
(* Whether an occurrence is an online component, and whether it makes the  *)
(* student travel. Answers "yes", "no" or the code of the doubt.           *)
BySection(doubt) ==
    CASE subject.modality = "campus" -> "no"
      [] subject.modality = "online" -> "yes"
      [] OTHER -> doubt

OnlineApplicability(p) ==
    IF p.evidence = "remote" THEN "yes"
    ELSE IF IsPresent(p.modality) THEN
           IF p.modality.value \in {"online", "hybrid"} THEN "yes"
           ELSE IF p.evidence = "physical" \/ p.modality.value = "campus" THEN "no"
           ELSE IF p.modality.value = "conflict" THEN "CONFLICTING_EVIDENCE"
           ELSE BySection("UNKNOWN_VALUE")
         ELSE IF p.evidence = "physical" THEN "no" ELSE BySection(CodeOf(p.modality))

Opposite(answer) == IF answer = "yes" THEN "no" ELSE IF answer = "no" THEN "yes" ELSE answer

TravelApplicability(p) ==
    IF p.evidence # "none" THEN IF p.evidence = "physical" THEN "yes" ELSE "no"
    ELSE IF IsPresent(p.modality) THEN
           IF p.modality.value = "online" THEN "no"
           ELSE IF p.modality.value \in {"campus", "hybrid"} THEN "yes"
           ELSE IF p.modality.value = "conflict" THEN "CONFLICTING_EVIDENCE"
           ELSE Opposite(BySection("UNKNOWN_VALUE"))
         ELSE Opposite(BySection(CodeOf(p.modality)))

Doubts(S, applicability(_)) == {applicability(p) : p \in S} \ {"yes", "no"}

-----------------------------------------------------------------------------
(* evaluate_synchronicity. An online component without a usable timing is  *)
(* in doubt, unless it is remote by arrangement, which counts as ASYNC.    *)
RemoteByArrangement(p) == p.evidence = "remote" /\ p.arranged
Usable(p) == IsPresent(p.sync) /\ p.sync.value \in {"sync", "async", "mixed"}
Timing(p) ==
    IF Usable(p) THEN IF p.sync.value = "mixed" THEN {"sync", "async"} ELSE {p.sync.value}
    ELSE IF RemoteByArrangement(p) THEN {"async"} ELSE {}
TimingCode(p) == IF IsPresent(p.sync) THEN "UNKNOWN_VALUE" ELSE CodeOf(p.sync)

SynchronicityValue(actual, selected) ==
    IF actual \notin {"sync", "async", "mixed"} THEN Uncertain("UNKNOWN_VALUE")
    ELSE BoolResult(actual \in selected)

Category(kinds) == IF kinds = {"sync", "async"} THEN "mixed" ELSE CHOOSE k \in kinds : TRUE

MutCouldMatch(kinds, selected) == kinds = {} \/ kinds \cap selected # {}
CouldMatch(kinds, selected) == kinds = {} \/ (kinds \cup {"mixed"}) \cap selected # {}

EvaluateSynchronicity(S, selected) ==
    LET online == {p \in S : OnlineApplicability(p) = "yes"}
        kinds == UNION {Timing(p) : p \in online}
        doubts == {Uncertain(c) : c \in Doubts(S, OnlineApplicability)}
                  \cup {Uncertain(TimingCode(p)) : p \in {q \in online : Timing(q) = {}}}
    IN IF selected = {} THEN Matched
       ELSE IF ~listed \/ S = {} THEN
              IF subject.modality = "campus" THEN Matched
              ELSE IF subject.modality = "online" THEN SynchronicityValue(subject.sync, selected)
              ELSE Uncertain("MISSING_RELIABLE_DATA")
       ELSE IF doubts # {} THEN
              IF Cardinality(kinds) = 2 THEN BoolResult("mixed" \in selected)
              ELSE IF CouldMatch(kinds, selected) THEN AndAll(doubts) ELSE NoMatch
       ELSE IF kinds # {} THEN SynchronicityValue(Category(kinds), selected)
       ELSE IF subject.modality = "campus" THEN Matched
       ELSE Uncertain("MISSING_RELIABLE_DATA")

(* evaluate_meeting_location.                                              *)
EvaluateMeetingLocation(S, selected) ==
    LET attended == {p \in S : ~p.optional}
        travelled == {p \in attended : TravelApplicability(p) = "yes"}
    IN IF selected = {} THEN Matched
       ELSE IF ~listed \/ S = {} THEN
              IF subject.modality = "online" THEN Matched ELSE Uncertain("MISSING_RELIABLE_DATA")
       ELSE AndAll({OrActive({ExactValues(p.place, selected), ExactValues(p.name, selected)}) : p \in travelled}
                   \cup {Uncertain(c) : c \in Doubts(attended, TravelApplicability)})

(* schedule_evidence and evaluate_availability. A time is "known", or      *)
(* "missing", "tba" or "invalid"; days are a known set, or not known.      *)
Fits(p, windows) == \A d \in p.days.value : \E w \in windows : w.day = d /\ w.from <= p.from /\ p.to <= w.to

Attendance(p, windows) ==
    IF IsPresent(p.sync) /\ p.sync.value = "async" THEN Matched
    ELSE IF p.time = "missing" THEN Uncertain("MISSING_RELIABLE_DATA")
    ELSE IF p.time = "tba" THEN Uncertain("TBA")
    ELSE IF p.time = "invalid" THEN Uncertain("INVALID_VALUE")
    ELSE IF IsPresent(p.days) THEN IF p.days.value = {} THEN Uncertain("TBA") ELSE BoolResult(Fits(p, windows))
    ELSE IF p.days.know = "null" THEN Uncertain("TBA") ELSE Uncertain(CodeOf(p.days))

EvaluateAvailability(S, windows) ==
    IF windows = {} THEN Matched
    ELSE IF ~listed \/ S = {} THEN
           IF subject.sync = "async" THEN Matched ELSE Uncertain("MISSING_RELIABLE_DATA")
    ELSE AndAll({Attendance(p, windows) : p \in {q \in S : ~q.optional}})

-----------------------------------------------------------------------------
(* The course half: evaluate_credits over parse_credit_value, core codes,  *)
(* prerequisites, the number band, permission.                             *)
EvaluateCredits(k, range) ==
    IF ~IsPresent(k) THEN Uncertain(CodeOf(k))
    ELSE IF k.value.form = "variable" THEN Uncertain("UNKNOWN_VALUE")
    ELSE IF k.value.form = "garbled" \/ k.value.low > k.value.high THEN Uncertain("INVALID_VALUE")
    ELSE BoolResult(range.low <= k.value.low /\ k.value.high <= range.high)

EvaluateCore(k, codes, all) ==
    IF codes = {} THEN Matched
    ELSE IF ~IsPresent(k) THEN Uncertain(CodeOf(k))
    ELSE LET each == {BoolResult(c \in k.value) : c \in codes} IN IF all THEN AndAll(each) ELSE OrActive(each)

EvaluatePrerequisite(actual, selected) ==
    IF selected = "any" THEN Matched
    ELSE IF actual = "unknown" THEN Uncertain("UNKNOWN_VALUE") ELSE BoolResult(actual = selected)

EvaluateNumberBand(k, bands) ==
    IF bands = {} THEN Matched
    ELSE IF ~IsPresent(k) THEN Uncertain(CodeOf(k))
    ELSE IF k.value = "no band" THEN Uncertain("INVALID_VALUE") ELSE BoolResult(k.value \in bands)

EvaluatePermission(k, selected) ==
    IF selected = "any" THEN Matched
    ELSE IF IsPresent(k) THEN BoolResult((selected = "required") = (k.value # "blank"))
    ELSE IF k.know = "null" THEN BoolResult(selected = "not required")
    ELSE Uncertain(CodeOf(k))

EvaluateModality(actual, selected) ==
    IF selected = {} THEN Matched
    ELSE IF actual = "conflict" THEN Uncertain("CONFLICTING_EVIDENCE")
    ELSE IF actual \in {"other", "unknown"} THEN Uncertain("UNKNOWN_VALUE")
    ELSE BoolResult(actual \in selected)

(* course_filter_evaluations and summarize_filter_evaluations, for the     *)
(* subject and the filter of a course question.                            *)
CourseEvaluations ==
    {EvaluateCredits(subject.credits, wanted.credits), EvaluateCore(subject.core, wanted.core, wanted.all),
     EvaluatePrerequisite(subject.prerequisite, wanted.prerequisite),
     EvaluateNumberBand(subject.band, wanted.bands), EvaluatePermission(subject.permission, wanted.permission),
     EvaluateOpen(subject.open, wanted.open), EvaluateModality(subject.modality, wanted.modalities)}

Answer(S) ==
    CASE about = "sync" -> EvaluateSynchronicity(S, wanted)
      [] about = "place" -> EvaluateMeetingLocation(S, wanted)
      [] about = "time" -> EvaluateAvailability(S, wanted)
      [] about = "course" -> AndAll(CourseEvaluations)

-----------------------------------------------------------------------------
(* The questions. Each predicate meets the fields it reads; the others     *)
(* keep a plain value.                                                     *)
Vague(values) == {Present(v) : v \in values} \cup {Without("missing")}
PlainPart ==
    [id |-> 1, evidence |-> "none", arranged |-> FALSE, modality |-> Present("campus"), sync |-> Present("sync"),
     optional |-> FALSE, place |-> Present("here"), name |-> Present("here"), time |-> "known",
     from |-> 0, to |-> 1, days |-> Present({1})]

Parts(kind) ==
    CASE kind = "sync" ->
           {[PlainPart EXCEPT !.evidence = e[1], !.arranged = e[2], !.modality = m, !.sync = t] :
              e \in {<<"remote", FALSE>>, <<"remote", TRUE>>, <<"physical", FALSE>>, <<"none", FALSE>>},
              m \in Vague({"online", "unknown", "conflict"}), t \in Vague({"sync", "async", "arranged"})}
      [] kind = "place" ->
           {[PlainPart EXCEPT !.optional = TRUE, !.place = Present("there")]} \cup
           {[PlainPart EXCEPT !.evidence = e, !.modality = m, !.place = x, !.name = n] :
              e \in {"remote", "physical", "none"}, m \in Vague({"online", "conflict"}),
              x \in Vague({"here", "there"}), n \in Vague({"there"})}
      [] kind = "time" ->
           {[PlainPart EXCEPT !.optional = TRUE, !.time = "tba"], [PlainPart EXCEPT !.sync = Present("async")]} \cup
           {[PlainPart EXCEPT !.time = k] : k \in {"missing", "tba", "invalid"}} \cup
           {[PlainPart EXCEPT !.from = f, !.to = f + 1, !.days = d] :
              f \in Minutes, d \in {Present(D) : D \in SUBSET Days} \cup {Without("null"), Without("missing")}}
      [] kind = "course" -> {}

Windows == {w \in [day : Days, from : Minutes, to : {m + 1 : m \in Minutes}] : w.from < w.to}

SectionQuestion ==
    /\ about \in {"sync", "place", "time"}
    /\ listed \in BOOLEAN
    /\ subject \in [modality : {"campus", "hybrid", "online"}, sync : {"sync", "async", "unknown"}]
    /\ listed => subject.sync = "async"
    /\ CASE about = "sync" -> wanted \in SUBSET {"sync", "async", "mixed"} \ {{}}
         [] about = "place" -> wanted \in {{}, {"here"}, {"there"}}
         [] about = "time" -> wanted \in {W \in SUBSET Windows : Cardinality(W) <= 2}

CourseQuestion ==
    /\ about = "course" /\ listed = FALSE
    /\ subject \in [credits : Vague([form : {"range"}, low : {1, 3}, high : {2, 3}]
                                    \cup [form : {"variable", "garbled"}, low : {1}, high : {1}]),
                    core : Vague({{}, {"a"}}), prerequisite : {"has", "none reported", "unknown"},
                    band : Vague({"100", "no band"}), permission : {Present("blank"), Without("null"), Without("absent")},
                    open : {[fresh |-> f, state |-> "open", doubt |-> d] : f \in BOOLEAN, d \in {"none", "TBA"}},
                    modality : {"online", "conflict"}]
    /\ wanted = [credits |-> [low |-> 1, high |-> 3], core |-> {"a", "b"}, all |-> FALSE, prerequisite |-> "has",
                 bands |-> {"100"}, permission |-> "not required", open |-> {"open"}, modalities |-> {"online"}]

QuestionInit == parts = {} /\ (SectionQuestion \/ CourseQuestion)

AddOccurrence ==
    /\ listed /\ Cardinality(parts) < MaxOccurrences
    /\ \E p \in Parts(about) : parts' = parts \cup {[p EXCEPT !.id = Cardinality(parts) + 1]}
    /\ UNCHANGED <<about, subject, listed, wanted>>

QuestionSpec == QuestionInit /\ [][AddOccurrence]_questionVars

-----------------------------------------------------------------------------
(* What an occurrence may turn out to be. The evidence, and for an unnamed *)
(* modality the section's own, say where it takes place; a meeting remote  *)
(* by arrangement keeps no hours.                                          *)
ModalitiesOf(p) ==
    IF IsPresent(p.modality) /\ p.modality.value \in {"campus", "hybrid", "online"} THEN {p.modality.value}
    ELSE IF p.evidence = "remote" THEN {"online"}
    ELSE IF p.evidence = "physical" THEN {"campus"}
    ELSE IF p.modality # Present("conflict") /\ subject.modality \in {"campus", "online"} THEN {subject.modality}
    ELSE {"campus", "hybrid", "online"}

TimingsOf(p) ==
    IF Usable(p) THEN {p.sync.value} ELSE IF RemoteByArrangement(p) THEN {"async"} ELSE {"sync", "async", "mixed"}

ValuesOf(k, all) == IF IsPresent(k) THEN {k.value} ELSE all

Completions(p) ==
    CASE about = "sync" ->
           {[p EXCEPT !.modality = Present(m), !.sync = Present(t)] : m \in ModalitiesOf(p), t \in TimingsOf(p)}
      [] about = "place" ->
           {[p EXCEPT !.modality = Present(m), !.place = Present(x), !.name = Present(n)] :
              m \in ModalitiesOf(p), x \in ValuesOf(p.place, {"here", "there"}),
              n \in ValuesOf(p.name, {"here", "there"})}
      [] about = "time" ->
           {[p EXCEPT !.time = "known", !.from = f, !.to = f + 1, !.days = Present(D)] :
              f \in IF p.time = "known" THEN {p.from} ELSE Minutes,
              D \in IF IsPresent(p.days) /\ p.days.value # {} THEN {p.days.value} ELSE SUBSET Days \ {{}}}

(* A decided answer is final: whatever the unknown fields of the           *)
(* occurrences turn out to hold, MATCH stays MATCH and NO_MATCH stays      *)
(* NO_MATCH. "Unknown members must not erase facts already proved by known *)
(* online components" (predicates.rs), and an occurrence without usable    *)
(* times excludes nothing (availability.rs).                               *)
DecidedIsFinal ==
    (about # "course" /\ listed /\ parts # {} /\ Answer(parts).outcome # "UNCERTAIN") =>
      \A f \in [parts -> UNION {Completions(p) : p \in parts}] :
        (\A p \in parts : f[p] \in Completions(p))
          => Answer({f[p] : p \in parts}).outcome = Answer(parts).outcome

(* Every answer can be explained: MATCH gives no reason, UNCERTAIN gives   *)
(* reasons of which none is a mismatch, NO_MATCH names a mismatch. The     *)
(* engine panics otherwise (into_explanation).                             *)
AnswersExplain ==
    /\ ExplanationValid(Answer(parts))
    /\ about = "course" => \A e \in CourseEvaluations : ExplanationValid(e)
=============================================================================
