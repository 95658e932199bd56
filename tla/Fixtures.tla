------------------------------ MODULE Fixtures ------------------------------
(***************************************************************************)
(* The data the instances work on: answers of the origin, catalogs,        *)
(* discovery pages, calendar days.  Constants only.                        *)
(***************************************************************************)
EXTENDS Integers, Sequences

(* Open pulls (OpenStatus): one way or another a request can go wrong, and *)
(* bodies with a repeated and with an unknown section.                     *)
Reply == [wire |-> "ok", status |-> 200, location |-> "none", type |-> "json", length |-> "fits",
          body |-> "array", values |-> <<>>, header |-> "text"]
AnyReply ==
    {[Reply EXCEPT !.wire = w] : w \in {"build", "timeout", "decode", "reset", "moved"}}
    \cup {[Reply EXCEPT !.status = c] : c \in {304, 403, 404, 408, 429, 500}}
    \cup {[Reply EXCEPT !.status = 302, !.location = l] : l \in {"same", "off", "none"}}
    \cup {[Reply EXCEPT !.body = b] : b \in {"garbage", "object", "over", "timeout"}}
    \cup {[Reply EXCEPT !.values = v] : v \in {<<"s1", "number">>, <<"text">>}}
    \cup {[Reply EXCEPT !.type = "html"], [Reply EXCEPT !.length = "over"],
          [Reply EXCEPT !.header = "empty", !.status = 500]}
    \cup {[Reply EXCEPT !.values = v] : v \in {<<>>, <<"s1", "s1">>, <<"s2", "gone">>, <<"gone">>}}
PullReplies ==
    <<{[Reply EXCEPT !.values = <<"s1", "s1">>], [Reply EXCEPT !.status = 500]},
      AnyReply,
      {[Reply EXCEPT !.values = <<"s2", "gone">>]}>>
PullCatalogs == {[name |-> "a", sections |-> {"s1", "s2"}], [name |-> "b", sections |-> {"s1"}]}

(* CatalogPipeline: duplicates that differ in padding, order or in what    *)
(* they leave out, one section under two courses, malformed parts.         *)
Missing == [is |-> "missing"]
Null == [is |-> "null"]
Malformed == [is |-> "malformed"]
Value(v) == [is |-> "value", of |-> v]
Text(word, pad) == [word |-> word, pad |-> pad]
NotText == -1
Plain(word) == Value(Text(word, 0))
Padded(word) == Value(Text(word, 1))
Timed == [day |-> Value(<<"T", "H">>), start |-> Value(900), end |-> Value(2400),
          code |-> Value(Text("90", 1)), location |-> Value(Text("1", 0)), hours |-> Missing]
Untimed == [day |-> Missing, start |-> Null, end |-> Null, code |-> Value(Text("02", 0)),
            location |-> Missing, hours |-> Value(Text("B", 0))]
Section(i, number, type, comments, text, meetings) ==
    [index |-> i, campus |-> Missing, number |-> number, type |-> type, open |-> Value(TRUE),
     comments |-> comments, commentsText |-> text,
     instructors |-> Value(<<Text(2, 1), Text(1, 0)>>), majors |-> Missing, meetings |-> meetings]
First(number, type, comments, text) ==
    Section(Value(1), number, type, Value(comments), text, Value(<<Timed, Untimed>>))
S1 == First(Plain("01"), Padded("T"), <<Text(2, 0), Text(1, 1)>>, Plain(7))
S1Padded == First(Padded("01"), Plain("T"), <<Text(1, 0), Text(2, 0)>>, Missing)
S1Odd(text) == First(Plain("01"), Plain("T"), <<Text(1, 0), Text(NotText, 0)>>, Plain(text))
S2(text) == Section(Value(2), Malformed, Null, Value(<<>>), text, Missing)
Course(title, notes, locations, sections) ==
    [string |-> Plain(1), campus |-> Missing, title |-> title, notes |-> notes,
     locations |-> locations, sections |-> sections]
RawCourses ==
    {Course(Plain(1), Plain(1), Value(<<Text(1, 0)>>), Value(<<S1>>)),
     Course(Padded(1), Plain(1), Value(<<Text(2, 0), Text(1, 1)>>), Value(<<S1Padded>>)),
     Course(Plain(1), Padded(1), Value(<<Text(1, 0), Text(1, 0)>>), Value(<<S2(Padded(0))>>)),
     Course(Plain(1), Plain(1), Missing, Value(<<S1Odd(8)>>)),
     Course(Plain(1), Plain(1), Missing, Value(<<S1Odd(9), S2(Null)>>)),
     Course(Plain(2), Null, Malformed, Value(<<S1>>)),
     Course(Plain(2), Null, Malformed, Value(<<S2(Null), S2(Null)>>)),
     Course(Plain(1), Plain(3), Value(<<Text(1, 0)>>), Missing)}

(* Discovery pages (DiscoveryPipeline): a good one, one whose script       *)
(* changed, another term, an online campus, and scripts with a repeated    *)
(* definition, a cycle, a gap and two candidates.                          *)
Word(v) == [kind |-> "text", value |-> v]
Campuses(codes) ==
    [name |-> "CAMPUSES",
     body |-> [i \in DOMAIN codes |->
        <<[key |-> "code", scalar |-> Word(codes[i])], [key |-> "name", scalar |-> Word("n")],
          [key |-> "type", scalar |-> [kind |-> "integer", value |-> 0]]>>]]
SemesterNames ==
    [name |-> "_SEMESTER_NAMES",
     body |-> [i \in 1..4 |-> [key |-> <<0, 1, 7, 9>>[i], scalar |-> Word("s")]]]
Semesters(n) == [name |-> "getSemesters", body |-> [counts |-> <<n>>, pushes |-> TRUE]]
Arrow(a, b) == [from |-> a, to |-> b]
Previous(arrows) ==
    [name |-> "getPreviousSemester", body |-> [returns |-> TRUE, arrows |-> arrows, wraps |-> <<9>>]]
Walk == Previous(<<Arrow(9, 7), Arrow(7, 1), Arrow(1, 0)>>)
Script(v) == [sameOrigin |-> TRUE, path |-> "/soc/js/soc_utils.js", version |-> v]
Page(term, campus, codes, n) ==
    [currentTermDate |-> <<[year |-> 2026, term |-> term, campus |-> campus, dated |-> TRUE]>>,
     scripts |-> <<Script("v1")>>,
     script |-> <<Campuses(codes), SemesterNames, Semesters(n), Walk>>]
Good == Page(9, "NB", <<"NB", "ONLINE_NB">>, 2)
DiscoveryPages ==
    <<Good,
      [Good EXCEPT !.scripts = <<Script("v2")>>],
      Page(0, "NB", <<"NB", "NK">>, 2),
      Page(9, "ONLINE_NB", <<"ONLINE_NB">>, 1),
      [Good EXCEPT !.script = @ \o <<Campuses(<<"NB">>)>>],
      [Good EXCEPT !.script[4] = Previous(<<Arrow(9, 7), Arrow(7, 9), Arrow(1, 0)>>)],
      [Good EXCEPT !.script[4] = Previous(<<Arrow(9, 7), Arrow(7, 1)>>)],
      [Good EXCEPT !.scripts = @ \o @]>>

(* The catalogs a target publishes: labels that agree, conflict, are       *)
(* missing or malformed.                                                   *)
Stated(v) == [state |-> "VALUE", value |-> v]
Unstated(state) == [state |-> state]
Variant(subject, description, cores) ==
    [subject |-> Stated(subject), description |-> description, cores |-> cores]
CoreText == [kind |-> "text", code |-> "QR"]
CoreObject(d) == [kind |-> "object", code |-> "QR", description |-> Stated(d)]
TargetBooks ==
    {{Variant("198", Stated("CS"), Stated({CoreText}))},
     {Variant("198", Stated("CS"), Stated({CoreObject("Quant")})),
      Variant("198", Stated("CompSci"), Stated({CoreObject("Other")}))},
     {Variant("198", Unstated("MISSING"), Stated({CoreText, [kind |-> "number", code |-> ""]})),
      Variant("198", Unstated("EXPLICIT_NULL"), Unstated("MISSING")),
      Variant("bad code", Stated("X"), Unstated("MISSING")),
      Variant("640", Unstated("MALFORMED"), Unstated("MISSING"))}}
BookShelf == {<<<<9, 2026>>, "NB">>}

(* Days of the calendar between the ends of its terms (Calendars), and     *)
(* the first days of leap, common and century years.                       *)
QuietDays == {20250901, 20260117, 20260514, 20260831, 20270116, 20270513, 20270831, 20280115,
              20280511, 20280904, 20281223, 20290510, 20310515}
YearStarts ==
    {[year |-> 1900, count |-> -25567, weekday |-> 1], [year |-> 1970, count |-> 0, weekday |-> 4],
     [year |-> 2000, count |-> 10957, weekday |-> 6], [year |-> 2024, count |-> 19723, weekday |-> 1],
     [year |-> 2100, count |-> 47482, weekday |-> 5]}

(* QueryService: two catalogs whose options differ in case, in label and   *)
(* in what they leave out; word 7 has a letter outside ASCII.              *)
Small(w) == [word |-> w, upper |-> FALSE]
Capital(w) == [word |-> w, upper |-> TRUE]
Nothing == Small(0)
Coded(code, name) == [code |-> code, name |-> name]
Rows(bands, levels, instructors, places) ==
    [band |-> bands, level |-> levels, instructor |-> instructors, location |-> places, exam |-> places]
FirstContent ==
    [groups |-> {Capital(9)}, terms |-> {Small(1), Small(7)}, subjects |-> {Small(1)}, cores |-> {Capital(3), Small(4)},
     documents |-> {[variant |-> "a", words |-> {1, 2}], [variant |-> "b", words |-> {2}]}, sections |-> {"s1", "s2"},
     rows |-> Rows(<<Coded(Small(101), Nothing), Coded(Small(250), Nothing)>>, <<Coded(Small(2), Nothing)>>,
                   <<Coded(Small(7), Nothing), Coded(Capital(5), Nothing), Coded(Small(5), Nothing)>>,
                   <<Coded(Small(2), Small(3)), Coded(Nothing, Small(7)), Coded(Capital(2), Capital(6))>>)]
SecondContent ==
    [FirstContent EXCEPT !.groups = {Small(8)}, !.terms = {Small(2), Small(3), Small(4)}, !.cores = {Small(3)},
     !.documents = {[variant |-> "a", words |-> {1, 2}]}, !.sections = {"s1"},
     !.rows.instructor = <<Coded(Capital(7), Nothing), Coded(Nothing, Nothing)>>,
     !.rows.location = <<Coded(Small(2), Capital(6)), Coded(Small(2), Nothing), Coded(Capital(6), Small(1))>>]
ServiceCatalogs == [first |-> FirstContent, second |-> SecondContent]
ServiceTargets == {<<1, 1>>, <<1, 2>>, <<2, 1>>}
Holding(first, second, discovered) ==
    [of |-> [t \in ServiceTargets |->
               [version |-> IF t \in first \cup second THEN 1 ELSE 0, ready |-> t \in first \cup second,
                name |-> IF t \in second THEN "second" ELSE "first"]],
     discovered |-> discovered]
ServiceStarts ==
    {Holding({<<2, 1>>}, {<<1, 1>>}, {<<1, 1>>, <<2, 1>>}),
     Holding({<<1, 1>>}, {<<1, 2>>}, {<<1, 1>>, <<1, 2>>}),
     Holding({<<1, 2>>}, {<<1, 1>>}, {<<1, 1>>, <<1, 2>>})}
Home == <<<<1, 1>>>>
Both == <<<<1, 2>>, <<1, 1>>>>
Query(kind, targets, campuses) ==
    [kind |-> kind, targets |-> targets, term |-> 1, campuses |-> campuses, selected |-> {}, text |-> {},
     field |-> "none", query |-> [words |-> 1..9, wide |-> FALSE], limit |-> 2, key |-> <<1, 1>>, section |-> "s2"]
OptionsOf(field, words, wide) ==
    [Query("options", Both, {1, 2}) EXCEPT !.field = field, !.query = [words |-> words, wide |-> wide]]
Selecting(kind, selected) == [Query(kind, Both, {}) EXCEPT !.selected = selected]
EveryChoice == {<<"keyword", Capital(1)>>, <<"subject", Small(1)>>, <<"core", Capital(4)>>, <<"level", Small(2)>>,
                <<"band", Small(200)>>, <<"instructor", Capital(7)>>, <<"location", Small(6)>>, <<"exam", Small(2)>>}
ServiceRequests ==
    {OptionsOf("keyword", 1..9, FALSE), OptionsOf("keyword", {7, 8}, TRUE), OptionsOf("instructor", {5, 7}, FALSE),
     OptionsOf("location", {1}, FALSE), OptionsOf("band", {1}, FALSE),
     Selecting("validation", EveryChoice),
     [Selecting("search", {<<"keyword", Capital(9)>>}) EXCEPT !.text = {2}],
     Query("search", Home, {1}), Query("search", Home, {2}), Query("search", Home \o Home, {1}),
     Query("detail", Home, {}), Query("detail", <<<<1, 2>>>>, {}),
     Query("open", Home, {}), Query("status", <<>>, {1, 2}), [Query("search", <<>>, {}) EXCEPT !.term = 2],
     [Query("options", <<<<3, 1>>>>, {1}) EXCEPT !.term = 2, !.field = "level"]}
SavedView(raw, filters) == [revision |-> 1, schema |-> 2, raw |-> raw, filters |-> filters]
CoreView == Selecting("validation", {<<"core", Capital(4)>>})
ServiceViews ==
    {SavedView(1, CoreView), SavedView(0, CoreView), SavedView(1, [Query("validation", Home, {1}) EXCEPT !.term = 3])}
=============================================================================
