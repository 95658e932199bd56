------------------------------ MODULE Calendars ------------------------------
(***************************************************************************)
(* The two calendars the product computes with.                            *)
(*                                                                         *)
(* The Rutgers term window (term_window.rs): which term a day belongs to   *)
(* and which terms around it each runtime shows, from a calendar whose     *)
(* Winter and Summer sessions are not all published.  A date is its digits *)
(* as one number, so that dates compare as numbers do.                     *)
(*                                                                         *)
(* The Retry-After header of an Open response: its reader (retry_after,    *)
(* parse_imf_fixdate and the calendar under it) and the delay the Open     *)
(* service takes from it (retry_after_delay).  The machine walks the       *)
(* calendar one day at a time from dates whose day number and weekday are  *)
(* known, and counts the days it walks: that count and the weekday are the *)
(* reference the reader's closed formula is compared with.  An instant is  *)
(* the pair of its day number and the second of that day.                  *)
(***************************************************************************)
EXTENDS Integers, Sequences, FiniteSets, SequencesExt

CONSTANTS Days,      \* days the clock stops at besides the ends of the terms
          Anchors,   \* first days of years: year, day number, weekday
          MaxDays    \* days walked from each

VARIABLES day,      \* rutgers_day_at: today in America/New_York
          date,     \* year, month and day walked to
          count,    \* days since the first of January 1970
          weekday,  \* 0 is Sunday
          walked    \* days since the anchor

Seasons == <<"Winter", "Spring", "Summer", "Fall">>

SeasonRank == [s \in ToSet(Seasons) |-> CHOOSE i \in 1..4 : Seasons[i] = s]

Span(from, to) == [from |-> from, to |-> to]
None == [from |-> 0, to |-> 0]

(* ACADEMIC_YEAR_CALENDAR.                                                 *)
AcademicYears ==
    <<[fallYear |-> 2025, fall |-> Span(20250902, 20251222), winter |-> Span(20251222, 20260116),
       spring |-> Span(20260120, 20260513), summer |-> Span(20260526, 20260812)],
      [fallYear |-> 2026, fall |-> Span(20260901, 20261222), winter |-> Span(20261223, 20270115),
       spring |-> Span(20270119, 20270512), summer |-> Span(20270601, 20270818)],
      [fallYear |-> 2027, fall |-> Span(20270901, 20271223), winter |-> Span(20271223, 20280114),
       spring |-> Span(20280118, 20280510), summer |-> None],
      [fallYear |-> 2028, fall |-> Span(20280905, 20281222), winter |-> None,
       spring |-> Span(20290116, 20290509), summer |-> None],
      [fallYear |-> 2029, fall |-> Span(20290904, 20291221), winter |-> None,
       spring |-> Span(20300122, 20300515), summer |-> None],
      [fallYear |-> 2030, fall |-> Span(20300903, 20301223), winter |-> None,
       spring |-> Span(20310121, 20310514), summer |-> None]>>

(* known_term_calendar: the sessions with published dates.                 *)
Entry(season, year, span) == [season |-> season, year |-> year, span |-> span]

Calendar ==
    {e \in UNION {{Entry("Fall", y.fallYear, y.fall), Entry("Winter", y.fallYear + 1, y.winter),
                   Entry("Spring", y.fallYear + 1, y.spring), Entry("Summer", y.fallYear + 1, y.summer)}
                    : y \in ToSet(AcademicYears)} : e.span # None}

Identity(e) == [season |-> e.season, year |-> e.year]

MutNextTerm(id) == [id EXCEPT !.season = Seasons[(SeasonRank[@] % 4) + 1]]

(* TermIdentity::next and ::previous.                                      *)
NextTerm(id) ==
    IF id.season = "Fall" THEN [season |-> "Winter", year |-> id.year + 1]
    ELSE [id EXCEPT !.season = Seasons[SeasonRank[@] + 1]]

PreviousTerm(id) ==
    IF id.season = "Winter" THEN [season |-> "Fall", year |-> id.year - 1]
    ELSE [id EXCEPT !.season = Seasons[SeasonRank[@] - 1]]

(* TermIdentity::offset, for the offsets the scopes use.                   *)
Offset(id, n) ==
    CASE n = 0 -> id
      [] n = 1 -> NextTerm(id) [] n = 2 -> NextTerm(NextTerm(id))
      [] n = -1 -> PreviousTerm(id) [] n = -2 -> PreviousTerm(PreviousTerm(id))

(* term_calendar_entry.                                                    *)
InCalendar(id) == \E e \in Calendar : Identity(e) = id

Latest(entries, Key(_)) == CHOOSE e \in entries : \A f \in entries : Key(f) <= Key(e)
Earliest(entries, Key(_)) == CHOOSE e \in entries : \A f \in entries : Key(e) <= Key(f)
StartsOn(e) == e.span.from
EndsOn(e) == e.span.to

(* current_term_entry: the session that runs, the later one of two; in a   *)
(* gap the next session, if no unpublished one lies between.               *)
CurrentTerm(d) ==
    LET running == {e \in Calendar : e.span.from <= d /\ d <= e.span.to}
        over == {e \in Calendar : e.span.to < d}
        ahead == {e \in Calendar : d < e.span.from}
    IN  IF running # {} THEN {Latest(running, StartsOn)}
        ELSE IF over = {} \/ ahead = {} THEN {}
        ELSE {e \in {Earliest(ahead, StartsOn)} :
                NextTerm(Identity(Latest(over, EndsOn))) = Identity(e)}

(* RutgersTermWindowScope::offset_bounds.                                  *)
Offsets(scope) == IF scope = "Public" THEN 0..1 ELSE -2..2

(* RutgersTermWindow::at: every visible term must be in the calendar.      *)
Window(d, scope) ==
    LET current == {Identity(e) : e \in CurrentTerm(d)}
        Visible(id) == [n \in Offsets(scope) |-> Offset(id, n)]
    IN  {Visible(id) : id \in {c \in current :
            InCalendar(NextTerm(c)) /\ \A n \in Offsets(scope) : InCalendar(Offset(c, n))}}

(* watchable and auto_managed.                                             *)
Watchable(window) == {window[n] : n \in DOMAIN window \cap {0, 1}}

Stops == Days \cup UNION {{e.span.from, e.span.to} : e \in Calendar}

WindowInit == day = Earliest(Stops, LAMBDA d : d)

Midnight == day' \in Stops /\ day' > day

WindowSpec == WindowInit /\ [][Midnight]_day

-----------------------------------------------------------------------------
Rank(id) == id.year * 4 + SeasonRank[id.season]

WindowAdvances ==
    \A scope \in {"Public", "Local"} : \A later \in Window(day', scope) :
        /\ \A n \in DOMAIN later : Rank(later[n]) = Rank(later[0]) + n
        /\ \A w \in Window(day', "Public") : Watchable(w) = Watchable(later)
        /\ \A earlier \in Window(day, scope) : Rank(earlier[0]) <= Rank(later[0])
        /\ \A e \in Calendar : e.span.to < day' => Rank(Identity(e)) < Rank(later[0])
        /\ \A e \in Calendar : Rank(Identity(e)) > Rank(later[0]) => day' < e.span.from
        /\ \E e \in Calendar : Identity(e) = later[0] /\ day' <= e.span.to

(* As the days go by a runtime's window only moves forward, by whole       *)
(* terms: its terms follow one another in the calendar without a gap, the  *)
(* Public and the Local runtime agree on what is current, next and         *)
(* watchable, and no term is current after its own end or once a later one  *)
(* has begun.                                                              *)
WindowMovesForward == [][WindowAdvances]_day

-----------------------------------------------------------------------------
(* Retry-After.                                                            *)
walkVars == <<date, count, weekday, walked>>

Invalid == [kind |-> "invalid"]

DaysInMonth(y, m) ==
  CASE m \in {1, 3, 5, 7, 8, 10, 12} -> 31
    [] m \in {4, 6, 9, 11} -> 30
    [] m = 2 /\ (y % 400 = 0 \/ (y % 4 = 0 /\ y % 100 # 0)) -> 29
    [] OTHER -> 28

(* The day number of a date of the Gregorian calendar, counted in eras of   *)
(* 400 years that begin in March.                                           *)
DaysFromCivil(y, m, d) ==
  LET adjusted == y - (IF m <= 2 THEN 1 ELSE 0)
      era == adjusted \div 400
      yearOfEra == adjusted - era * 400
      monthPrime == m + (IF m > 2 THEN -3 ELSE 9)
      dayOfYear == (153 * monthPrime + 2) \div 5 + d - 1
      dayOfEra == yearOfEra * 365 + yearOfEra \div 4 - yearOfEra \div 100 + dayOfYear
  IN era * 146097 + dayOfEra - 719468

(* A well-formed date is read only with its own weekday. *)
ParseImfFixdate(h) ==
  IF h.year < 1601 \/ h.day = 0 \/ h.day > DaysInMonth(h.year, h.month)
       \/ h.hour > 23 \/ h.minute > 59 \/ h.second > 59
  THEN Invalid
  ELSE LET days == DaysFromCivil(h.year, h.month, h.day)
       IN IF (days + 4) % 7 # h.weekday THEN Invalid
          ELSE [kind |-> "date",
                at |-> [day |-> days, second |-> h.hour * 3600 + h.minute * 60 + h.second]]

(* The values of the header: none, several, a number of seconds, or a date. *)
RetryAfter(values) ==
  CASE values = <<>> -> [kind |-> "missing"]
    [] Len(values) > 1 -> Invalid
    [] OTHER -> IF values[1].kind = "seconds" THEN values[1] ELSE ParseImfFixdate(values[1])

(* Seconds still to wait at an instant, if the header says: a date in the   *)
(* past waits for none.                                                     *)
RetryAfterDelay(header, now) ==
  IF header.kind = "seconds" THEN {header.seconds}
  ELSE IF header.kind = "date"
  THEN LET remaining == (header.at.day - now.day) * 86400 + header.at.second - now.second
       IN {IF remaining < 0 THEN 0 ELSE remaining}
  ELSE {}
-----------------------------------------------------------------------------
NextDay(x) ==
  IF x.day < DaysInMonth(x.year, x.month) THEN [x EXCEPT !.day = @ + 1]
  ELSE IF x.month < 12 THEN [x EXCEPT !.day = 1, !.month = @ + 1]
  ELSE [year |-> x.year + 1, month |-> 1, day |-> 1]

WalkInit ==
  \E a \in Anchors :
    /\ date = [year |-> a.year, month |-> 1, day |-> 1]
    /\ count = a.count /\ weekday = a.weekday /\ walked = 0

Walk ==
  /\ walked < MaxDays
  /\ date' = NextDay(date) /\ count' = count + 1
  /\ weekday' = (weekday + 1) % 7 /\ walked' = walked + 1

WalkSpec == WalkInit /\ [][Walk]_walkVars
-----------------------------------------------------------------------------
Header(x, w, h, m, s) ==
  [kind |-> "text", weekday |-> w, year |-> x.year, month |-> x.month, day |-> x.day,
   hour |-> h, minute |-> m, second |-> s]

(* The upstream's retry date is honoured to the second: the date of any day *)
(* walked is read as that day with its own weekday and refused with any     *)
(* other, the day after a month's last is refused, and the wait from        *)
(* noon of that day to midnight, and to the last second of it, is exact.    *)
RetryDateExact ==
  /\ \A w \in 0..6 :
       RetryAfter(<<Header(date, w, 23, 59, 59)>>)
         = IF w = weekday THEN [kind |-> "date", at |-> [day |-> count, second |-> 86399]]
           ELSE Invalid
  /\ date.day = DaysInMonth(date.year, date.month) =>
       RetryAfter(<<Header([date EXCEPT !.day = @ + 1], (weekday + 1) % 7, 0, 0, 0)>>) = Invalid
  /\ LET noon == [day |-> count, second |-> 43200]
         tomorrow == RetryAfter(<<Header(NextDay(date), (weekday + 1) % 7, 0, 0, 0)>>)
     IN /\ RetryAfterDelay(tomorrow, noon) = {43200}
        /\ RetryAfterDelay(RetryAfter(<<Header(date, weekday, 0, 0, 0)>>), noon) = {0}
        /\ RetryAfterDelay(RetryAfter(<<[kind |-> "seconds", seconds |-> 5]>>), noon) = {5}
        /\ RetryAfterDelay(RetryAfter(<<>>), noon) = {}
=============================================================================
