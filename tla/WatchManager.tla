---------------------------- MODULE WatchManager ----------------------------
(***************************************************************************)
(* The shared watch reducer, crates/bcsp-watch: CoreWatchManager           *)
(* (manager.rs, state.rs) behind its wire facade (facade.rs).              *)
(*                                                                         *)
(* A connection holds at most MaxActive watches, one per section.  The     *)
(* Open scheduler publishes committed observations; each watch turns them  *)
(* into episodes, one-shot audio cues or a continuous alarm.  Every call   *)
(* runs under the socket's state lock, so each handler is one action.      *)
(*                                                                         *)
(* Absence is encoded in the value: sequence number 0 is "no cursor" and   *)
(* "no cue" (pull sequences start at 1), id 0 is "no watch", episode state *)
(* "None" is "no episode".  A cue is named by the observation that asked   *)
(* for it.  Time appears only through differences: idle is the time since  *)
(* a connection's last touch, left the time until an alarm's deadline.     *)
(***************************************************************************)
EXTENDS Integers, Sequences, FiniteSets, Functions

CONSTANTS
    Connections,       \* connection ids
    Sections,          \* section keys
    Policies,          \* watch policies the pages use
    Messages,          \* ids of START messages
    ObsIds,            \* observation ids that may appear under one sequence
    Requests,          \* START messages: non-empty sequences of Items
    MaxSeq,            \* bound: highest pull sequence of an observation
    MaxWatchIds,       \* bound: watches ever started
    MaxActive,         \* max_active_watches
    HeartbeatTimeout,  \* heartbeat_timeout, in clock units
    CursorWindow,      \* SECTION_CURSOR_WINDOW
    ReplayWindow,      \* START_REPLAY_WINDOW
    Unlimited          \* the unlimited continuous duration

NoDeadline == -1

Modes == {"OneShot", "Continuous"}

AllPolicies ==
    [mode : Modes, max : Nat \ {0}, duration : (Nat \ {0}) \cup {Unlimited}]

Cursors == [seq : Nat, id : ObsIds \cup {"none"}]

NoCursor == [seq |-> 0, id |-> "none"]

Observations ==
    [seq : 1..MaxSeq, id : ObsIds, state : {"Open", "Closed", "Unknown"}]

NoObservation == [seq |-> 0, id |-> "none", state |-> "Unknown"]

(* One item of a START message with its admission.  fresh says whether the *)
(* stored observation had not passed its fresh_until when START ran; the   *)
(* four refusals differ only in their wording.                             *)
Items ==
    [section : Sections, policy : Policies, admitted : BOOLEAN,
     obs : Observations \cup {NoObservation}, fresh : BOOLEAN]

ASSUME ConstantsAssumption ==
    /\ Policies # {} /\ Policies \subseteq AllPolicies
    /\ Unlimited \notin Nat
    /\ "none" \notin ObsIds
    /\ MaxSeq \in Nat /\ MaxWatchIds \in Nat
    /\ MaxActive \in Nat \ {0} /\ HeartbeatTimeout \in Nat \ {0}
    /\ CursorWindow \in Nat \ {0} /\ ReplayWindow \in Nat \ {0}
    /\ IsFiniteSet(Sections)

ASSUME RequestsAssumption ==
    \A r \in Requests : r \in Seq(Items) /\ r # <<>>

VARIABLES
    connected,  \* connections: the keys of the connection map
    idle,       \* time since last_touch, capped at HeartbeatTimeout
    watches,    \* watches[c][s]: the session of c for s, or NoWatch
    replays,    \* start_replay_order: the START ids remembered, oldest first
    index,      \* connections_by_section; {} stands for a missing key
    marks,      \* observation_cursors with observation_cursor_order
    mixer,      \* the alarm set each page was last told (ContinuousMixer)
    lastId      \* the last watch id handed out

vars == <<connected, idle, watches, replays, index, marks, mixer, lastId>>

-----------------------------------------------------------------------------
(* Sessions: what one watch remembers, and the pure steps on it.           *)

EpisodeStates == {"None", "Unacknowledged", "Acknowledged", "TimedOut", "Closed"}

Episodes ==
    [state : EpisodeStates, left : Nat \cup {NoDeadline}, policy : Policies,
     count : Nat, dismissed : BOOLEAN]

Sessions ==
    [id : Nat, policy : Policies, reliable : {"None", "Open", "Closed"},
     cursor : Cursors, epSeq : Nat, episode : Episodes, count : Nat,
     active : Nat, queued : Seq(Nat \ {0})]

AnyPolicy == CHOOSE p \in Policies : TRUE

NewSession(id, policy, reliable, cursor) ==
    [id |-> id, policy |-> policy, reliable |-> reliable, cursor |-> cursor,
     epSeq |-> 0,
     episode |-> [state |-> "None", left |-> NoDeadline, policy |-> policy,
                  count |-> 0, dismissed |-> FALSE],
     count |-> 0, active |-> 0, queued |-> <<>>]

NoWatch == NewSession(0, AnyPolicy, "None", NoCursor)

NoWatches == [s \in Sections |-> NoWatch]

Watching(c, s) == watches[c][s].id # 0

WatchedBy(c) == {s \in Sections : Watching(c, s)}

Deadline(policy) ==
    IF policy.duration = Unlimited THEN NoDeadline ELSE policy.duration

AlarmActive(w) ==
    w.policy.mode = "Continuous" /\ w.episode.state = "Unacknowledged"

FreshEpisode(w) ==
    [state |-> "Unacknowledged",
     left |-> IF w.policy.mode = "Continuous" THEN Deadline(w.policy) ELSE NoDeadline,
     policy |-> w.policy, count |-> w.count, dismissed |-> FALSE]

OpenEpisode(w) == [w EXCEPT !.epSeq = @ + 1, !.episode = FreshEpisode(w)]

EndEpisode(w) ==
    IF w.episode.state \in {"None", "Closed"} THEN w
    ELSE [w EXCEPT !.episode.state = "Closed", !.episode.left = NoDeadline]

TakePendingCues(w) == [w EXCEPT !.active = 0, !.queued = <<>>]

RequestCue(w, cue) == [w EXCEPT !.active = cue]

QueueOneShot(w, cue) ==
    IF w.count >= w.policy.max THEN w
    ELSE IF w.active # 0 THEN [w EXCEPT !.queued = Append(@, cue)]
    ELSE RequestCue(w, cue)

DriveOneShot(w) ==
    IF w.active # 0 THEN w
    ELSE IF w.count >= w.policy.max THEN [w EXCEPT !.queued = <<>>]
    ELSE IF w.queued = <<>> THEN w
    ELSE RequestCue([w EXCEPT !.queued = Tail(@)], Head(w.queued))

ObserveOpen(w, o) ==
    LET creates == w.reliable # "Open" \/ w.episode.state \in {"None", "Closed"}
        opened == IF creates THEN OpenEpisode([w EXCEPT !.reliable = "Open"]) ELSE w
    IN  IF w.policy.mode = "OneShot" THEN QueueOneShot(opened, o.seq) ELSE opened

ApplyObservation(w, o) ==
    CASE o.state = "Open"    -> ObserveOpen(w, o)
      [] o.state = "Closed"  -> EndEpisode([w EXCEPT !.reliable = "Closed"])
      [] o.state = "Unknown" -> w

CursorAccepts(cursor, o) ==
    CASE cursor.seq = 0 \/ o.seq > cursor.seq -> "accept"
      [] o.seq < cursor.seq                   -> "skip"
      [] o.seq = cursor.seq /\ cursor.seq # 0 ->
             IF o.id = cursor.id THEN "skip" ELSE "conflict"

CursorOf(o) == [seq |-> o.seq, id |-> o.id]

-----------------------------------------------------------------------------
(* The per-section watermarks: a map bounded by a first-in-first-out order *)

Marked(m, s) == m.of[s].seq # 0

NoMark == [seq |-> 0, id |-> "none", published |-> FALSE]

MarkOf(cursor, published) ==
    [seq |-> cursor.seq, id |-> cursor.id, published |-> published]

(* Makes room, then inserts a section that has no watermark.               *)
InsertMark(m, s, mark) ==
    LET full == Len(m.order) = CursorWindow
        kept == IF full THEN [m.of EXCEPT ![Head(m.order)] = NoMark] ELSE m.of
    IN  [of |-> [kept EXCEPT ![s] = mark],
         order |-> Append(IF full THEN Tail(m.order) ELSE m.order, s)]

MutSeedMark(m, s, cursor) == m

SeedMark(m, s, cursor) ==
    IF ~Marked(m, s) THEN InsertMark(m, s, MarkOf(cursor, FALSE))
    ELSE IF cursor.seq > m.of[s].seq
         THEN [m EXCEPT !.of[s] = MarkOf(cursor, FALSE)]
         ELSE m

RecordPublished(m, s, cursor) ==
    IF Marked(m, s) THEN [m EXCEPT !.of[s] = MarkOf(cursor, TRUE)]
    ELSE InsertMark(m, s, MarkOf(cursor, TRUE))

-----------------------------------------------------------------------------
(* START: admission, capacity and watermark seeding of a whole message.    *)

InitialState(item) ==
    IF item.obs.seq # 0 /\ item.fresh /\ item.obs.state \in {"Open", "Closed"}
    THEN item.obs.state ELSE "None"

FirstOfSection(r, i) == \A j \in 1..(i - 1) : r[j].section # r[i].section

Candidate(r, i) == r[i].admitted /\ FirstOfSection(r, i)

NewSections(c, r, n) ==
    {r[j].section : j \in {k \in 1..n : Candidate(r, k)}} \ WatchedBy(c)

(* Item i becomes a watch: a restart always, a new watch while the items   *)
(* before it leave room.                                                   *)
Accepted(c, r, i) ==
    /\ Candidate(r, i)
    /\ \/ Watching(c, r[i].section)
       \/ Cardinality(WatchedBy(c)) + Cardinality(NewSections(c, r, i - 1))
              < MaxActive

AcceptedItems(c, r) == {i \in 1..Len(r) : Accepted(c, r, i)}

StartedSession(item, id) ==
    LET w == NewSession(id, item.policy, InitialState(item), CursorOf(item.obs))
    IN  IF InitialState(item) # "Open" THEN w
        ELSE IF item.policy.mode = "OneShot"
             THEN QueueOneShot(OpenEpisode(w), item.obs.seq)
             ELSE OpenEpisode(w)

(* validate_initial_watermarks: would some admitted item present another   *)
(* observation under the sequence its section has reached?                 *)
WatermarksValid(r) ==
    LET reached[i \in 0..Len(r)] ==
            IF i = 0 THEN [ok |-> TRUE, of |-> marks.of]
            ELSE LET before == reached[i - 1]
                     s == r[i].section
                     verdict == CursorAccepts(before.of[s], r[i].obs)
                 IN  IF ~before.ok \/ ~r[i].admitted \/ r[i].obs.seq = 0 THEN before
                     ELSE [ok |-> verdict # "conflict",
                           of |-> IF verdict # "accept" THEN before.of
                                  ELSE [before.of EXCEPT ![s] =
                                            MarkOf(CursorOf(r[i].obs), FALSE)]]
    IN  reached[Len(r)].ok

SeededMarks(c, r) ==
    LET seeded[i \in 0..Len(r)] ==
            IF i = 0 THEN marks
            ELSE IF i \in AcceptedItems(c, r) /\ r[i].obs.seq # 0
                 THEN SeedMark(seeded[i - 1], r[i].section, CursorOf(r[i].obs))
                 ELSE seeded[i - 1]
    IN  seeded[Len(r)]

Remember(order, m) ==
    IF Len(order) + 1 > ReplayWindow THEN Tail(Append(order, m)) ELSE Append(order, m)

-----------------------------------------------------------------------------
(* push_mixer_if_changed, for a handler that leaves c's sessions as ws.    *)

AlarmSet(ws) == {s \in Sections : AlarmActive(ws[s])}

PushMixer(c, ws) ==
    IF AlarmSet(ws) # AlarmSet(watches[c])
    THEN [mixer EXCEPT ![c] = AlarmSet(ws)] ELSE mixer

(* The handlers that change one session of c and then refresh the mixer.   *)
ReplaceSession(c, s, w) ==
    LET ws == [watches[c] EXCEPT ![s] = w]
    IN  /\ watches' = [watches EXCEPT ![c] = ws]
        /\ mixer' = PushMixer(c, ws)

Init ==
    /\ connected = {}
    /\ idle = [c \in Connections |-> 0]
    /\ watches = [c \in Connections |-> NoWatches]
    /\ replays = [c \in Connections |-> <<>>]
    /\ index = [s \in Sections |-> {}]
    /\ marks = [of |-> [s \in Sections |-> NoMark], order |-> <<>>]
    /\ mixer = [c \in Connections |-> {}]
    /\ lastId = 0

Connect(c) ==
    /\ c \notin connected
    /\ connected' = connected \cup {c}
    /\ idle' = [idle EXCEPT ![c] = 0]
    /\ UNCHANGED <<watches, replays, index, marks, mixer, lastId>>

Touch(c) ==
    /\ c \in connected
    /\ idle' = [idle EXCEPT ![c] = 0]
    /\ UNCHANGED <<connected, watches, replays, index, marks, mixer, lastId>>

(* A START whose message id is remembered answers from the cache.          *)
ReplayStart(c, m) ==
    /\ c \in connected
    /\ m \in Range(replays[c])
    /\ idle' = [idle EXCEPT ![c] = 0]
    /\ UNCHANGED <<connected, watches, replays, index, marks, mixer, lastId>>

Start(c, m, r) ==
    LET accepted == AcceptedItems(c, r)
        ItemFor(s) == CHOOSE i \in accepted : r[i].section = s
        IdFor(i) == lastId + Cardinality({j \in accepted : j <= i})
        ws == [s \in Sections |->
                  IF \E i \in accepted : r[i].section = s
                  THEN StartedSession(r[ItemFor(s)], IdFor(ItemFor(s)))
                  ELSE watches[c][s]]
    IN  /\ c \in connected
        /\ m \notin Range(replays[c])
        /\ WatermarksValid(r)
        /\ lastId + Cardinality(accepted) <= MaxWatchIds
        /\ idle' = [idle EXCEPT ![c] = 0]
        /\ watches' = [watches EXCEPT ![c] = ws]
        /\ index' = [s \in Sections |->
                        IF \E i \in accepted : r[i].section = s /\ ~Watching(c, s)
                        THEN index[s] \cup {c} ELSE index[s]]
        /\ marks' = SeededMarks(c, r)
        /\ mixer' = PushMixer(c, ws)
        /\ replays' = [replays EXCEPT ![c] = Remember(@, m)]
        /\ lastId' = lastId + Cardinality(accepted)
        /\ UNCHANGED connected

MutStopWatch(c, s) ==
    /\ c \in connected
    /\ Watching(c, s)
    /\ ReplaceSession(c, s, NoWatch)
    /\ UNCHANGED <<connected, idle, replays, index, marks, lastId>>

StopWatch(c, s) ==
    /\ c \in connected
    /\ Watching(c, s)
    /\ ReplaceSession(c, s, NoWatch)
    /\ index' = [index EXCEPT ![s] = @ \ {c}]
    /\ UNCHANGED <<connected, idle, replays, marks, lastId>>

(* publish: o is new for the section, or it is exactly the observation a   *)
(* START seeded and nobody has fanned out yet.                             *)
Publish(s, o) ==
    LET mark == marks.of[s]
        seededExact == ~mark.published /\ mark.seq = o.seq /\ mark.id = o.id
        holders == {c \in index[s] : c \in connected /\ Watching(c, s)}
        Takes(c) == c \in holders /\ CursorAccepts(watches[c][s].cursor, o) = "accept"
        After(c) == ApplyObservation([watches[c][s] EXCEPT !.cursor = CursorOf(o)], o)
        ws == [c \in Connections |->
                  IF Takes(c) THEN [watches[c] EXCEPT ![s] = After(c)]
                  ELSE watches[c]]
    IN  /\ CursorAccepts(mark, o) = "accept" \/ seededExact
        /\ \A c \in holders : CursorAccepts(watches[c][s].cursor, o) # "conflict"
        /\ marks' = RecordPublished(marks, s, CursorOf(o))
        /\ watches' = ws
        /\ mixer' = [c \in Connections |->
                        IF c \in index[s] /\ c \in connected
                        THEN PushMixer(c, ws[c])[c] ELSE mixer[c]]
        /\ UNCHANGED <<connected, idle, replays, index, lastId>>

UpdatePolicy(c, s, p) ==
    LET w == watches[c][s]
        cleared == IF w.policy.mode = "OneShot" /\ p.mode = "Continuous"
                   THEN TakePendingCues(w) ELSE w
        left == IF p.mode = "OneShot" THEN NoDeadline
                ELSE IF w.episode.state = "Unacknowledged" THEN Deadline(p)
                ELSE w.episode.left
    IN  /\ c \in connected
        /\ Watching(c, s)
        /\ ReplaceSession(c, s, [cleared EXCEPT !.policy = p,
                                                !.episode.policy = p,
                                                !.episode.left = left])
        /\ UNCHANGED <<connected, idle, replays, index, marks, lastId>>

MutAcknowledged(w) ==
    IF AlarmActive(w) THEN [w EXCEPT !.episode.state = "Acknowledged"] ELSE w

Acknowledged(w) ==
    IF AlarmActive(w)
    THEN [w EXCEPT !.episode.state = "Acknowledged", !.episode.left = NoDeadline]
    ELSE w

(* n is the episode the page names; an older episode is unknown here.      *)
AcknowledgeEpisode(c, s, n) ==
    LET w == watches[c][s]
    IN  /\ c \in connected
        /\ Watching(c, s)
        /\ w.episode.state # "None" /\ w.epSeq = n
        /\ w.policy.mode = "Continuous"
        /\ ReplaceSession(c, s, Acknowledged(w))
        /\ UNCHANGED <<connected, idle, replays, index, marks, lastId>>

AcknowledgeAll(c) ==
    LET ws == [s \in Sections |-> Acknowledged(watches[c][s])]
    IN  /\ c \in connected
        /\ watches' = [watches EXCEPT ![c] = ws]
        /\ mixer' = PushMixer(c, ws)
        /\ UNCHANGED <<connected, idle, replays, index, marks, lastId>>

MutResumeEpisode(c, s, n) ==
    LET w == watches[c][s]
    IN  /\ c \in connected
        /\ Watching(c, s)
        /\ w.epSeq = n
        /\ w.policy.mode = "Continuous"
        /\ w.reliable = "Open"
        /\ ReplaceSession(c, s, [w EXCEPT !.episode.state = "Unacknowledged",
                                          !.episode.left = Deadline(w.policy)])
        /\ UNCHANGED <<connected, idle, replays, index, marks, lastId>>

ResumeEpisode(c, s, n) ==
    LET w == watches[c][s]
    IN  /\ c \in connected
        /\ Watching(c, s)
        /\ w.epSeq = n
        /\ w.policy.mode = "Continuous"
        /\ w.reliable = "Open"
        /\ w.episode.state = "TimedOut"
        /\ ReplaceSession(c, s, [w EXCEPT !.episode.state = "Unacknowledged",
                                          !.episode.left = Deadline(w.policy)])
        /\ UNCHANGED <<connected, idle, replays, index, marks, lastId>>

ResetAudibleCount(c, s) ==
    LET w == watches[c][s]
    IN  /\ c \in connected
        /\ Watching(c, s)
        /\ watches' = [watches EXCEPT ![c][s] =
                          DriveOneShot([w EXCEPT !.count = 0, !.episode.count = 0])]
        /\ UNCHANGED <<connected, idle, replays, index, marks, mixer, lastId>>

(* A report counts only while its cue is the active one; a cancelled, an   *)
(* already reported or a queued cue changes nothing.                       *)
ReportCueOutcome(c, s, cue, started) ==
    LET w == watches[c][s]
        n == IF started THEN w.count + 1 ELSE w.count
    IN  /\ c \in connected
        /\ Watching(c, s)
        /\ w.active = cue /\ cue # 0
        /\ watches' = [watches EXCEPT ![c][s] =
                          DriveOneShot([w EXCEPT !.active = 0, !.count = n,
                                                 !.episode.count = n])]
        /\ UNCHANGED <<connected, idle, replays, index, marks, mixer, lastId>>

DismissAlert(c, s, n) ==
    /\ c \in connected
    /\ Watching(c, s)
    /\ watches[c][s].episode.state # "None" /\ watches[c][s].epSeq = n
    /\ watches' = [watches EXCEPT ![c][s].episode.dismissed = TRUE]
    /\ UNCHANGED <<connected, idle, replays, index, marks, mixer, lastId>>

(* cleanup of every connection in gone; the survivors hold ws.             *)
Cleanup(gone, ws) ==
    /\ connected' = connected \ gone
    /\ idle' = [c \in Connections |-> IF c \in gone THEN 0 ELSE idle[c]]
    /\ watches' = [c \in Connections |-> IF c \in gone THEN NoWatches ELSE ws[c]]
    /\ replays' = [c \in Connections |-> IF c \in gone THEN <<>> ELSE replays[c]]
    /\ index' = [s \in Sections |-> index[s] \ {c \in gone : Watching(c, s)}]
    /\ mixer' = [c \in Connections |->
                    IF c \in gone THEN {}
                    ELSE IF c \in connected THEN PushMixer(c, ws[c])[c] ELSE mixer[c]]
    /\ UNCHANGED <<marks, lastId>>

Disconnect(c) ==
    /\ c \in connected
    /\ Cleanup({c}, watches)

ProcessStop ==
    /\ connected # {}
    /\ Cleanup(connected, watches)

TimedOut(w) ==
    IF AlarmActive(w) /\ w.episode.left = 0
    THEN [w EXCEPT !.episode.state = "TimedOut", !.episode.left = NoDeadline]
    ELSE w

Expired == {c \in connected : idle[c] >= HeartbeatTimeout}

Tick ==
    Cleanup(Expired,
            [c \in Connections |-> [s \in Sections |-> TimedOut(watches[c][s])]])

(* The clock advances by one unit.                                         *)
Elapse ==
    /\ idle' = [c \in Connections |->
                   IF c \in connected /\ idle[c] < HeartbeatTimeout
                   THEN idle[c] + 1 ELSE idle[c]]
    /\ watches' = [c \in Connections |-> [s \in Sections |->
                      IF watches[c][s].episode.left > 0
                      THEN [watches[c][s] EXCEPT !.episode.left = @ - 1]
                      ELSE watches[c][s]]]
    /\ UNCHANGED <<connected, replays, index, marks, mixer, lastId>>

Next ==
    \/ \E c \in Connections : Connect(c)
    \/ \E c \in Connections : Touch(c)
    \/ \E c \in Connections, m \in Messages : ReplayStart(c, m)
    \/ \E c \in Connections, m \in Messages, r \in Requests : Start(c, m, r)
    \/ \E c \in Connections, s \in Sections : StopWatch(c, s)
    \/ \E s \in Sections, o \in Observations : Publish(s, o)
    \/ \E c \in Connections, s \in Sections, p \in Policies : UpdatePolicy(c, s, p)
    \/ \E c \in Connections, s \in Sections, n \in 1..MaxSeq :
           AcknowledgeEpisode(c, s, n)
    \/ \E c \in Connections : AcknowledgeAll(c)
    \/ \E c \in Connections, s \in Sections, n \in 1..MaxSeq : ResumeEpisode(c, s, n)
    \/ \E c \in Connections, s \in Sections : ResetAudibleCount(c, s)
    \/ \E c \in Connections, s \in Sections, cue \in 1..MaxSeq, b \in BOOLEAN :
           ReportCueOutcome(c, s, cue, b)
    \/ \E c \in Connections, s \in Sections, n \in 1..MaxSeq : DismissAlert(c, s, n)
    \/ \E c \in Connections : Disconnect(c)
    \/ ProcessStop
    \/ Tick
    \/ Elapse

Spec == Init /\ [][Next]_vars

(* The host drives tick from one maintenance ticker, and time passes.      *)
FairSpec == Spec /\ WF_vars(Tick) /\ WF_vars(Elapse)
-----------------------------------------------------------------------------
(* Properties.                                                             *)

(* The shapes of the reducer's maps (manager.rs CoreWatchManager).         *)
StateOK ==
    /\ connected \subseteq Connections
    /\ idle \in [Connections -> 0..HeartbeatTimeout]
    /\ watches \in [Connections -> [Sections -> Sessions]]
    /\ replays \in [Connections -> Seq(Messages)]
    /\ index \in [Sections -> SUBSET Connections]
    /\ mixer \in [Connections -> SUBSET Sections]
    /\ lastId \in Nat

(* connections_by_section is exactly the inverse of the connections'       *)
(* watches: publish reaches every watcher, and the demand the scheduler    *)
(* reads counts no section nobody watches, whatever restarts, stops,       *)
(* expiries and process stops came before.                                 *)
IndexExact ==
    /\ \A s \in Sections : index[s] = {c \in connected : Watching(c, s)}
    /\ \A c \in Connections \ connected : watches[c] = NoWatches

(* start never takes a connection past max_active_watches, also when one   *)
(* message mixes restarts, duplicates and new sections.                    *)
WatchLimit == \A c \in Connections : Cardinality(WatchedBy(c)) <= MaxActive

(* A queued cue always waits behind an active one (so reporting the active *)
(* cue is enough to drain the queue) and a CONTINUOUS watch has no cue.    *)
CueDiscipline ==
    \A c \in Connections, s \in Sections :
        LET w == watches[c][s]
        IN  /\ w.queued # <<>> => w.active # 0
            /\ w.policy.mode = "Continuous" => w.active = 0

(* Each observation asks a watch for at most one cue, cues wait in         *)
(* observation order, and none is ahead of the watch's cursor.             *)
CueOrder ==
    \A c \in Connections, s \in Sections :
        LET w == watches[c][s]
        IN  /\ w.active <= w.cursor.seq
            /\ \A i \in DOMAIN w.queued :
                   w.active < w.queued[i] /\ w.queued[i] <= w.cursor.seq
            /\ \A i, j \in DOMAIN w.queued : i < j => w.queued[i] < w.queued[j]

(* An alarm deadline is armed exactly while a CONTINUOUS watch with a      *)
(* finite duration has an unacknowledged episode: no alarm rings forever   *)
(* because its deadline was lost, none is cut short by a stale deadline    *)
(* after a policy change, acknowledgement, resume or close.                *)
DeadlineExact ==
    \A c \in Connections, s \in Sections :
        LET w == watches[c][s]
        IN  w.episode.left # NoDeadline
            <=> AlarmActive(w) /\ w.policy.duration # Unlimited

(* The last reliable state is OPEN exactly while an episode is not closed. *)
EpisodeReliable ==
    \A c \in Connections, s \in Sections :
        watches[c][s].reliable = "Open"
        <=> watches[c][s].episode.state \notin {"None", "Closed"}

(* The copies of policy and audible count kept in the episode (which is    *)
(* what the wire projection shows) never drift from the watch's own.       *)
EpisodeMirrors ==
    \A c \in Connections, s \in Sections :
        LET w == watches[c][s]
        IN  w.episode.policy = w.policy /\ w.episode.count = w.count

(* Cues, deadline, reliable state and the copies in the episode agree      *)
(* within every watch, whatever policy changes, reports, acknowledgements, *)
(* expiries and observations came before (state.rs, manager.rs).           *)
EpisodeSound ==
    CueDiscipline /\ CueOrder /\ DeadlineExact /\ EpisodeReliable /\ EpisodeMirrors

(* observation_cursors and observation_cursor_order name the same          *)
(* sections, once each, and stay within SECTION_CURSOR_WINDOW.             *)
MarksFifo ==
    /\ Range(marks.order) = {s \in Sections : Marked(marks, s)}
    /\ IsInjective(marks.order)
    /\ Len(marks.order) <= CursorWindow

(* While no watermark had to be evicted, no watch is ahead of its          *)
(* section's watermark, so an observation publish drops as a replay is     *)
(* one no watch has yet to see as new under a conflicting id.              *)
MarkDominates ==
    Cardinality(Sections) <= CursorWindow =>
        \A c \in Connections, s \in Sections :
            watches[c][s].cursor.seq <= marks.of[s].seq

(* After every handler the page has been told exactly the alarms that are  *)
(* active: no handler changes the alarm set without push_mixer_if_changed. *)
MixerExact == \A c \in Connections : mixer[c] = AlarmSet(watches[c])

(* What is kept for speed or already told, the section index and each      *)
(* page's alarm set, is what the watches say (manager.rs cleanup,          *)
(* push_mixer_if_changed).                                                 *)
DerivedExact == IndexExact /\ MixerExact

SameWatch(c, s) == watches[c][s].id # 0 /\ watches'[c][s].id = watches[c][s].id

(* A running watch never goes back to an older observation, and its        *)
(* reliable state changes only with a strictly newer one, however          *)
(* observations are replayed, reordered or outlive an evicted watermark.   *)
NeverRegresses ==
    \A c \in Connections, s \in Sections : SameWatch(c, s) =>
        /\ watches'[c][s].cursor.seq >= watches[c][s].cursor.seq
        /\ watches'[c][s].reliable # watches[c][s].reliable =>
               watches'[c][s].cursor.seq > watches[c][s].cursor.seq

EpisodeSuccessors ==
    [None           |-> {"None"},
     Unacknowledged |-> {"Unacknowledged", "Acknowledged", "TimedOut", "Closed"},
     Acknowledged   |-> {"Acknowledged", "Closed"},
     TimedOut       |-> {"TimedOut", "Unacknowledged", "Closed"},
     Closed         |-> {"Closed"}]

(* Within one watch an episode is replaced only after it closed, a closed  *)
(* one stays closed, and an acknowledged one never rings again.            *)
EpisodeAdvances ==
    \A c \in Connections, s \in Sections : SameWatch(c, s) =>
        LET old == watches[c][s]
            new == watches'[c][s]
        IN  \/ /\ new.epSeq = old.epSeq
               /\ new.episode.state \in EpisodeSuccessors[old.episode.state]
            \/ /\ new.epSeq = old.epSeq + 1
               /\ old.episode.state \in {"None", "Closed"}
               /\ new.episode.state = "Unacknowledged"

(* A cue is requested from a page only while the watch has audible budget  *)
(* left, also when the budget was lowered while cues were queued.          *)
RequestsBudgeted ==
    \A c \in Connections, s \in Sections :
        watches'[c][s].active \notin {0, watches[c][s].active}
        => watches'[c][s].count < watches'[c][s].policy.max

StepForward == NeverRegresses /\ EpisodeAdvances /\ RequestsBudgeted

(* No handler takes a running watch back to an older observation, revives  *)
(* an ended episode or asks a page for a cue past its audible budget       *)
(* (manager.rs apply_observation, resume_episode, drive_one_shot).         *)
StepsForward == [][StepForward]_vars

(* No alarm rings, or its deadline was armed just now.                     *)
Quiet(c, s) ==
    ~AlarmActive(watches[c][s]) \/ watches[c][s].episode.left = Deadline(watches[c][s].policy)

(* A finite alarm nobody re-arms eventually stops ringing.                 *)
AlarmStops == \A c \in Connections, s \in Sections : []<>Quiet(c, s)
=============================================================================
