------------------------- MODULE WatchManagerProofs -------------------------
(***************************************************************************)
(* Proofs about WatchManager for every set of connections, sections,       *)
(* policies and START messages, and every bound.                           *)
(*                                                                         *)
(* The inductive invariant IInv ties each session's own consistency        *)
(* (SessionOK) to the two pieces of derived state the reducer maintains    *)
(* by hand: the section index and the last alarm set sent to each page.    *)
(* The watermarks are left out of it: no step below depends on them.       *)
(***************************************************************************)
EXTENDS WatchManager, FiniteSetTheorems, TLAPS

SessionOK(w) ==
    /\ w \in Sessions
    /\ w.queued # <<>> => w.active # 0
    /\ w.policy.mode = "Continuous" => w.active = 0
    /\ w.episode.left # NoDeadline
           <=> AlarmActive(w) /\ w.policy.duration # Unlimited
    /\ w.reliable = "Open" <=> w.episode.state \notin {"None", "Closed"}
    /\ w.episode.policy = w.policy
    /\ w.episode.count = w.count

SessionsOK == \A c \in Connections, s \in Sections : SessionOK(watches[c][s])

IInv == StateOK /\ SessionsOK /\ IndexExact /\ MixerExact

-----------------------------------------------------------------------------
(* Sessions                                                                *)

(* A policy's deadline is a number of clock units or NoDeadline, and the   *)
(* latter only for the unlimited duration (CoreContinuousDuration).        *)
LEMMA DeadlineType ==
    ASSUME NEW p \in Policies
    PROVE  /\ p \in AllPolicies
           /\ Deadline(p) \in Nat \cup {NoDeadline}
           /\ Deadline(p) # NoDeadline <=> p.duration # Unlimited
  BY ConstantsAssumption DEF Deadline, AllPolicies, NoDeadline

(* A session with no episode and no cue is consistent (CoreWatchSession).  *)
LEMMA NewSessionOK ==
    ASSUME NEW id \in Nat, NEW p \in Policies, NEW r \in {"None", "Closed"},
           NEW k \in Cursors
    PROVE  SessionOK(NewSession(id, p, r, k))
  BY DEF SessionOK, NewSession, Sessions, Episodes, EpisodeStates, AlarmActive,
         NoDeadline

(* The placeholder for "no watch" is a consistent session.                 *)
LEMMA NoWatchOK == SessionOK(NoWatch) /\ NoWatch.id = 0 /\ ~AlarmActive(NoWatch)
  <1>1. AnyPolicy \in Policies
    BY ConstantsAssumption DEF AnyPolicy
  <1>2. NoCursor \in Cursors
    BY DEF NoCursor, Cursors
  <1>3. SessionOK(NoWatch)
    BY <1>1, <1>2, NewSessionOK DEF NoWatch
  <1> QED
    BY <1>3 DEF NoWatch, NewSession, AlarmActive

(* open_episode on a watch that has just become OPEN.                      *)
LEMMA OpenEpisodeOK ==
    ASSUME NEW w, w \in Sessions, w.reliable = "Open",
           w.queued # <<>> => w.active # 0,
           w.policy.mode = "Continuous" => w.active = 0
    PROVE  SessionOK(OpenEpisode(w)) /\ OpenEpisode(w).id = w.id
  <1>1. w.policy \in Policies /\ w.policy.mode \in Modes
    BY ConstantsAssumption DEF Sessions, AllPolicies
  <1>2. Deadline(w.policy) \in Nat \cup {NoDeadline}
        /\ (Deadline(w.policy) # NoDeadline <=> w.policy.duration # Unlimited)
    BY <1>1, DeadlineType
  <1> DEFINE e == FreshEpisode(w)
  <1>3. e \in Episodes /\ e.state = "Unacknowledged" /\ e.policy = w.policy
        /\ e.count = w.count
        /\ (e.left # NoDeadline <=> w.policy.mode = "Continuous"
                                    /\ w.policy.duration # Unlimited)
    BY <1>1, <1>2 DEF FreshEpisode, Sessions, Episodes, EpisodeStates, Modes
  <1> DEFINE n == w.epSeq + 1
  <1>4. OpenEpisode(w) = [w EXCEPT !.epSeq = n, !.episode = e] /\ n \in Nat
    BY DEF OpenEpisode, Sessions
  <1> HIDE DEF e, n
  <1>5. OpenEpisode(w) \in Sessions
    BY <1>3, <1>4, Zenon DEF Sessions
  <1> QED
    BY <1>3, <1>4, <1>5 DEF SessionOK, Sessions, AlarmActive

(* queue_one_shot keeps a ONE_SHOT session consistent.                     *)
LEMMA QueueOneShotOK ==
    ASSUME NEW w, SessionOK(w), w.policy.mode = "OneShot", NEW cue \in Nat \ {0}
    PROVE  SessionOK(QueueOneShot(w, cue)) /\ QueueOneShot(w, cue).id = w.id
  <1> DEFINE full == w.count >= w.policy.max
             more == Append(w.queued, cue)
  <1>1. CASE full
    BY <1>1 DEF QueueOneShot
  <1>2. CASE ~full /\ w.active # 0
    <2>1. more \in Seq(Nat \ {0})
      BY DEF SessionOK, Sessions
    <2>2. QueueOneShot(w, cue) = [w EXCEPT !.queued = more]
      BY <1>2 DEF QueueOneShot
    <2> HIDE DEF more
    <2> QED
      BY <1>2, <2>1, <2>2, Zenon DEF SessionOK, Sessions, AlarmActive
  <1>3. CASE ~full /\ w.active = 0
    <2>1. QueueOneShot(w, cue) = [w EXCEPT !.active = cue]
      BY <1>3 DEF QueueOneShot, RequestCue
    <2> QED
      BY <1>3, <2>1 DEF SessionOK, Sessions, AlarmActive
  <1> QED
    BY <1>1, <1>2, <1>3

(* drive_one_shot restores "queued only behind an active cue", which may   *)
(* fail before it: a report has just cleared the active cue.               *)
LEMMA DriveOneShotOK ==
    ASSUME NEW w, w \in Sessions,
           w.policy.mode = "Continuous" => w.active = 0 /\ w.queued = <<>>,
           w.episode.left # NoDeadline
               <=> AlarmActive(w) /\ w.policy.duration # Unlimited,
           w.reliable = "Open" <=> w.episode.state \notin {"None", "Closed"},
           w.episode.policy = w.policy, w.episode.count = w.count
    PROVE  LET d == DriveOneShot(w)
           IN  SessionOK(d) /\ d.id = w.id /\ (AlarmActive(d) <=> AlarmActive(w))
  <1> DEFINE d == DriveOneShot(w)
             head == Head(w.queued)
             tail == Tail(w.queued)
  <1>1. CASE w.active # 0
    BY <1>1 DEF DriveOneShot, SessionOK
  <1>2. CASE w.active = 0 /\ w.count >= w.policy.max
    <2>1. d = [w EXCEPT !.queued = <<>>] /\ <<>> \in Seq(Nat \ {0})
      BY <1>2 DEF DriveOneShot
    <2> QED
      BY <1>2, <2>1, Zenon DEF SessionOK, Sessions, AlarmActive
  <1>3. CASE w.active = 0 /\ ~(w.count >= w.policy.max) /\ w.queued = <<>>
    BY <1>3 DEF DriveOneShot, SessionOK
  <1>4. CASE w.active = 0 /\ ~(w.count >= w.policy.max) /\ w.queued # <<>>
    <2>1. d = [w EXCEPT !.queued = tail, !.active = head]
      BY <1>4 DEF DriveOneShot, RequestCue, Sessions
    <2>2. tail \in Seq(Nat \ {0}) /\ head \in Nat \ {0}
      BY <1>4 DEF Sessions
    <2> HIDE DEF tail, head
    <2> QED
      BY <1>4, <2>1, <2>2, Zenon DEF SessionOK, Sessions, AlarmActive
  <1> QED
    BY <1>1, <1>2, <1>3, <1>4

WithEpisode(w, r, st, left) ==
    [w EXCEPT !.reliable = r, !.episode.state = st, !.episode.left = left]

(* A step on the episode alone: what it must keep for the session to stay  *)
(* consistent.                                                             *)
LEMMA EpisodeStepOK ==
    ASSUME NEW w, SessionOK(w),
           NEW st \in EpisodeStates, NEW left \in Nat \cup {NoDeadline},
           NEW r \in {"None", "Open", "Closed"},
           r = "Open" <=> st \notin {"None", "Closed"},
           left # NoDeadline <=> /\ w.policy.mode = "Continuous"
                                 /\ st = "Unacknowledged"
                                 /\ w.policy.duration # Unlimited
    PROVE  /\ SessionOK(WithEpisode(w, r, st, left))
           /\ WithEpisode(w, r, st, left).id = w.id
           /\ WithEpisode(w, r, st, left).policy = w.policy
           /\ WithEpisode(w, r, st, left).episode.state = st
  <1> DEFINE e == [w.episode EXCEPT !.state = st, !.left = left]
             v == [w EXCEPT !.reliable = r, !.episode = e]
  <1>1. /\ e \in Episodes /\ e.state = st /\ e.left = left
        /\ e.policy = w.policy /\ e.count = w.count
    BY Zenon DEF SessionOK, Sessions, Episodes
  <1>2. WithEpisode(w, r, st, left) = v
    BY Zenon DEF WithEpisode, SessionOK, Sessions, Episodes
  <1> HIDE DEF e
  <1>3. v \in Sessions
    BY <1>1, Zenon DEF SessionOK, Sessions
  <1>4. SessionOK(v) /\ v.id = w.id /\ v.policy = w.policy /\ v.episode = e
    BY <1>1, <1>3 DEF SessionOK, Sessions, AlarmActive
  <1> QED
    BY <1>1, <1>2, <1>4

(* Closing, acknowledging, timing out and resuming an episode, and the     *)
(* passing of time.                                                        *)
LEMMA EpisodeStepsOK ==
    ASSUME NEW w, SessionOK(w)
    PROVE  /\ SessionOK(EndEpisode([w EXCEPT !.reliable = "Closed"]))
           /\ EndEpisode([w EXCEPT !.reliable = "Closed"]).id = w.id
           /\ SessionOK(Acknowledged(w)) /\ Acknowledged(w).id = w.id
           /\ SessionOK(TimedOut(w)) /\ TimedOut(w).id = w.id
  <1>1. w \in Sessions /\ w.episode \in Episodes
    BY DEF SessionOK, Sessions
  <1>2. /\ SessionOK(EndEpisode([w EXCEPT !.reliable = "Closed"]))
        /\ EndEpisode([w EXCEPT !.reliable = "Closed"]).id = w.id
    <2> DEFINE x == EndEpisode([w EXCEPT !.reliable = "Closed"])
    <2>1. CASE w.episode.state \in {"None", "Closed"}
      <3>1. x = [w EXCEPT !.reliable = "Closed"]
        BY <1>1, <2>1 DEF EndEpisode, Sessions
      <3> QED
        BY <1>1, <2>1, <3>1 DEF SessionOK, Sessions, AlarmActive
    <2>2. CASE w.episode.state \notin {"None", "Closed"}
      <3>1. x = WithEpisode(w, "Closed", "Closed", NoDeadline)
        BY <1>1, <2>2 DEF WithEpisode, EndEpisode, Sessions, Episodes
      <3>2. "Closed" \in EpisodeStates /\ NoDeadline \in Nat \cup {NoDeadline}
        BY DEF EpisodeStates
      <3> HIDE DEF x
      <3>3. SessionOK(x) /\ x.id = w.id
        BY <3>1, <3>2, EpisodeStepOK, Zenon
      <3> QED
        BY <3>3 DEF x
    <2> QED
      BY <2>1, <2>2
  <1>3. ASSUME AlarmActive(w), NEW st \in {"Acknowledged", "TimedOut"}
        PROVE  /\ SessionOK([w EXCEPT !.episode.state = st,
                                       !.episode.left = NoDeadline])
               /\ [w EXCEPT !.episode.state = st,
                            !.episode.left = NoDeadline].id = w.id
    <2>1. w.reliable = "Open"
      BY <1>3 DEF SessionOK, AlarmActive
    <2> DEFINE u == [w EXCEPT !.episode.state = st, !.episode.left = NoDeadline]
    <2>2. u = WithEpisode(w, "Open", st, NoDeadline)
      BY <1>1, <2>1, Zenon DEF WithEpisode, Sessions, Episodes
    <2>3. st \in EpisodeStates /\ NoDeadline \in Nat \cup {NoDeadline}
      BY DEF EpisodeStates
    <2> HIDE DEF u
    <2>4. SessionOK(u) /\ u.id = w.id
      BY <2>2, <2>3, EpisodeStepOK, Zenon
    <2> QED
      BY <2>4 DEF u
  <1>4. SessionOK(Acknowledged(w)) /\ Acknowledged(w).id = w.id
    BY <1>3 DEF Acknowledged
  <1>5. SessionOK(TimedOut(w)) /\ TimedOut(w).id = w.id
    BY <1>3 DEF TimedOut
  <1> QED
    BY <1>2, <1>4, <1>5

(* resume_episode re-arms the deadline of a timed-out alarm.               *)
LEMMA ResumeOK ==
    ASSUME NEW w, SessionOK(w), w.policy.mode = "Continuous",
           w.reliable = "Open"
    PROVE  LET v == [w EXCEPT !.episode.state = "Unacknowledged",
                              !.episode.left = Deadline(w.policy)]
           IN  SessionOK(v) /\ v.id = w.id
  <1> DEFINE v == [w EXCEPT !.episode.state = "Unacknowledged",
                            !.episode.left = Deadline(w.policy)]
             d == Deadline(w.policy)
             u == WithEpisode(w, "Open", "Unacknowledged", d)
  <1>1. v = u
    BY Zenon DEF WithEpisode, SessionOK, Sessions, Episodes
  <1>2. w.policy \in Policies /\ "Unacknowledged" \in EpisodeStates
    BY DEF SessionOK, Sessions, EpisodeStates
  <1>3. d \in Nat \cup {NoDeadline} /\ (d # NoDeadline <=> w.policy.duration # Unlimited)
    BY <1>2, DeadlineType
  <1> HIDE DEF d
  <1>4. SessionOK(u) /\ u.id = w.id
    BY <1>2, <1>3, EpisodeStepOK
  <1> HIDE DEF v, u
  <1> QED
    BY <1>1, <1>4 DEF v

ElapsedSession(w) ==
    IF w.episode.left > 0 THEN [w EXCEPT !.episode.left = @ - 1] ELSE w

(* The clock never disarms a deadline: it stops at zero.                   *)
LEMMA ElapsedOK ==
    ASSUME NEW w, SessionOK(w)
    PROVE  /\ SessionOK(ElapsedSession(w)) /\ ElapsedSession(w).id = w.id
           /\ AlarmActive(ElapsedSession(w)) <=> AlarmActive(w)
  <1>0. /\ w \in Sessions /\ w.episode \in Episodes
        /\ w.episode.left \in Nat \cup {NoDeadline}
        /\ w.episode.state \in EpisodeStates
        /\ w.reliable \in {"None", "Open", "Closed"}
    BY DEF SessionOK, Sessions, Episodes
  <1>1. CASE w.episode.left > 0
    <2> DEFINE n == w.episode.left - 1
    <2>1. n \in Nat /\ n # NoDeadline /\ w.episode.left # NoDeadline
      BY <1>0, <1>1 DEF NoDeadline
    <2>2. ElapsedSession(w) = WithEpisode(w, w.reliable, w.episode.state, n)
      BY <1>0, <1>1, Zenon DEF ElapsedSession, WithEpisode, Sessions, Episodes
    <2> HIDE DEF n
    <2>3. SessionOK(ElapsedSession(w)) /\ ElapsedSession(w).id = w.id
      BY <1>0, <2>1, <2>2, EpisodeStepOK DEF SessionOK, AlarmActive
    <2>4. /\ ElapsedSession(w).policy = w.policy
          /\ ElapsedSession(w).episode.state = w.episode.state
      BY <1>0, <2>1, <2>2, EpisodeStepOK DEF SessionOK, AlarmActive
    <2> QED
      BY <2>3, <2>4 DEF AlarmActive
  <1>2. CASE ~(w.episode.left > 0)
    BY <1>2 DEF ElapsedSession
  <1> QED
    BY <1>1, <1>2

(* A session whose cursor alone moves.                                     *)
LEMMA CursorMoveOK ==
    ASSUME NEW w, SessionOK(w), NEW k \in Cursors
    PROVE  /\ SessionOK([w EXCEPT !.cursor = k])
           /\ [w EXCEPT !.cursor = k].id = w.id
  BY Zenon DEF SessionOK, Sessions, AlarmActive

(* apply_observation keeps the session consistent.                         *)
LEMMA ApplyObservationOK ==
    ASSUME NEW w, SessionOK(w), NEW o \in Observations
    PROVE  SessionOK(ApplyObservation(w, o)) /\ ApplyObservation(w, o).id = w.id
  <1>0. /\ o.seq \in Nat \ {0}
        /\ o.state \in {"Open", "Closed", "Unknown"}
        /\ w \in Sessions /\ w.policy \in AllPolicies
    BY ConstantsAssumption DEF Observations, SessionOK, Sessions
  <1>1. CASE o.state = "Open"
    <2> DEFINE creates == w.reliable # "Open" \/ w.episode.state \in {"None", "Closed"}
               base == [w EXCEPT !.reliable = "Open"]
               opened == IF creates THEN OpenEpisode(base) ELSE w
    <2>1. /\ base \in Sessions /\ base.reliable = "Open" /\ base.id = w.id
          /\ base.queued # <<>> => base.active # 0
          /\ base.policy = w.policy
          /\ base.policy.mode = "Continuous" => base.active = 0
      BY <1>0, Zenon DEF SessionOK, Sessions
    <2>2. SessionOK(OpenEpisode(base)) /\ OpenEpisode(base).id = w.id
      BY <2>1, OpenEpisodeOK, Zenon
    <2>3. OpenEpisode(base).policy = w.policy
      BY <2>1 DEF OpenEpisode, Sessions
    <2>4. SessionOK(opened) /\ opened.id = w.id /\ opened.policy = w.policy
      BY <2>2, <2>3
    <2>5. ApplyObservation(w, o) = IF w.policy.mode = "OneShot"
                                   THEN QueueOneShot(opened, o.seq) ELSE opened
      BY <1>1 DEF ApplyObservation, ObserveOpen
    <2> HIDE DEF opened
    <2> QED
      BY <1>0, <2>4, <2>5, QueueOneShotOK
  <1>2. CASE o.state = "Closed"
    BY <1>2, EpisodeStepsOK DEF ApplyObservation
  <1>3. CASE o.state = "Unknown"
    BY <1>3 DEF ApplyObservation
  <1> QED
    BY <1>0, <1>1, <1>2, <1>3

(* The session start creates for an accepted item.                         *)
LEMMA StartedSessionOK ==
    ASSUME NEW item \in Items, NEW id \in Nat
    PROVE  /\ SessionOK(StartedSession(item, id))
           /\ StartedSession(item, id).id = id
  <1> DEFINE first == InitialState(item)
             k == CursorOf(item.obs)
             w == NewSession(id, item.policy, first, k)
  <1>1. /\ item.policy \in Policies /\ first \in {"None", "Open", "Closed"}
        /\ k \in Cursors
        /\ first = "Open" => item.obs.seq \in Nat \ {0}
    BY ConstantsAssumption
       DEF Items, Observations, NoObservation, InitialState, CursorOf, Cursors
  <1> HIDE DEF first, k
  <1>2. CASE first # "Open"
    <2>1. StartedSession(item, id) = w
      BY <1>2 DEF StartedSession, first, k
    <2>2. w.id = id
      BY DEF NewSession
    <2> QED
      BY <1>1, <1>2, <2>1, <2>2, NewSessionOK
  <1>3. CASE first = "Open"
    <2>1. /\ w \in Sessions /\ w.reliable = "Open" /\ w.id = id
          /\ w.policy = item.policy /\ w.active = 0 /\ w.queued = <<>>
      BY <1>1, <1>3 DEF NewSession, Sessions, Episodes, EpisodeStates
    <2>2. StartedSession(item, id) = IF item.policy.mode = "OneShot"
                                     THEN QueueOneShot(OpenEpisode(w), item.obs.seq)
                                     ELSE OpenEpisode(w)
      BY <1>3 DEF StartedSession, first, k
    <2> HIDE DEF w
    <2>3. SessionOK(OpenEpisode(w)) /\ OpenEpisode(w).id = id
      BY <2>1, OpenEpisodeOK
    <2>4. OpenEpisode(w).policy = item.policy
      BY <2>1 DEF OpenEpisode, Sessions
    <2> QED
      BY <1>1, <1>3, <2>2, <2>3, <2>4, QueueOneShotOK
  <1> QED
    BY <1>2, <1>3

PolicyChanged(w, p) ==
    LET cleared == IF w.policy.mode = "OneShot" /\ p.mode = "Continuous"
                   THEN TakePendingCues(w) ELSE w
        left == IF p.mode = "OneShot" THEN NoDeadline
                ELSE IF w.episode.state = "Unacknowledged" THEN Deadline(p)
                ELSE w.episode.left
    IN  [cleared EXCEPT !.policy = p, !.episode.policy = p, !.episode.left = left]

(* update_policy: switching to CONTINUOUS clears every cue and arms the    *)
(* deadline, switching to ONE_SHOT disarms it.                             *)
LEMMA PolicyChangedOK ==
    ASSUME NEW w, SessionOK(w), NEW p \in Policies
    PROVE  SessionOK(PolicyChanged(w, p)) /\ PolicyChanged(w, p).id = w.id
  <1> DEFINE clears == w.policy.mode = "OneShot" /\ p.mode = "Continuous"
             cleared == IF clears THEN TakePendingCues(w) ELSE w
             left == IF p.mode = "OneShot" THEN NoDeadline
                     ELSE IF w.episode.state = "Unacknowledged" THEN Deadline(p)
                     ELSE w.episode.left
             e == [w.episode EXCEPT !.policy = p, !.left = left]
             v == [cleared EXCEPT !.policy = p, !.episode = e]
  <1>0. /\ w \in Sessions /\ w.episode \in Episodes
        /\ w.policy.mode \in Modes /\ p.mode \in Modes
        /\ Deadline(p) \in Nat \cup {NoDeadline}
        /\ Deadline(p) # NoDeadline <=> p.duration # Unlimited
    BY DeadlineType, ConstantsAssumption DEF SessionOK, Sessions, AllPolicies
  <1>1. /\ left \in Nat \cup {NoDeadline}
        /\ left # NoDeadline <=> /\ p.mode = "Continuous"
                                 /\ w.episode.state = "Unacknowledged"
                                 /\ p.duration # Unlimited
    BY <1>0 DEF SessionOK, AlarmActive, Modes, Episodes
  <1> HIDE DEF left
  <1>2. /\ e \in Episodes /\ e.policy = p /\ e.left = left
        /\ e.state = w.episode.state /\ e.count = w.count
    BY <1>0, <1>1, Zenon DEF SessionOK, Episodes
  <1>3. /\ cleared \in Sessions /\ cleared.episode = w.episode
        /\ cleared.id = w.id /\ cleared.count = w.count
        /\ cleared.reliable = w.reliable
        /\ cleared.queued # <<>> => cleared.active # 0
        /\ p.mode = "Continuous" => cleared.active = 0
    <2>1. CASE clears
      <3> DEFINE none == <<>>
                 t == [w EXCEPT !.active = 0, !.queued = none]
      <3>1. cleared = t /\ none \in Seq(Nat \ {0})
        BY <2>1 DEF TakePendingCues
      <3> HIDE DEF none
      <3>2. /\ t \in Sessions /\ t.episode = w.episode /\ t.id = w.id
            /\ t.count = w.count /\ t.reliable = w.reliable
            /\ t.queued = none /\ t.active = 0
        BY <1>0, <3>1, Zenon DEF Sessions
      <3> QED
        BY <3>1, <3>2, Zenon DEF none
    <2>2. CASE ~clears
      BY <1>0, <2>2 DEF SessionOK, Modes
    <2> QED
      BY <2>1, <2>2
  <1>4. PolicyChanged(w, p) = [cleared EXCEPT !.policy = p, !.episode.policy = p,
                                              !.episode.left = left]
    BY DEF PolicyChanged, left
  <1> HIDE DEF cleared
  <1>5. PolicyChanged(w, p) = v
    BY <1>3, <1>4, Zenon DEF Sessions, Episodes
  <1> HIDE DEF e
  <1>6. v \in Sessions
    BY <1>2, <1>3, Zenon DEF Sessions
  <1>7. /\ v.policy = p /\ v.episode = e /\ v.id = w.id /\ v.count = w.count
        /\ v.reliable = w.reliable /\ v.active = cleared.active
        /\ v.queued = cleared.queued
    BY <1>3 DEF Sessions
  <1> HIDE DEF v
  <1>8. SessionOK(v)
    BY <1>1, <1>2, <1>3, <1>6, <1>7 DEF SessionOK, AlarmActive
  <1> QED
    BY <1>5, <1>7, <1>8

-----------------------------------------------------------------------------
(* Steps of the reducer                                                    *)

(* push_mixer_if_changed compares with the set before the handler, so the  *)
(* page ends up with the new set whenever it had the old one.              *)
LEMMA PushMixerExact ==
    ASSUME NEW c \in Connections, NEW ws, StateOK, MixerExact
    PROVE  /\ PushMixer(c, ws) = [mixer EXCEPT ![c] = AlarmSet(ws)]
           /\ PushMixer(c, ws)[c] = AlarmSet(ws)
  <1>1. mixer[c] = AlarmSet(watches[c]) /\ mixer \in [Connections -> SUBSET Sections]
    BY DEF MixerExact, StateOK
  <1>2. CASE AlarmSet(ws) = AlarmSet(watches[c])
    BY <1>1, <1>2 DEF PushMixer
  <1>3. CASE AlarmSet(ws) # AlarmSet(watches[c])
    BY <1>1, <1>3 DEF PushMixer
  <1> QED
    BY <1>2, <1>3

(* The handlers that replace one session of a watch by a consistent one    *)
(* of the same watch.                                                      *)
LEMMA SessionStep ==
    ASSUME IInv, NEW c \in connected, NEW s \in Sections, Watching(c, s),
           NEW w, SessionOK(w), w.id = watches[c][s].id,
           watches' = [watches EXCEPT ![c] = [watches[c] EXCEPT ![s] = w]],
           mixer' = [mixer EXCEPT ![c] = AlarmSet([watches[c] EXCEPT ![s] = w])],
           UNCHANGED <<connected, idle, replays, index, lastId>>
    PROVE  IInv'
  <1>0. c \in Connections /\ w \in Sessions
    BY DEF IInv, StateOK, SessionOK
  <1>1. \A d \in Connections, t \in Sections :
            watches'[d][t] = IF d = c /\ t = s THEN w ELSE watches[d][t]
    BY <1>0 DEF IInv, StateOK
  <1>2. StateOK'
    <2>1. [watches[c] EXCEPT ![s] = w] \in [Sections -> Sessions]
      BY <1>0 DEF IInv, StateOK
    <2>2. watches' \in [Connections -> [Sections -> Sessions]]
      BY <1>0, <2>1 DEF IInv, StateOK
    <2>3. mixer' \in [Connections -> SUBSET Sections]
      BY <1>0 DEF IInv, StateOK, AlarmSet
    <2> QED
      BY <2>2, <2>3, Zenon DEF IInv, StateOK
  <1>3. SessionsOK'
    BY <1>1 DEF IInv, SessionsOK
  <1>4. \A d \in Connections, t \in Sections : Watching(d, t)' <=> Watching(d, t)
    BY <1>1 DEF Watching
  <1>5. IndexExact'
    <2>1. \A t \in Sections : index'[t] = {d \in connected' : Watching(d, t)'}
      BY <1>4 DEF IInv, StateOK, IndexExact
    <2>2. \A d \in Connections \ connected' : watches'[d] = NoWatches
      BY <1>0 DEF IInv, StateOK, IndexExact
    <2>3. NoWatches' = NoWatches
      BY DEF NoWatches
    <2> QED
      BY <2>1, <2>2 DEF IndexExact
  <1>6. MixerExact'
    <2>1. watches'[c] = [watches[c] EXCEPT ![s] = w]
      BY <1>0 DEF IInv, StateOK
    <2>2. \A d \in Connections : d # c => watches'[d] = watches[d]
      BY <1>0 DEF IInv, StateOK
    <2>3. \A d \in Connections : mixer'[d] = AlarmSet(watches'[d])
      BY <1>0, <2>1, <2>2 DEF IInv, StateOK, MixerExact
    <2> QED
      BY <2>3 DEF MixerExact, AlarmSet
  <1> QED
    BY <1>2, <1>3, <1>5, <1>6 DEF IInv

(* The same for a handler that sends no mixer because no alarm changes.    *)
LEMMA QuietStep ==
    ASSUME IInv, NEW c \in connected, NEW s \in Sections, Watching(c, s),
           NEW w, SessionOK(w), w.id = watches[c][s].id,
           AlarmActive(w) <=> AlarmActive(watches[c][s]),
           watches' = [watches EXCEPT ![c] = [watches[c] EXCEPT ![s] = w]],
           UNCHANGED <<connected, idle, replays, index, mixer, lastId>>
    PROVE  IInv'
  <1>0. /\ c \in Connections /\ mixer \in [Connections -> SUBSET Sections]
        /\ mixer[c] = AlarmSet(watches[c]) /\ watches[c] \in [Sections -> Sessions]
    BY DEF IInv, StateOK, MixerExact
  <1>1. AlarmSet([watches[c] EXCEPT ![s] = w]) = AlarmSet(watches[c])
    BY <1>0 DEF AlarmSet
  <1>2. mixer' = [mixer EXCEPT ![c] = AlarmSet([watches[c] EXCEPT ![s] = w])]
    BY <1>0, <1>1
  <1> QED
    BY <1>2, SessionStep, Zenon

(* A consistent session is well typed.                                     *)
LEMMA SessionType == \A w : SessionOK(w) => w \in Sessions
  BY DEF SessionOK

(* Every session of a connection is consistent, and a watch's connection   *)
(* is connected.                                                           *)
LEMMA Lookup ==
    ASSUME IInv, NEW c \in Connections, NEW s \in Sections
    PROVE  /\ SessionOK(watches[c][s]) /\ watches[c][s] \in Sessions
           /\ watches[c] \in [Sections -> Sessions]
  BY DEF IInv, SessionsOK, SessionOK, StateOK

(* The reducer starts empty.                                               *)
LEMMA InitInv == Init => IInv
  <1> SUFFICES ASSUME Init PROVE IInv
    OBVIOUS
  <1>1. NoWatches \in [Sections -> Sessions]
        /\ \A s \in Sections : NoWatches[s] = NoWatch
    BY NoWatchOK DEF NoWatches, SessionOK
  <1>2. StateOK
    BY <1>1, ConstantsAssumption DEF Init, StateOK
  <1>3. SessionsOK
    BY <1>1, NoWatchOK DEF Init, SessionsOK
  <1>4. IndexExact
    BY DEF Init, IndexExact
  <1>5. MixerExact
    BY <1>1, NoWatchOK DEF Init, MixerExact, AlarmSet
  <1> QED
    BY <1>2, <1>3, <1>4, <1>5 DEF IInv

(* The handlers that leave every session alone: connect, touch and a START *)
(* answered from the replay cache.                                         *)
LEMMA TouchInv ==
    ASSUME IInv, NEW c \in Connections, idle' = [idle EXCEPT ![c] = 0],
           connected' = connected \cup {c},
           UNCHANGED <<watches, replays, index, mixer, lastId>>
    PROVE  IInv'
  <1>1. StateOK'
    BY ConstantsAssumption DEF IInv, StateOK
  <1>2. SessionsOK'
    BY DEF IInv, SessionsOK
  <1>3. IndexExact'
    <2>1. c \notin connected => \A s \in Sections : ~Watching(c, s)
      BY NoWatchOK DEF IInv, IndexExact, NoWatches, Watching
    <2>2. \A d \in Connections, s \in Sections : Watching(d, s)' <=> Watching(d, s)
      BY DEF Watching
    <2>3. \A s \in Sections : index'[s] = {d \in connected' : Watching(d, s)'}
      BY <2>1, <2>2 DEF IInv, IndexExact, StateOK
    <2> QED
      BY <2>3 DEF IInv, IndexExact, NoWatches
  <1>4. MixerExact'
    BY DEF IInv, MixerExact, AlarmSet
  <1> QED
    BY <1>1, <1>2, <1>3, <1>4 DEF IInv

(* A step that changes sessions of running watches only, and tells every   *)
(* page its new alarm set.                                                 *)
LEMMA SessionsStep ==
    ASSUME IInv, NEW ws \in [Connections -> [Sections -> Sessions]], watches' = ws,
           \A c \in Connections, s \in Sections :
               SessionOK(ws[c][s]) /\ ws[c][s].id = watches[c][s].id,
           \A c \in Connections \ connected : ws[c] = watches[c],
           mixer' \in [Connections -> SUBSET Sections],
           \A c \in Connections : mixer'[c] = AlarmSet(ws[c]),
           idle' \in [Connections -> 0..HeartbeatTimeout],
           UNCHANGED <<connected, replays, index, lastId>>
    PROVE  IInv'
  <1>1. StateOK'
    BY Zenon DEF IInv, StateOK
  <1>2. SessionsOK'
    BY DEF SessionsOK
  <1>3. \A c \in Connections, s \in Sections : Watching(c, s)' <=> Watching(c, s)
    BY DEF Watching
  <1>4. IndexExact'
    <2>1. \A s \in Sections : index'[s] = {c \in connected' : Watching(c, s)'}
      BY <1>3 DEF IInv, StateOK, IndexExact
    <2>2. \A c \in Connections \ connected' : watches'[c] = NoWatches
      BY DEF IInv, IndexExact
    <2> QED
      BY <2>1, <2>2 DEF IndexExact, NoWatches
  <1>5. MixerExact'
    BY DEF MixerExact, AlarmSet
  <1> QED
    BY <1>1, <1>2, <1>4, <1>5 DEF IInv

(* A step applied to every session fixes the placeholder of a missing      *)
(* watch, so the connections that are gone stay empty.                     *)
LEMMA NoWatchFixed ==
    /\ Acknowledged(NoWatch) = NoWatch
    /\ TimedOut(NoWatch) = NoWatch
    /\ ElapsedSession(NoWatch) = NoWatch
  <1>1. ~AlarmActive(NoWatch)
    BY NoWatchOK
  <1>2. NoWatch.episode.left = NoDeadline
    BY DEF NoWatch, NewSession
  <1>3. ~(NoWatch.episode.left > 0)
    BY <1>2 DEF NoDeadline
  <1> QED
    BY <1>1, <1>3 DEF Acknowledged, TimedOut, ElapsedSession

(* acknowledge_all silences every alarm of one connection.                 *)
LEMMA AcknowledgeAllInv ==
    ASSUME IInv, NEW c \in Connections, AcknowledgeAll(c)
    PROVE  IInv'
  <1> DEFINE mine == [s \in Sections |-> Acknowledged(watches[c][s])]
             ws == [watches EXCEPT ![c] = mine]
  <1>1. /\ c \in connected /\ watches' = ws /\ mixer' = PushMixer(c, mine)
        /\ UNCHANGED <<connected, idle, replays, index, lastId>>
    BY DEF AcknowledgeAll
  <1>2. \A s \in Sections : /\ SessionOK(mine[s]) /\ mine[s] \in Sessions
                            /\ mine[s].id = watches[c][s].id
    BY Lookup, EpisodeStepsOK, SessionType, Zenon
  <1>3. mine \in [Sections -> Sessions]
    BY <1>2
  <1>4. mixer' = [mixer EXCEPT ![c] = AlarmSet(mine)]
    BY <1>1, PushMixerExact DEF IInv
  <1> HIDE DEF mine
  <1>5. ws \in [Connections -> [Sections -> Sessions]]
    BY <1>3 DEF IInv, StateOK
  <1>6. \A d \in Connections : ws[d] = IF d = c THEN mine ELSE watches[d]
    BY DEF IInv, StateOK
  <1>7. \A d \in Connections, s \in Sections :
            SessionOK(ws[d][s]) /\ ws[d][s].id = watches[d][s].id
    BY <1>2, <1>6, Lookup
  <1>8. /\ mixer' \in [Connections -> SUBSET Sections]
        /\ \A d \in Connections : mixer'[d] = AlarmSet(ws[d])
    <2>1. AlarmSet(mine) \in SUBSET Sections
      BY DEF AlarmSet
    <2> QED
      BY <1>4, <1>6, <2>1 DEF IInv, StateOK, MixerExact
  <1>9. idle' \in [Connections -> 0..HeartbeatTimeout]
    BY <1>1 DEF IInv, StateOK
  <1> HIDE DEF ws
  <1> QED
    BY <1>1, <1>5, <1>6, <1>7, <1>8, <1>9, SessionsStep

(* The clock.                                                              *)
LEMMA ElapseInv ==
    ASSUME IInv, Elapse
    PROVE  IInv'
  <1> DEFINE ws == [c \in Connections |-> [s \in Sections |->
                       ElapsedSession(watches[c][s])]]
  <1>1. watches' = ws /\ UNCHANGED <<connected, replays, index, mixer, lastId>>
    BY DEF Elapse, ElapsedSession
  <1>2. \A c \in Connections, s \in Sections :
            /\ SessionOK(ws[c][s]) /\ ws[c][s] \in Sessions
            /\ ws[c][s].id = watches[c][s].id
            /\ AlarmActive(ws[c][s]) <=> AlarmActive(watches[c][s])
    BY Lookup, ElapsedOK, SessionType
  <1>3. ws \in [Connections -> [Sections -> Sessions]]
    BY <1>2
  <1>4. \A c \in Connections \ connected : ws[c] = watches[c]
    BY NoWatchFixed DEF IInv, IndexExact, NoWatches
  <1> HIDE DEF ws
  <1>5. \A c \in Connections : mixer'[c] = AlarmSet(ws[c])
    BY <1>1, <1>2 DEF IInv, MixerExact, AlarmSet
  <1>6. /\ mixer' \in [Connections -> SUBSET Sections]
        /\ idle' \in [Connections -> 0..HeartbeatTimeout]
    BY <1>1, ConstantsAssumption DEF IInv, StateOK, Elapse
  <1> QED
    BY <1>1, <1>2, <1>3, <1>4, <1>5, <1>6, SessionsStep

(* stop_watch removes the watch from the connection and from the index.    *)
LEMMA StopWatchInv ==
    ASSUME IInv, NEW c \in Connections, NEW s \in Sections, StopWatch(c, s)
    PROVE  IInv'
  <1> DEFINE mine == [watches[c] EXCEPT ![s] = NoWatch]
  <1>1. /\ c \in connected /\ watches' = [watches EXCEPT ![c] = mine]
        /\ mixer' = PushMixer(c, mine) /\ index' = [index EXCEPT ![s] = @ \ {c}]
        /\ UNCHANGED <<connected, idle, replays, lastId>>
    BY DEF StopWatch, ReplaceSession
  <1>2. mixer' = [mixer EXCEPT ![c] = AlarmSet(mine)]
    BY <1>1, PushMixerExact DEF IInv
  <1>3. mine \in [Sections -> Sessions] /\ NoWatch \in Sessions
        /\ \A t \in Sections : mine[t] = IF t = s THEN NoWatch ELSE watches[c][t]
    BY Lookup, NoWatchOK, SessionType
  <1> HIDE DEF mine
  <1>4. \A d \in Connections : watches'[d] = IF d = c THEN mine ELSE watches[d]
    BY <1>1 DEF IInv, StateOK
  <1>5. StateOK'
    <2>1. watches' \in [Connections -> [Sections -> Sessions]]
      BY <1>1, <1>3, Zenon DEF IInv, StateOK
    <2>2. mixer' \in [Connections -> SUBSET Sections]
      BY <1>2 DEF IInv, StateOK, AlarmSet
    <2>3. index' \in [Sections -> SUBSET Connections]
      BY <1>1 DEF IInv, StateOK
    <2> QED
      BY <1>1, <2>1, <2>2, <2>3, Zenon DEF IInv, StateOK
  <1>6. SessionsOK'
    BY <1>3, <1>4, NoWatchOK DEF IInv, SessionsOK
  <1>7. IndexExact'
    <2>1. \A d \in Connections, t \in Sections :
              Watching(d, t)' <=> Watching(d, t) /\ ~(d = c /\ t = s)
      BY <1>3, <1>4, NoWatchOK DEF Watching
    <2>2. \A t \in Sections : index'[t] = {d \in connected' : Watching(d, t)'}
      BY <1>1, <2>1 DEF IInv, StateOK, IndexExact
    <2>3. \A d \in Connections \ connected' : watches'[d] = NoWatches
      BY <1>1, <1>4 DEF IInv, IndexExact
    <2> QED
      BY <2>2, <2>3 DEF IndexExact, NoWatches
  <1>8. MixerExact'
    <2>1. \A d \in Connections : mixer'[d] = AlarmSet(watches'[d])
      BY <1>2, <1>4 DEF IInv, StateOK, MixerExact
    <2> QED
      BY <2>1 DEF MixerExact, AlarmSet
  <1> QED
    BY <1>5, <1>6, <1>7, <1>8 DEF IInv

(* cleanup of the connections in gone: disconnect, process stop and the    *)
(* heartbeat sweep, whose survivors hold the sessions ws.                  *)
LEMMA CleanupInv ==
    ASSUME IInv, NEW gone \in SUBSET connected,
           NEW ws \in [Connections -> [Sections -> Sessions]],
           \A c \in Connections, s \in Sections :
               SessionOK(ws[c][s]) /\ ws[c][s].id = watches[c][s].id,
           \A c \in Connections \ connected : ws[c] = watches[c],
           Cleanup(gone, ws)
    PROVE  IInv'
  <1>0. NoWatches \in [Sections -> Sessions]
        /\ \A s \in Sections : NoWatches[s] = NoWatch
    BY NoWatchOK, SessionType DEF NoWatches
  <1>1. \A c \in Connections : watches'[c] = IF c \in gone THEN NoWatches ELSE ws[c]
    BY DEF Cleanup
  <1>2. \A c \in Connections : mixer'[c] = AlarmSet(watches'[c])
    <2> SUFFICES ASSUME NEW c \in Connections
                 PROVE  mixer'[c] = AlarmSet(watches'[c])
      OBVIOUS
    <2>1. CASE c \in gone
      BY <1>0, <1>1, <2>1, NoWatchOK DEF Cleanup, AlarmSet
    <2>2. CASE c \notin gone /\ c \in connected
      BY <1>1, <2>2, PushMixerExact DEF Cleanup, IInv
    <2>3. CASE c \notin gone /\ c \notin connected
      BY SMTT(60), <1>1, <2>3 DEF Cleanup, IInv, MixerExact
    <2> QED
      BY <2>1, <2>2, <2>3
  <1>3. StateOK'
    <2>1. watches' \in [Connections -> [Sections -> Sessions]]
      BY <1>0 DEF Cleanup
    <2>2. connected' \subseteq Connections /\ lastId' \in Nat
      BY DEF Cleanup, IInv, StateOK
    <2>3. idle' \in [Connections -> 0..HeartbeatTimeout]
      BY ConstantsAssumption DEF Cleanup, IInv, StateOK
    <2>4. replays' \in [Connections -> Seq(Messages)]
      BY DEF Cleanup, IInv, StateOK
    <2>5. index' \in [Sections -> SUBSET Connections]
      BY DEF Cleanup, IInv, StateOK
    <2>6. mixer' \in [Connections -> SUBSET Sections]
      <3>1. \A c \in Connections : mixer'[c] \in SUBSET Sections
        BY <1>2 DEF AlarmSet
      <3>2. mixer' = [c \in Connections |-> mixer'[c]]
        BY DEF Cleanup
      <3> QED
        BY <3>1, <3>2
    <2> QED
      BY <2>1, <2>2, <2>3, <2>4, <2>5, <2>6 DEF StateOK
  <1>4. SessionsOK'
    BY <1>0, <1>1, NoWatchOK DEF SessionsOK
  <1>5. IndexExact'
    <2>1. \A c \in Connections, s \in Sections :
              Watching(c, s)' <=> c \notin gone /\ Watching(c, s)
      BY <1>0, <1>1, NoWatchOK DEF Watching
    <2>2. \A s \in Sections : index'[s] = {c \in connected' : Watching(c, s)'}
      BY <2>1 DEF Cleanup, IInv, StateOK, IndexExact
    <2>3. \A c \in Connections \ connected' : watches'[c] = NoWatches
      BY <1>1, Zenon DEF Cleanup, IInv, IndexExact
    <2> QED
      BY <2>2, <2>3 DEF IndexExact, NoWatches
  <1>6. MixerExact'
    BY <1>2 DEF MixerExact, AlarmSet
  <1> QED
    BY <1>3, <1>4, <1>5, <1>6 DEF IInv

(* tick: expired connections go, due alarms time out.                      *)
LEMMA TickInv ==
    ASSUME IInv, Tick
    PROVE  IInv'
  <1> DEFINE ws == [c \in Connections |-> [s \in Sections |-> TimedOut(watches[c][s])]]
  <1>1. Cleanup(Expired, ws) /\ Expired \in SUBSET connected
    BY DEF Tick, Expired
  <1>2. \A c \in Connections, s \in Sections :
            /\ SessionOK(ws[c][s]) /\ ws[c][s] \in Sessions
            /\ ws[c][s].id = watches[c][s].id
    BY Lookup, EpisodeStepsOK, SessionType, Zenon
  <1>3. ws \in [Connections -> [Sections -> Sessions]]
    BY <1>2
  <1>4. \A c \in Connections \ connected : ws[c] = watches[c]
    BY NoWatchFixed DEF IInv, IndexExact, NoWatches
  <1> HIDE DEF ws
  <1> QED
    BY <1>1, <1>2, <1>3, <1>4, CleanupInv

(* disconnect and process_stop.                                            *)
LEMMA GoneInv ==
    ASSUME IInv, NEW gone \in SUBSET connected, Cleanup(gone, watches)
    PROVE  IInv'
  <1>1. watches \in [Connections -> [Sections -> Sessions]]
    BY DEF IInv, StateOK
  <1> QED
    BY <1>1, Lookup, CleanupInv

(* publish fans one observation out to every watch that has not seen it.   *)
LEMMA PublishInv ==
    ASSUME IInv, NEW s \in Sections, NEW o \in Observations, Publish(s, o)
    PROVE  IInv'
  <1> DEFINE Takes(c) == /\ c \in {d \in index[s] : d \in connected /\ Watching(d, s)}
                         /\ CursorAccepts(watches[c][s].cursor, o) = "accept"
             After(c) == ApplyObservation([watches[c][s] EXCEPT !.cursor = CursorOf(o)], o)
             ws == [c \in Connections |->
                       IF Takes(c) THEN [watches[c] EXCEPT ![s] = After(c)]
                       ELSE watches[c]]
  <1>1. /\ watches' = ws
        /\ mixer' = [c \in Connections |->
                        IF c \in index[s] /\ c \in connected
                        THEN PushMixer(c, ws[c])[c] ELSE mixer[c]]
        /\ UNCHANGED <<connected, idle, replays, index, lastId>>
    BY DEF Publish
  <1>2. CursorOf(o) \in Cursors
    BY ConstantsAssumption DEF CursorOf, Cursors, Observations
  <1>3. \A c \in Connections : /\ SessionOK(After(c)) /\ After(c) \in Sessions
                               /\ After(c).id = watches[c][s].id
    <2> SUFFICES ASSUME NEW c \in Connections
                 PROVE  SessionOK(After(c)) /\ After(c).id = watches[c][s].id
      BY SessionType
    <2> DEFINE moved == [watches[c][s] EXCEPT !.cursor = CursorOf(o)]
    <2>1. SessionOK(moved) /\ moved.id = watches[c][s].id
      BY <1>2, Lookup, CursorMoveOK
    <2> HIDE DEF moved
    <2>2. /\ SessionOK(ApplyObservation(moved, o))
          /\ ApplyObservation(moved, o).id = watches[c][s].id
      BY <2>1, ApplyObservationOK
    <2> QED
      BY <2>2 DEF moved
  <1> HIDE DEF After
  <1>4. \A c \in Connections : Takes(c) => c \in index[s] /\ c \in connected
    OBVIOUS
  <1> HIDE DEF Takes
  <1>5. \A c \in Connections :
            ws[c] = IF Takes(c) THEN [watches[c] EXCEPT ![s] = After(c)] ELSE watches[c]
    OBVIOUS
  <1>6. ws \in [Connections -> [Sections -> Sessions]]
    BY <1>3 DEF IInv, StateOK
  <1>7. \A c \in Connections, t \in Sections :
            SessionOK(ws[c][t]) /\ ws[c][t].id = watches[c][t].id
    <2> SUFFICES ASSUME NEW c \in Connections, NEW t \in Sections
                 PROVE  SessionOK(ws[c][t]) /\ ws[c][t].id = watches[c][t].id
      OBVIOUS
    <2>1. ws[c][t] = IF Takes(c) /\ t = s THEN After(c) ELSE watches[c][t]
      BY <1>5, Lookup
    <2> QED
      BY <1>3, <2>1, Lookup
  <1>8. \A c \in Connections \ connected : ws[c] = watches[c]
    BY <1>4, <1>5
  <1> HIDE DEF ws
  <1>9. \A c \in Connections : mixer'[c] = AlarmSet(ws[c])
    <2> SUFFICES ASSUME NEW c \in Connections PROVE mixer'[c] = AlarmSet(ws[c])
      OBVIOUS
    <2>1. CASE c \in index[s] /\ c \in connected
      BY <1>1, <2>1, PushMixerExact DEF IInv
    <2>2. CASE ~(c \in index[s] /\ c \in connected)
      <3>1. ws[c] = watches[c]
        BY <1>4, <1>5, <2>2, Zenon
      <3> QED
        BY <1>1, <2>2, <3>1 DEF IInv, MixerExact
    <2> QED
      BY <2>1, <2>2
  <1>10. mixer' \in [Connections -> SUBSET Sections]
    <2>1. \A c \in Connections : mixer'[c] \in SUBSET Sections
      BY <1>9 DEF AlarmSet
    <2>2. mixer' = [c \in Connections |-> mixer'[c]]
      BY <1>1
    <2> QED
      BY <2>1, <2>2
  <1>11. idle' \in [Connections -> 0..HeartbeatTimeout]
    BY <1>1 DEF IInv, StateOK
  <1> QED
    BY <1>1, <1>6, <1>7, <1>8, <1>9, <1>10, <1>11, SessionsStep

(* Watch ids handed out by one START are above every earlier one.          *)
LEMMA StartIds ==
    ASSUME NEW c, NEW r \in Seq(Items), lastId \in Nat
    PROVE  /\ AcceptedItems(c, r) \subseteq 1..Len(r)
           /\ lastId + Cardinality(AcceptedItems(c, r)) \in Nat
           /\ \A i \in AcceptedItems(c, r) :
                  lastId + Cardinality({j \in AcceptedItems(c, r) : j <= i}) \in Nat \ {0}
  <1> DEFINE A == AcceptedItems(c, r)
  <1>1. A \subseteq 1..Len(r)
    BY DEF AcceptedItems
  <1> HIDE DEF A
  <1>2. IsFiniteSet(1..Len(r))
    <2>1. Len(r) \in Int /\ 1 \in Int
      OBVIOUS
    <2> QED
      BY <2>1, FS_Interval
  <1>3. \A B \in SUBSET A : IsFiniteSet(B) /\ Cardinality(B) \in Nat
                           /\ (B # {} => Cardinality(B) # 0)
    BY <1>1, <1>2, FS_Subset, FS_CardinalityType, FS_EmptySet, Zenon
  <1>4. ASSUME NEW i \in A
        PROVE  lastId + Cardinality({j \in A : j <= i}) \in Nat \ {0}
    <2> DEFINE B == {j \in A : j <= i}
    <2>1. B \in SUBSET A /\ i \in B
      BY <1>1
    <2> HIDE DEF B
    <2>2. Cardinality(B) \in Nat /\ Cardinality(B) # 0
      BY <1>3, <2>1
    <2>3. lastId + Cardinality(B) \in Nat \ {0}
      BY <2>2
    <2> QED
      BY <2>3 DEF B
  <1>5. lastId + Cardinality(A) \in Nat
    BY <1>3
  <1> QED
    BY <1>1, <1>4, <1>5 DEF A

(* start: new sessions for the accepted items, the index gains exactly the *)
(* sections that were not watched, the replay window stays a sequence.     *)
LEMMA StartInv ==
    ASSUME IInv, NEW c \in Connections, NEW m \in Messages, NEW r \in Requests,
           Start(c, m, r)
    PROVE  IInv'
  <1> DEFINE A == AcceptedItems(c, r)
             For(s) == \E i \in A : r[i].section = s
             ItemFor(s) == CHOOSE i \in A : r[i].section = s
             IdFor(i) == lastId + Cardinality({j \in A : j <= i})
             mine == [s \in Sections |->
                         IF For(s) THEN StartedSession(r[ItemFor(s)], IdFor(ItemFor(s)))
                         ELSE watches[c][s]]
  <1>1. /\ c \in connected /\ connected' = connected
        /\ idle' = [idle EXCEPT ![c] = 0]
        /\ watches' = [watches EXCEPT ![c] = mine]
        /\ index' = [s \in Sections |->
                        IF \E i \in A : r[i].section = s /\ ~Watching(c, s)
                        THEN index[s] \cup {c} ELSE index[s]]
        /\ mixer' = PushMixer(c, mine)
        /\ replays' = [replays EXCEPT ![c] = Remember(@, m)]
        /\ lastId' = lastId + Cardinality(A)
    BY Zenon DEF Start
  <1>2. r \in Seq(Items)
    BY RequestsAssumption
  <1>3. /\ A \subseteq 1..Len(r) /\ lastId + Cardinality(A) \in Nat
        /\ \A i \in A : IdFor(i) \in Nat \ {0}
    <2>1. lastId \in Nat
      BY DEF IInv, StateOK
    <2> QED
      BY <1>2, <2>1, StartIds, Zenon
  <1> HIDE DEF A
  <1>4. \A s \in Sections : For(s) => ItemFor(s) \in A
    OBVIOUS
  <1>5. \A i \in A : r[i] \in Items
    BY <1>2, <1>3
  <1> HIDE DEF ItemFor, IdFor
  <1>6. \A s \in Sections :
            /\ SessionOK(mine[s]) /\ mine[s] \in Sessions
            /\ mine[s].id # 0 <=> For(s) \/ Watching(c, s)
    <2> SUFFICES ASSUME NEW s \in Sections
                 PROVE  SessionOK(mine[s]) /\ (mine[s].id # 0 <=> For(s) \/ Watching(c, s))
      BY Zenon, SessionType
    <2>1. CASE For(s)
      <3> DEFINE i == ItemFor(s)
      <3>1. r[i] \in Items /\ IdFor(i) \in Nat \ {0}
        BY <1>3, <1>4, <1>5, <2>1, Zenon
      <3>2. SessionOK(StartedSession(r[i], IdFor(i)))
            /\ StartedSession(r[i], IdFor(i)).id = IdFor(i)
        BY <3>1, StartedSessionOK
      <3> QED
        BY Zenon, <2>1, <3>1, <3>2
    <2>2. CASE ~For(s)
      BY <2>2, Lookup DEF Watching
    <2> QED
      BY Zenon, <2>1, <2>2
  <1>7. mine \in [Sections -> Sessions]
    BY <1>6
  <1> HIDE DEF mine
  <1>8. \A d \in Connections : watches'[d] = IF d = c THEN mine ELSE watches[d]
    BY <1>1 DEF IInv, StateOK
  <1>9. mixer' = [mixer EXCEPT ![c] = AlarmSet(mine)]
    BY <1>1, PushMixerExact DEF IInv
  <1>10. StateOK'
    <2>1. watches' \in [Connections -> [Sections -> Sessions]]
      BY <1>1, <1>7 DEF IInv, StateOK
    <2>2. mixer' \in [Connections -> SUBSET Sections]
      BY <1>9 DEF IInv, StateOK, AlarmSet
    <2>3. index' \in [Sections -> SUBSET Connections]
      BY <1>1 DEF IInv, StateOK
    <2>4. replays' \in [Connections -> Seq(Messages)]
      <3>1. replays[c] \in Seq(Messages)
        BY DEF IInv, StateOK
      <3>2. Append(replays[c], m) \in Seq(Messages) /\ Append(replays[c], m) # <<>>
        BY <3>1
      <3>3. Remember(replays[c], m) \in Seq(Messages)
        BY <3>2 DEF Remember
      <3> QED
        BY <1>1, <3>3 DEF IInv, StateOK
    <2>5. idle' \in [Connections -> 0..HeartbeatTimeout]
      BY <1>1, ConstantsAssumption DEF IInv, StateOK
    <2>6. connected' \subseteq Connections /\ lastId' \in Nat
      BY <1>1, <1>3 DEF IInv, StateOK
    <2> QED
      BY <2>1, <2>2, <2>3, <2>4, <2>5, <2>6 DEF StateOK
  <1>11. SessionsOK'
    BY <1>6, <1>8 DEF IInv, SessionsOK
  <1>12. IndexExact'
    <2>1. \A d \in Connections, s \in Sections :
              Watching(d, s)' <=> Watching(d, s) \/ (d = c /\ For(s))
      BY <1>6, <1>8 DEF Watching
    <2> HIDE DEF For
    <2>2. \A s \in Sections : index'[s] = IF For(s) THEN index[s] \cup {c} ELSE index[s]
      BY <1>1, Zenon DEF For, IInv, StateOK, IndexExact
    <2>3. ASSUME NEW s \in Sections
          PROVE  index'[s] = {d \in connected' : Watching(d, s)'}
      <3>1. index[s] = {d \in connected : Watching(d, s)} /\ connected \subseteq Connections
        BY DEF IInv, StateOK, IndexExact
      <3>2. CASE For(s)
        BY <1>1, <2>1, <2>2, <3>1, <3>2, Zenon
      <3>3. CASE ~For(s)
        BY <1>1, <2>1, <2>2, <3>1, <3>3, Zenon
      <3> QED
        BY <3>2, <3>3
    <2>4. \A d \in Connections \ connected' : watches'[d] = NoWatches
      BY <1>1, <1>8 DEF IInv, IndexExact
    <2> QED
      BY <2>3, <2>4 DEF IndexExact, NoWatches
  <1>13. MixerExact'
    <2>1. \A d \in Connections : mixer'[d] = AlarmSet(watches'[d])
      BY <1>8, <1>9 DEF IInv, StateOK, MixerExact
    <2> QED
      BY <2>1 DEF MixerExact, AlarmSet
  <1> QED
    BY <1>10, <1>11, <1>12, <1>13 DEF IInv

(* update_policy, acknowledge_episode and resume_episode.                  *)
LEMMA AlarmHandlersInv ==
    ASSUME IInv, NEW c \in Connections, NEW s \in Sections
    PROVE  /\ \A p \in Policies : UpdatePolicy(c, s, p) => IInv'
           /\ \A n : AcknowledgeEpisode(c, s, n) => IInv'
           /\ \A n : ResumeEpisode(c, s, n) => IInv'
  <1> DEFINE w == watches[c][s]
  <1>1. ASSUME NEW v, c \in connected, Watching(c, s), SessionOK(v), v.id = w.id,
               ReplaceSession(c, s, v),
               UNCHANGED <<connected, idle, replays, index, lastId>>
        PROVE  IInv'
    <2> DEFINE mine == [watches[c] EXCEPT ![s] = v]
    <2>1. watches' = [watches EXCEPT ![c] = mine] /\ mixer' = PushMixer(c, mine)
      BY <1>1 DEF ReplaceSession
    <2>2. mixer' = [mixer EXCEPT ![c] = AlarmSet(mine)]
      BY <2>1, PushMixerExact DEF IInv
    <2> QED
      BY <1>1, <2>1, <2>2, SessionStep, Zenon
  <1>2. SessionOK(w)
    BY Lookup
  <1>3. ASSUME NEW p \in Policies, UpdatePolicy(c, s, p) PROVE IInv'
    <2>1. /\ c \in connected /\ Watching(c, s)
          /\ ReplaceSession(c, s, PolicyChanged(w, p))
          /\ UNCHANGED <<connected, idle, replays, index, lastId>>
      BY <1>3 DEF UpdatePolicy, PolicyChanged
    <2> QED
      BY <1>1, <1>2, <2>1, PolicyChangedOK
  <1>4. ASSUME NEW n, AcknowledgeEpisode(c, s, n) PROVE IInv'
    <2>1. /\ c \in connected /\ Watching(c, s)
          /\ ReplaceSession(c, s, Acknowledged(w))
          /\ UNCHANGED <<connected, idle, replays, index, lastId>>
      BY <1>4 DEF AcknowledgeEpisode
    <2> QED
      BY <1>1, <1>2, <2>1, EpisodeStepsOK, Zenon
  <1>5. ASSUME NEW n, ResumeEpisode(c, s, n) PROVE IInv'
    <2> DEFINE v == [w EXCEPT !.episode.state = "Unacknowledged",
                              !.episode.left = Deadline(w.policy)]
    <2>1. /\ c \in connected /\ Watching(c, s) /\ ReplaceSession(c, s, v)
          /\ w.policy.mode = "Continuous" /\ w.reliable = "Open"
          /\ UNCHANGED <<connected, idle, replays, index, lastId>>
      BY <1>5 DEF ResumeEpisode
    <2>2. SessionOK(v) /\ v.id = w.id
      BY <1>2, <2>1, ResumeOK, Zenon
    <2> HIDE DEF v
    <2> QED
      BY <1>1, <2>1, <2>2
  <1> QED
    BY <1>3, <1>4, <1>5

(* A session whose counters change together before drive_one_shot runs.    *)
LEMMA CountedOK ==
    ASSUME NEW w, SessionOK(w), NEW a \in Nat, NEW n \in Nat,
           w.policy.mode = "Continuous" => a = 0
    PROVE  LET d == DriveOneShot([w EXCEPT !.active = a, !.count = n,
                                           !.episode.count = n])
           IN  /\ SessionOK(d) /\ d.id = w.id
               /\ AlarmActive(d) <=> AlarmActive(w)
  <1> DEFINE e == [w.episode EXCEPT !.count = n]
             v == [w EXCEPT !.active = a, !.count = n, !.episode = e]
  <1>1. [w EXCEPT !.active = a, !.count = n, !.episode.count = n] = v
    BY DEF SessionOK, Sessions, Episodes
  <1>2. /\ e \in Episodes /\ e.count = n /\ e.policy = w.policy
        /\ e.state = w.episode.state /\ e.left = w.episode.left
    BY Zenon DEF SessionOK, Sessions, Episodes
  <1> HIDE DEF e
  <1>3. v \in Sessions
    BY <1>2, Zenon DEF SessionOK, Sessions
  <1>4. /\ v.policy = w.policy /\ v.active = a /\ v.queued = w.queued
        /\ v.episode = e /\ v.count = n /\ v.reliable = w.reliable /\ v.id = w.id
    BY DEF SessionOK, Sessions
  <1> HIDE DEF v
  <1>5. AlarmActive(v) <=> AlarmActive(w)
    BY <1>2, <1>4 DEF AlarmActive
  <1>6. LET d == DriveOneShot(v)
        IN  SessionOK(d) /\ d.id = v.id /\ (AlarmActive(d) <=> AlarmActive(v))
    <2>1. w.policy.mode = "Continuous" => w.queued = <<>>
      BY DEF SessionOK
    <2>2. v.episode.left # NoDeadline
              <=> AlarmActive(v) /\ v.policy.duration # Unlimited
      BY <1>2, <1>4, <1>5 DEF SessionOK
    <2>3. v.reliable = "Open" <=> v.episode.state \notin {"None", "Closed"}
      BY <1>2, <1>4 DEF SessionOK
    <2> QED
      BY <1>2, <1>3, <1>4, <2>1, <2>2, <2>3, DriveOneShotOK
  <1> QED
    BY <1>1, <1>4, <1>5, <1>6

(* reset_audible_count, report_cue_outcome and dismiss_alert.              *)
LEMMA CueHandlersInv ==
    ASSUME IInv, NEW c \in Connections, NEW s \in Sections
    PROVE  /\ ResetAudibleCount(c, s) => IInv'
           /\ \A cue, b : ReportCueOutcome(c, s, cue, b) => IInv'
           /\ \A n : DismissAlert(c, s, n) => IInv'
  <1> DEFINE w == watches[c][s]
  <1>0. SessionOK(w) /\ w \in Sessions /\ w.active \in Nat /\ w.count \in Nat
        /\ (w.policy.mode = "Continuous" => w.active = 0)
    BY Lookup, ZenonT(60) DEF SessionOK, Sessions
  <1>1. ASSUME ResetAudibleCount(c, s) PROVE IInv'
    <2> DEFINE v == [w EXCEPT !.active = w.active, !.count = 0, !.episode.count = 0]
    <2>1. [w EXCEPT !.count = 0, !.episode.count = 0] = v
      BY <1>0, Zenon DEF Sessions
    <2>2. /\ c \in connected /\ Watching(c, s)
          /\ watches' = [watches EXCEPT ![c] = [watches[c] EXCEPT ![s] = DriveOneShot(v)]]
          /\ UNCHANGED <<connected, idle, replays, index, mixer, lastId>>
      BY <1>1, <2>1, Zenon DEF ResetAudibleCount
    <2>3. /\ SessionOK(DriveOneShot(v)) /\ DriveOneShot(v).id = w.id
          /\ AlarmActive(DriveOneShot(v)) <=> AlarmActive(w)
      BY <1>0, CountedOK, Zenon
    <2> HIDE DEF v
    <2> QED
      BY <2>2, <2>3, QuietStep, Zenon
  <1>2. ASSUME NEW cue, NEW b, ReportCueOutcome(c, s, cue, b) PROVE IInv'
    <2> DEFINE n == IF b THEN w.count + 1 ELSE w.count
               v == [w EXCEPT !.active = 0, !.count = n, !.episode.count = n]
    <2>1. n \in Nat
      BY <1>0
    <2>2. /\ c \in connected /\ Watching(c, s)
          /\ watches' = [watches EXCEPT ![c] = [watches[c] EXCEPT ![s] = DriveOneShot(v)]]
          /\ UNCHANGED <<connected, idle, replays, index, mixer, lastId>>
      BY <1>2 DEF ReportCueOutcome
    <2> HIDE DEF n
    <2>3. /\ SessionOK(DriveOneShot(v)) /\ DriveOneShot(v).id = w.id
          /\ AlarmActive(DriveOneShot(v)) <=> AlarmActive(w)
      BY <1>0, <2>1, CountedOK, Zenon
    <2> HIDE DEF v
    <2> QED
      BY <2>2, <2>3, QuietStep, Zenon
  <1>3. ASSUME NEW n, DismissAlert(c, s, n) PROVE IInv'
    <2> DEFINE e == [w.episode EXCEPT !.dismissed = TRUE]
               v == [w EXCEPT !.episode = e]
    <2>1. /\ c \in connected /\ Watching(c, s)
          /\ watches' = [watches EXCEPT ![c] = [watches[c] EXCEPT ![s] = v]]
          /\ UNCHANGED <<connected, idle, replays, index, mixer, lastId>>
      BY <1>3 DEF DismissAlert
    <2>2. /\ e \in Episodes /\ e.count = w.count /\ e.policy = w.policy
          /\ e.state = w.episode.state /\ e.left = w.episode.left
      BY <1>0, Zenon DEF SessionOK, Sessions, Episodes
    <2> HIDE DEF e
    <2>3. /\ SessionOK(v) /\ v.id = w.id /\ v.policy = w.policy /\ v.episode = e
      BY <1>0, <2>2, Zenon DEF SessionOK, Sessions, AlarmActive
    <2>4. AlarmActive(v) <=> AlarmActive(w)
      BY <2>2, <2>3 DEF AlarmActive
    <2> HIDE DEF v
    <2> QED
      BY <2>1, <2>3, <2>4, QuietStep, Zenon
  <1> QED
    BY <1>1, <1>2, <1>3

(* Every step of the reducer keeps the inductive invariant.                *)
LEMMA NextInv == IInv /\ [Next]_vars => IInv'
  <1> SUFFICES ASSUME IInv, [Next]_vars PROVE IInv'
    OBVIOUS
  <1>1. ASSUME NEW c \in Connections, Connect(c) PROVE IInv'
    BY <1>1, TouchInv, Zenon DEF Connect
  <1>2. ASSUME NEW c \in Connections, Touch(c) PROVE IInv'
    <2>1. connected' = connected \cup {c}
      BY <1>2 DEF Touch
    <2> QED
      BY <1>2, <2>1, TouchInv, Zenon DEF Touch
  <1>3. ASSUME NEW c \in Connections, NEW m \in Messages, ReplayStart(c, m) PROVE IInv'
    <2>1. connected' = connected \cup {c}
      BY <1>3 DEF ReplayStart
    <2> QED
      BY <1>3, <2>1, TouchInv, Zenon DEF ReplayStart
  <1>4. ASSUME NEW c \in Connections, Disconnect(c) PROVE IInv'
    BY <1>4, GoneInv DEF Disconnect
  <1>5. CASE ProcessStop
    BY <1>5, GoneInv DEF ProcessStop
  <1>6. CASE UNCHANGED vars
    <2>1. StateOK' /\ SessionsOK'
      BY <1>6 DEF vars, IInv, StateOK, SessionsOK
    <2>2. IndexExact'
      BY <1>6 DEF vars, IInv, IndexExact, Watching, NoWatches
    <2>3. MixerExact'
      BY <1>6 DEF vars, IInv, MixerExact, AlarmSet
    <2> QED
      BY <2>1, <2>2, <2>3 DEF IInv
  <1> QED
    BY <1>1, <1>2, <1>3, <1>4, <1>5, <1>6, StartInv, StopWatchInv, PublishInv,
       AlarmHandlersInv, CueHandlersInv, AcknowledgeAllInv, TickInv, ElapseInv DEF Next

(* The inductive invariant holds in every reachable state of the reducer.  *)
THEOREM Consistent == Spec => []IInv
  BY InitInv, NextInv, PTL DEF Spec

(* connections_by_section is the inverse of the connections' watches: the  *)
(* section index publish and the scheduler's demand rely on never drifts.  *)
THEOREM IndexAlwaysExact == Spec => []IndexExact
  <1>1. IInv => IndexExact
    BY DEF IInv
  <1> QED
    BY <1>1, Consistent, PTL

(* Every page has been told exactly its active alarms after each handler:  *)
(* push_mixer_if_changed is called wherever the alarm set can change.      *)
THEOREM MixerAlwaysExact == Spec => []MixerExact
  <1>1. IInv => MixerExact
    BY DEF IInv
  <1> QED
    BY <1>1, Consistent, PTL

(* Queued cues wait behind an active one; a CONTINUOUS watch has no cue    *)
(* (queue_one_shot, drive_one_shot, update_policy).                        *)
THEOREM CuesDisciplined == Spec => []CueDiscipline
  <1>1. IInv => CueDiscipline
    BY DEF IInv, SessionsOK, SessionOK, CueDiscipline
  <1> QED
    BY <1>1, Consistent, PTL

(* A deadline is armed exactly while a finite alarm rings: no handler      *)
(* loses one or leaves a stale one behind.                                 *)
THEOREM DeadlineAlwaysExact == Spec => []DeadlineExact
  <1>1. IInv => DeadlineExact
    BY DEF IInv, SessionsOK, SessionOK, DeadlineExact
  <1> QED
    BY <1>1, Consistent, PTL

(* A watch's last reliable state is OPEN exactly while its episode is not  *)
(* closed (apply_observation, start, end_session).                         *)
THEOREM EpisodeAlwaysReliable == Spec => []EpisodeReliable
  <1>1. IInv => EpisodeReliable
    BY DEF IInv, SessionsOK, SessionOK, EpisodeReliable
  <1> QED
    BY <1>1, Consistent, PTL

(* The episode's copies of policy and audible count follow the watch's     *)
(* (update_policy, reset_audible_count, report_cue_outcome).               *)
THEOREM EpisodeAlwaysMirrors == Spec => []EpisodeMirrors
  <1>1. IInv => EpisodeMirrors
    BY DEF IInv, SessionsOK, SessionOK, EpisodeMirrors
  <1> QED
    BY <1>1, Consistent, PTL

(* The maps of the reducer, the watermarks excepted, keep their shapes.    *)
THEOREM TypeCorrect == Spec => []StateOK
  <1>1. IInv => StateOK
    BY DEF IInv
  <1> QED
    BY <1>1, Consistent, PTL

(* What is derived from the watches, the section index and the alarm set   *)
(* each page was told, is exact in every reachable state.                  *)
THEOREM DerivedAlwaysExact == Spec => []DerivedExact
  <1>1. IndexExact /\ MixerExact => DerivedExact
    BY DEF DerivedExact
  <1> QED
    BY <1>1, IndexAlwaysExact, MixerAlwaysExact, PTL
=============================================================================
