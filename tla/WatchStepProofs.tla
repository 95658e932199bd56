--------------------------- MODULE WatchStepProofs ---------------------------
(***************************************************************************)
(* What a step of WatchManager may do to one watch: the order of its cues  *)
(* (CueOrder, and with it EpisodeSound) and that no handler takes a watch  *)
(* back (StepsForward), for every value of the constants.                  *)
(*                                                                         *)
(* Every step moves each session by one of the pure steps on sessions, or  *)
(* replaces it by a fresh one (StepMoves).  A pure step keeps the cues in  *)
(* order and goes forward (the lemmas on moves); a fresh session has an id *)
(* nobody had, because every id in use is at most lastId.                  *)
(***************************************************************************)
EXTENDS WatchManagerProofs

CuesOrdered(w) ==
    /\ w.active <= w.cursor.seq
    /\ \A i \in DOMAIN w.queued : w.active < w.queued[i] /\ w.queued[i] <= w.cursor.seq
    /\ \A i, j \in DOMAIN w.queued : i < j => w.queued[i] < w.queued[j]

(* The inductive invariant: IInv, cues in order and ids already handed out *)
OInv ==
    /\ IInv
    /\ \A c \in Connections, s \in Sections :
           CuesOrdered(watches[c][s]) /\ watches[c][s].id <= lastId

Newer(w, v) ==
    /\ v.cursor.seq >= w.cursor.seq
    /\ v.reliable # w.reliable => v.cursor.seq > w.cursor.seq

Advances(w, v) ==
    \/ v.epSeq = w.epSeq /\ v.episode.state \in EpisodeSuccessors[w.episode.state]
    \/ /\ v.epSeq = w.epSeq + 1
       /\ w.episode.state \in {"None", "Closed"} /\ v.episode.state = "Unacknowledged"

Budgeted(w, v) == v.active \notin {0, w.active} => v.count < v.policy.max

(* v is w after a step on the same watch.                                  *)
Forward(w, v) ==
    v.id = w.id /\ CuesOrdered(v) /\ Newer(w, v) /\ Advances(w, v) /\ Budgeted(w, v)

-----------------------------------------------------------------------------
(* Steps on one session                                                    *)

(* The table of episode states, by state.                                  *)
LEMMA Successors ==
    /\ \A st \in EpisodeStates : st \in EpisodeSuccessors[st]
    /\ {"Acknowledged", "TimedOut", "Closed"} \subseteq EpisodeSuccessors["Unacknowledged"]
    /\ "Closed" \in EpisodeSuccessors["Acknowledged"]
    /\ {"Unacknowledged", "Closed"} \subseteq EpisodeSuccessors["TimedOut"]
  BY DEF EpisodeStates, EpisodeSuccessors

(* The fields of a session.                                                *)
LEMMA SessionFields ==
    ASSUME NEW w, w \in Sessions
    PROVE  /\ w.id \in Nat /\ w.policy \in Policies /\ w.cursor.seq \in Nat
           /\ w.policy.max \in Nat \ {0} /\ w.policy.mode \in Modes
           /\ w.epSeq \in Nat /\ w.episode \in Episodes /\ w.count \in Nat
           /\ w.episode.state \in EpisodeStates
           /\ w.active \in Nat /\ w.queued \in Seq(Nat \ {0})
  BY ConstantsAssumption DEF Sessions, Cursors, AllPolicies, Episodes

(* The elements of a sequence's tail are its elements from the second on.  *)
LEMMA TailElements ==
    ASSUME NEW q \in Seq(Nat \ {0}), q # <<>>
    PROVE  /\ Head(q) = q[1] /\ 1 \in DOMAIN q
           /\ \A i \in DOMAIN Tail(q) : /\ i \in Nat /\ Tail(q)[i] = q[i + 1]
                                         /\ i + 1 \in DOMAIN q /\ 1 < i + 1
  <1>1. Len(q) \in Nat /\ Len(q) # 0 /\ DOMAIN q = 1..Len(q)
    OBVIOUS
  <1>2. /\ Tail(q) \in Seq(Nat \ {0}) /\ Len(Tail(q)) = Len(q) - 1
        /\ DOMAIN Tail(q) = 1..(Len(q) - 1)
    BY <1>1
  <1>3. ASSUME NEW i \in 1..(Len(q) - 1) PROVE Tail(q)[i] = q[i + 1]
    BY <1>1, <1>3
  <1>4. Head(q) = q[1]
    OBVIOUS
  <1> QED
    BY <1>1, <1>2, <1>3, <1>4

(* A step that leaves cursor, cues, reliable state and episode number.     *)
LEMMA QuietForward ==
    ASSUME NEW w, SessionOK(w), CuesOrdered(w), NEW v, v.id = w.id,
           v.cursor = w.cursor, v.active = w.active, v.queued = w.queued,
           v.reliable = w.reliable, v.epSeq = w.epSeq,
           v.episode.state \in EpisodeSuccessors[w.episode.state]
    PROVE  Forward(w, v)
  <1>1. w.cursor.seq \in Nat
    BY SessionFields DEF SessionOK
  <1>2. CuesOrdered(v)
    BY Zenon DEF CuesOrdered
  <1>3. Newer(w, v)
    BY <1>1 DEF Newer
  <1> QED
    BY <1>2, <1>3 DEF Forward, Advances, Budgeted

(* What a step on the episode alone leaves.                                *)
LEMMA EpisodeFrame ==
    ASSUME NEW w, w \in Sessions, NEW r, NEW st, NEW left
    PROVE  LET v == WithEpisode(w, r, st, left)
           IN  /\ v.id = w.id /\ v.cursor = w.cursor /\ v.active = w.active
               /\ v.queued = w.queued /\ v.epSeq = w.epSeq /\ v.count = w.count
               /\ v.policy = w.policy /\ v.reliable = r /\ v.episode.state = st
  BY Zenon DEF WithEpisode, Sessions, Episodes

(* Acknowledging, timing out and resuming an alarm, dismissing an alert    *)
(* and the passing of time go forward.                                     *)
LEMMA AlarmForward ==
    ASSUME NEW w, SessionOK(w), CuesOrdered(w)
    PROVE  /\ Forward(w, w)
           /\ Forward(w, Acknowledged(w)) /\ Forward(w, TimedOut(w))
           /\ Forward(w, ElapsedSession(w))
           /\ Forward(w, [w EXCEPT !.episode.dismissed = TRUE])
           /\ w.episode.state = "TimedOut" =>
                  Forward(w, [w EXCEPT !.episode.state = "Unacknowledged",
                                       !.episode.left = Deadline(w.policy)])
  <1>0. /\ w \in Sessions /\ w.episode \in Episodes /\ w.episode.state \in EpisodeStates
        /\ w.episode.state \in EpisodeSuccessors[w.episode.state]
    BY SessionFields, Successors DEF SessionOK
  <1>1. Forward(w, w)
    BY <1>0, QuietForward
  <1>2. ASSUME NEW st, NEW left, st \in EpisodeSuccessors[w.episode.state]
        PROVE  Forward(w, [w EXCEPT !.episode.state = st, !.episode.left = left])
    <2> DEFINE v == WithEpisode(w, w.reliable, st, left)
    <2>1. [w EXCEPT !.episode.state = st, !.episode.left = left] = v
      BY <1>0, Zenon DEF WithEpisode, Sessions, Episodes
    <2>2. /\ v.id = w.id /\ v.cursor = w.cursor /\ v.active = w.active
          /\ v.queued = w.queued /\ v.epSeq = w.epSeq
          /\ v.reliable = w.reliable /\ v.episode.state = st
      BY <1>0, EpisodeFrame
    <2> HIDE DEF v
    <2>3. Forward(w, v)
      BY <1>2, <2>2, QuietForward
    <2> QED
      BY <2>1, <2>3
  <1>3. Forward(w, Acknowledged(w))
    <2>1. CASE AlarmActive(w)
      BY Zenon, <1>2, <2>1, Successors DEF Acknowledged, AlarmActive
    <2> QED
      BY <1>1, <2>1 DEF Acknowledged
  <1>4. Forward(w, TimedOut(w))
    <2>1. CASE AlarmActive(w) /\ w.episode.left = 0
      BY Zenon, <1>2, <2>1, Successors DEF TimedOut, AlarmActive
    <2> QED
      BY <1>1, <2>1 DEF TimedOut
  <1>5. Forward(w, ElapsedSession(w))
    <2> DEFINE n == w.episode.left - 1
               v == [w EXCEPT !.episode.state = w.episode.state, !.episode.left = n]
    <2>1. CASE w.episode.left > 0
      <3>1. ElapsedSession(w) = v
        BY <1>0, <2>1, Zenon DEF ElapsedSession, Sessions, Episodes
      <3> HIDE DEF n
      <3>2. Forward(w, v)
        BY Zenon, <1>0, <1>2
      <3> QED
        BY <3>1, <3>2
    <2> QED
      BY <1>1, <2>1 DEF ElapsedSession
  <1>6. Forward(w, [w EXCEPT !.episode.dismissed = TRUE])
    <2> DEFINE v == [w EXCEPT !.episode.dismissed = TRUE]
    <2>1. /\ v.id = w.id /\ v.cursor = w.cursor /\ v.active = w.active
          /\ v.queued = w.queued /\ v.epSeq = w.epSeq
          /\ v.reliable = w.reliable /\ v.episode.state = w.episode.state
      BY <1>0 DEF Sessions, Episodes
    <2> HIDE DEF v
    <2>2. Forward(w, v)
      BY <1>0, <2>1, QuietForward
    <2> QED
      BY <2>2 DEF v
  <1>7. w.episode.state = "TimedOut" =>
            Forward(w, [w EXCEPT !.episode.state = "Unacknowledged",
                                 !.episode.left = Deadline(w.policy)])
    BY Zenon, <1>2, Successors
  <1> QED
    BY <1>1, <1>3, <1>4, <1>5, <1>6, <1>7

(* A step that keeps cursor and episode and drops every cue.               *)
LEMMA DropForward ==
    ASSUME NEW w, SessionOK(w), CuesOrdered(w), NEW v, v.id = w.id,
           v.cursor = w.cursor, v.active = 0, v.queued = <<>>,
           v.reliable = w.reliable, v.epSeq = w.epSeq,
           v.episode.state = w.episode.state
    PROVE  Forward(w, v)
  <1>1. w.cursor.seq \in Nat /\ w.episode.state \in EpisodeSuccessors[w.episode.state]
    BY SessionFields, Successors DEF SessionOK
  <1>2. CuesOrdered(v)
    BY <1>1 DEF CuesOrdered
  <1>3. Newer(w, v)
    BY <1>1 DEF Newer
  <1> QED
    BY <1>1, <1>2, <1>3 DEF Forward, Advances, Budgeted

(* update_policy goes forward: it keeps the cues or drops all of them.     *)
LEMMA PolicyForward ==
    ASSUME NEW w, SessionOK(w), CuesOrdered(w), NEW p \in Policies
    PROVE  Forward(w, PolicyChanged(w, p))
  <1> DEFINE left == IF p.mode = "OneShot" THEN NoDeadline
                     ELSE IF w.episode.state = "Unacknowledged" THEN Deadline(p)
                     ELSE w.episode.left
             e == [w.episode EXCEPT !.policy = p, !.left = left]
             none == <<>>
  <1>0. /\ w \in Sessions /\ w.episode \in Episodes
        /\ w.episode.state \in EpisodeSuccessors[w.episode.state]
    BY SessionFields, Successors DEF SessionOK
  <1>1. e.state = w.episode.state
    BY <1>0, Zenon DEF Episodes
  <1>2. CASE w.policy.mode = "OneShot" /\ p.mode = "Continuous"
    <2> DEFINE v == [w EXCEPT !.active = 0, !.queued = none, !.policy = p, !.episode = e]
    <2>1. PolicyChanged(w, p) = v
      BY <1>0, <1>2, Zenon DEF PolicyChanged, TakePendingCues, Sessions, Episodes
    <2> HIDE DEF e
    <2>2. /\ v.id = w.id /\ v.cursor = w.cursor /\ v.active = 0 /\ v.queued = <<>>
          /\ v.reliable = w.reliable /\ v.epSeq = w.epSeq
          /\ v.episode = e
      BY <1>0 DEF Sessions
    <2> HIDE DEF v
    <2>3. Forward(w, v)
      BY <1>1, <2>2, DropForward
    <2> QED
      BY <2>1, <2>3
  <1>3. CASE ~(w.policy.mode = "OneShot" /\ p.mode = "Continuous")
    <2> DEFINE v == [w EXCEPT !.policy = p, !.episode = e]
    <2>1. PolicyChanged(w, p) = v
      BY <1>0, <1>3, Zenon DEF PolicyChanged, Sessions, Episodes
    <2> HIDE DEF e
    <2>2. /\ v.id = w.id /\ v.cursor = w.cursor /\ v.active = w.active
          /\ v.queued = w.queued /\ v.reliable = w.reliable /\ v.epSeq = w.epSeq
          /\ v.episode = e
      BY <1>0 DEF Sessions
    <2> HIDE DEF v
    <2>3. Forward(w, v)
      BY <1>0, <1>1, <2>2, QuietForward
    <2> QED
      BY <2>1, <2>3
  <1> QED
    BY <1>2, <1>3

(* reset_audible_count and report_cue_outcome go forward: drive_one_shot   *)
(* asks for the oldest queued cue, and only within the budget.             *)
LEMMA CountedForward ==
    ASSUME NEW w, SessionOK(w), CuesOrdered(w), NEW a \in {0, w.active}, NEW n \in Nat
    PROVE  Forward(w, DriveOneShot([w EXCEPT !.active = a, !.count = n,
                                             !.episode.count = n]))
  <1> DEFINE e == [w.episode EXCEPT !.count = n]
             x == [w EXCEPT !.active = a, !.count = n, !.episode = e]
             d == DriveOneShot(x)
  <1>0. /\ w \in Sessions /\ w.episode \in Episodes
        /\ w.episode.state \in EpisodeSuccessors[w.episode.state]
        /\ w.active \in Nat /\ w.queued \in Seq(Nat \ {0}) /\ w.cursor.seq \in Nat
    BY SessionFields, Successors DEF SessionOK
  <1>1. [w EXCEPT !.active = a, !.count = n, !.episode.count = n] = x
    BY <1>0 DEF Sessions, Episodes
  <1>2. e.state = w.episode.state
    BY <1>0, Zenon DEF Episodes
  <1> HIDE DEF e
  <1>3. /\ x.id = w.id /\ x.cursor = w.cursor /\ x.active = a
        /\ x.queued = w.queued /\ x.reliable = w.reliable /\ x.epSeq = w.epSeq
        /\ x.episode = e /\ x.count = n /\ x.policy = w.policy
        /\ DOMAIN x = DOMAIN w
    BY <1>0 DEF Sessions
  <1>4. DOMAIN w = {"id", "policy", "reliable", "cursor", "epSeq", "episode", "count",
                    "active", "queued"}
    BY <1>0 DEF Sessions
  <1> HIDE DEF x
  <1>5. CASE a # 0
    <2>1. d = x
      BY <1>3, <1>5 DEF DriveOneShot
    <2>2. Forward(w, x)
      BY <1>0, <1>2, <1>3, <1>5, QuietForward
    <2> QED
      BY <1>1, <2>1, <2>2
  <1>6. CASE a = 0 /\ n >= w.policy.max
    <2> DEFINE none == <<>>
               v == [x EXCEPT !.queued = none]
    <2>1. d = v
      BY <1>3, <1>6 DEF DriveOneShot
    <2>2. /\ v.id = w.id /\ v.cursor = w.cursor /\ v.active = 0 /\ v.queued = none
          /\ v.reliable = w.reliable /\ v.epSeq = w.epSeq /\ v.episode = e
      BY <1>3, <1>4, <1>6, Zenon
    <2> HIDE DEF v
    <2>3. Forward(w, v)
      BY <1>2, <2>2, DropForward
    <2> QED
      BY <1>1, <2>1, <2>3
  <1>7. CASE a = 0 /\ ~(n >= w.policy.max) /\ w.queued = <<>>
    <2>1. d = x
      BY <1>3, <1>7 DEF DriveOneShot
    <2>2. Forward(w, x)
      BY <1>2, <1>3, <1>7, DropForward
    <2> QED
      BY <1>1, <2>1, <2>2
  <1>8. CASE a = 0 /\ ~(n >= w.policy.max) /\ w.queued # <<>>
    <2> DEFINE head == Head(w.queued)
               tail == Tail(w.queued)
               v == [x EXCEPT !.queued = tail, !.active = head]
    <2>1. d = v
      BY <1>3, <1>4, <1>8, Zenon DEF DriveOneShot, RequestCue
    <2>2. /\ head = w.queued[1] /\ 1 \in DOMAIN w.queued
          /\ \A i \in DOMAIN tail : /\ i \in Nat /\ tail[i] = w.queued[i + 1]
                                    /\ i + 1 \in DOMAIN w.queued /\ 1 < i + 1
      BY <1>0, <1>8, TailElements
    <2>3. \A i \in DOMAIN w.queued : w.queued[i] \in Nat
      BY <1>0
    <2> HIDE DEF head, tail
    <2>4. /\ v.id = w.id /\ v.cursor = w.cursor /\ v.active = head /\ v.queued = tail
          /\ v.reliable = w.reliable /\ v.epSeq = w.epSeq /\ v.episode = e
          /\ v.count = n /\ v.policy = w.policy
      BY <1>3, <1>4, Zenon
    <2> HIDE DEF v
    <2>5. CuesOrdered(v)
      BY <1>0, <2>2, <2>3, <2>4 DEF CuesOrdered
    <2>6. Newer(w, v) /\ Advances(w, v)
      BY <1>0, <1>2, <2>4 DEF Newer, Advances
    <2>7. Budgeted(w, v)
      <3>1. w.policy.max \in Nat
        BY <1>0, SessionFields
      <3> QED
        BY <1>8, <2>4, <3>1 DEF Budgeted
    <2> QED
      BY <1>1, <2>1, <2>4, <2>5, <2>6, <2>7 DEF Forward
  <1> QED
    BY <1>5, <1>6, <1>7, <1>8

(* The three things an observation does to the cues of a watch.            *)
CuesAfter(w, v) ==
    \/ v.active = w.active /\ v.queued = w.queued
    \/ v.active = w.active /\ v.queued = Append(w.queued, v.cursor.seq)
    \/ /\ w.queued = <<>> /\ v.queued = w.queued
       /\ v.active = v.cursor.seq /\ v.count < v.policy.max

(* A step to a newer observation.                                          *)
LEMMA NewerForward ==
    ASSUME NEW w, SessionOK(w), CuesOrdered(w), NEW v, v.id = w.id,
           v.cursor.seq \in Nat, v.cursor.seq > w.cursor.seq,
           Advances(w, v), CuesAfter(w, v)
    PROVE  Forward(w, v)
  <1>1. /\ w.cursor.seq \in Nat /\ w.active \in Nat /\ w.queued \in Seq(Nat \ {0})
        /\ \A i \in DOMAIN w.queued : w.queued[i] \in Nat
    BY SessionFields DEF SessionOK
  <1>2. CuesOrdered(v) /\ Budgeted(w, v)
    <2>1. CASE v.active = w.active /\ v.queued = w.queued
      BY <1>1, <2>1 DEF CuesOrdered, Budgeted
    <2>2. CASE v.active = w.active /\ v.queued = Append(w.queued, v.cursor.seq)
      <3>1. /\ DOMAIN v.queued = 1..(Len(w.queued) + 1) /\ Len(w.queued) \in Nat
            /\ DOMAIN w.queued = 1..Len(w.queued)
            /\ v.queued[Len(w.queued) + 1] = v.cursor.seq
            /\ \A i \in 1..Len(w.queued) : v.queued[i] = w.queued[i]
        BY <1>1, <2>2
      <3>2. \A i \in DOMAIN v.queued : i = Len(w.queued) + 1 \/ i \in DOMAIN w.queued
        BY <3>1
      <3>3. w.active < v.cursor.seq
        BY <1>1 DEF CuesOrdered
      <3>4. \A i \in DOMAIN w.queued :
                /\ v.queued[i] = w.queued[i] /\ w.queued[i] \in Nat
                /\ w.active < w.queued[i] /\ w.queued[i] <= w.cursor.seq
        BY <1>1, <3>1 DEF CuesOrdered
      <3>5. ASSUME NEW i \in DOMAIN v.queued
            PROVE  w.active < v.queued[i] /\ v.queued[i] <= v.cursor.seq
        <4>1. CASE i = Len(w.queued) + 1
          BY <3>1, <3>3, <4>1
        <4>2. CASE i \in DOMAIN w.queued
          <5>1. v.queued[i] \in Nat /\ w.active < v.queued[i] /\ v.queued[i] <= w.cursor.seq
            BY <3>4, <4>2
          <5> QED
            BY <1>1, <5>1
        <4> QED
          BY <3>2, <4>1, <4>2
      <3>7. ASSUME NEW i \in DOMAIN v.queued, NEW j \in DOMAIN v.queued, i < j
            PROVE  v.queued[i] < v.queued[j]
        <4>1. i \in DOMAIN w.queued
          BY <3>1, <3>2, <3>7
        <4>2. v.queued[i] \in Nat /\ v.queued[i] <= w.cursor.seq
          BY <3>4, <4>1
        <4>3. CASE j = Len(w.queued) + 1
          <5>1. v.queued[j] = v.cursor.seq
            BY <3>1, <4>3
          <5> QED
            BY <1>1, <4>2, <5>1
        <4>4. CASE j \in DOMAIN w.queued
          <5>1. v.queued[i] = w.queued[i] /\ v.queued[j] = w.queued[j]
            BY <3>4, <4>1, <4>4
          <5> QED
            BY <3>7, <4>1, <4>4, <5>1 DEF CuesOrdered
        <4> QED
          BY <3>2, <4>3, <4>4
      <3>6. v.active <= v.cursor.seq
        BY <1>1, <2>2, <3>3
      <3> QED
        BY <2>2, <3>5, <3>6, <3>7 DEF CuesOrdered, Budgeted
    <2>3. CASE /\ w.queued = <<>> /\ v.queued = w.queued
               /\ v.active = v.cursor.seq /\ v.count < v.policy.max
      BY <1>1, <2>3 DEF CuesOrdered, Budgeted
    <2> QED
      BY <2>1, <2>2, <2>3 DEF CuesAfter
  <1>3. Newer(w, v)
    BY <1>1 DEF Newer
  <1> QED
    BY <1>2, <1>3 DEF Forward

(* What queue_one_shot does to the cues.                                   *)
LEMMA QueueFrame ==
    ASSUME NEW x, SessionOK(x), NEW cue \in Nat \ {0}
    PROVE  LET v == QueueOneShot(x, cue)
           IN  /\ v.id = x.id /\ v.cursor = x.cursor /\ v.epSeq = x.epSeq
               /\ v.episode = x.episode /\ v.count = x.count
               /\ v.policy = x.policy /\ v.reliable = x.reliable
               /\ \/ v.active = x.active /\ v.queued = x.queued
                  \/ v.active = x.active /\ v.queued = Append(x.queued, cue)
                  \/ /\ x.queued = <<>> /\ v.queued = x.queued
                     /\ v.active = cue /\ v.count < v.policy.max
  <1> DEFINE more == Append(x.queued, cue)
             v == QueueOneShot(x, cue)
  <1>0. x \in Sessions /\ x.count \in Nat /\ x.policy.max \in Nat
        /\ (x.active = 0 => x.queued = <<>>)
    BY SessionFields DEF SessionOK
  <1>1. CASE x.count >= x.policy.max
    BY <1>1 DEF QueueOneShot
  <1>2. CASE ~(x.count >= x.policy.max) /\ x.active # 0
    <2>1. v = [x EXCEPT !.queued = more]
      BY <1>2 DEF QueueOneShot
    <2> HIDE DEF more, v
    <2>2. /\ v.id = x.id /\ v.cursor = x.cursor /\ v.epSeq = x.epSeq
          /\ v.episode = x.episode /\ v.count = x.count
          /\ v.policy = x.policy /\ v.reliable = x.reliable
          /\ v.active = x.active /\ v.queued = more
      BY <1>0, <2>1, Zenon DEF Sessions
    <2> QED
      BY <2>2 DEF more, v
  <1>3. CASE ~(x.count >= x.policy.max) /\ x.active = 0
    <2>1. v = [x EXCEPT !.active = cue]
      BY <1>3 DEF QueueOneShot, RequestCue
    <2> HIDE DEF v
    <2>2. /\ v.id = x.id /\ v.cursor = x.cursor /\ v.epSeq = x.epSeq
          /\ v.episode = x.episode /\ v.count = x.count
          /\ v.policy = x.policy /\ v.reliable = x.reliable
          /\ v.active = cue /\ v.queued = x.queued
      BY <1>0, <2>1, Zenon DEF Sessions
    <2>3. v.count < v.policy.max
      BY <1>0, <1>3, <2>2
    <2> QED
      BY <1>0, <1>3, <2>2, <2>3 DEF v
  <1> QED
    BY <1>1, <1>2, <1>3

(* What open_episode leaves.                                               *)
LEMMA OpenFrame ==
    ASSUME NEW x, x \in Sessions
    PROVE  LET v == OpenEpisode(x)
           IN  /\ v.id = x.id /\ v.cursor = x.cursor /\ v.active = x.active
               /\ v.queued = x.queued /\ v.count = x.count /\ v.policy = x.policy
               /\ v.reliable = x.reliable /\ v.epSeq = x.epSeq + 1
               /\ v.episode.state = "Unacknowledged"
  <1> DEFINE e == FreshEpisode(x)
             n == x.epSeq + 1
             v == [x EXCEPT !.epSeq = n, !.episode = e]
  <1>1. OpenEpisode(x) = v /\ e.state = "Unacknowledged"
    BY DEF OpenEpisode, FreshEpisode, Sessions
  <1> HIDE DEF e, n
  <1>2. /\ v.id = x.id /\ v.cursor = x.cursor /\ v.active = x.active
        /\ v.queued = x.queued /\ v.count = x.count /\ v.policy = x.policy
        /\ v.reliable = x.reliable /\ v.epSeq = n /\ v.episode = e
    BY Zenon DEF Sessions
  <1> QED
    BY <1>1, <1>2 DEF n

(* An accepted observation goes forward (apply_observation).               *)
LEMMA ObservedForward ==
    ASSUME NEW w, SessionOK(w), CuesOrdered(w), NEW o \in Observations,
           CursorAccepts(w.cursor, o) = "accept"
    PROVE  Forward(w, ApplyObservation([w EXCEPT !.cursor = CursorOf(o)], o))
  <1> DEFINE k == CursorOf(o)
             x == [w EXCEPT !.cursor = k]
             base == [x EXCEPT !.reliable = "Open"]
             y == [x EXCEPT !.reliable = "Closed"]
  <1>0. /\ o.seq \in Nat \ {0} /\ o.state \in {"Open", "Closed", "Unknown"}
        /\ k \in Cursors /\ k.seq = o.seq /\ w \in Sessions /\ w.cursor.seq \in Nat
        /\ w.episode.state \in EpisodeStates
        /\ w.episode.state \in EpisodeSuccessors[w.episode.state]
    BY SessionFields, Successors DEF Observations, SessionOK, CursorOf, Cursors
  <1>1. o.seq > w.cursor.seq
    BY <1>0 DEF CursorAccepts
  <1>2. SessionOK(x) /\ x \in Sessions
    BY <1>0, CursorMoveOK, SessionType
  <1> HIDE DEF k
  <1>3. /\ x.id = w.id /\ x.cursor = k /\ x.active = w.active /\ x.queued = w.queued
        /\ x.epSeq = w.epSeq /\ x.episode = w.episode /\ x.reliable = w.reliable
        /\ x.policy = w.policy
    BY <1>0, Zenon DEF Sessions
  <1> HIDE DEF x
  <1>4. ASSUME NEW v, v.id = w.id, v.cursor = k, Advances(w, v), CuesAfter(w, v)
        PROVE  Forward(w, v)
    BY <1>0, <1>1, <1>4, NewerForward
  <1>5. CASE o.state = "Unknown"
    <2>1. ApplyObservation(x, o) = x
      BY <1>5 DEF ApplyObservation
    <2>2. Advances(w, x) /\ CuesAfter(w, x)
      BY <1>0, <1>3 DEF Advances, CuesAfter
    <2> QED
      BY Zenon, <1>3, <1>4, <2>1, <2>2 DEF x, k
  <1>6. CASE o.state = "Closed"
    <2>1. ApplyObservation(x, o) = EndEpisode(y)
      BY <1>6 DEF ApplyObservation
    <2>2. /\ y \in Sessions /\ y.id = w.id /\ y.cursor = k /\ y.active = w.active
          /\ y.queued = w.queued /\ y.epSeq = w.epSeq /\ y.episode = w.episode
      BY <1>2, <1>3, Zenon DEF Sessions
    <2> HIDE DEF y
    <2>3. CASE y.episode.state \in {"None", "Closed"}
      <3>1. EndEpisode(y) = y
        BY <2>3 DEF EndEpisode
      <3>2. Advances(w, y) /\ CuesAfter(w, y)
        BY <1>0, <2>2 DEF Advances, CuesAfter
      <3> QED
        BY <1>4, <2>1, <2>2, <3>1, <3>2 DEF x, k
    <2>4. CASE y.episode.state \notin {"None", "Closed"}
      <3> DEFINE v == EndEpisode(y)
      <3>1. v = [y EXCEPT !.episode.state = "Closed", !.episode.left = NoDeadline]
        BY <2>4 DEF EndEpisode
      <3>2. /\ v.id = y.id /\ v.cursor = y.cursor /\ v.active = y.active
            /\ v.queued = y.queued /\ v.epSeq = y.epSeq /\ v.episode.state = "Closed"
        <4> DEFINE e == [y.episode EXCEPT !.state = "Closed", !.left = NoDeadline]
        <4>1. v = [y EXCEPT !.episode = e] /\ e.state = "Closed"
          BY <2>2, <3>1, Zenon DEF Sessions, Episodes
        <4> HIDE DEF e, v
        <4> QED
          BY <2>2, <4>1, Zenon DEF Sessions
      <3> HIDE DEF v
      <3>3. "Closed" \in EpisodeSuccessors[w.episode.state]
        BY <1>0, <2>2, <2>4, Successors DEF EpisodeStates
      <3>4. Advances(w, v) /\ CuesAfter(w, v)
        BY <2>2, <3>2, <3>3 DEF Advances, CuesAfter
      <3>5. Forward(w, v)
        BY <1>4, <2>2, <3>2, <3>4
      <3> QED
        BY <2>1, <3>5 DEF v, x, k
    <2> QED
      BY <2>3, <2>4
  <1>7. CASE o.state = "Open"
    <2> DEFINE creates == x.reliable # "Open" \/ x.episode.state \in {"None", "Closed"}
               opened == IF creates THEN OpenEpisode(base) ELSE x
               v == IF x.policy.mode = "OneShot" THEN QueueOneShot(opened, o.seq)
                    ELSE opened
    <2>1. ApplyObservation(x, o) = v
      BY <1>7, Zenon DEF ApplyObservation, ObserveOpen
    <2>2. /\ SessionOK(opened) /\ opened.id = w.id /\ opened.cursor = k
          /\ opened.active = w.active /\ opened.queued = w.queued /\ Advances(w, opened)
      <3>1. CASE creates
        <4>1. w.episode.state \in {"None", "Closed"}
          BY <1>3, <3>1 DEF SessionOK
        <4>2. /\ base \in Sessions /\ base.id = w.id /\ base.cursor = k
              /\ base.active = w.active /\ base.queued = w.queued
              /\ base.epSeq = w.epSeq /\ base.reliable = "Open" /\ base.policy = w.policy
          BY <1>2, <1>3, Zenon DEF Sessions
        <4>3. opened = OpenEpisode(base)
          BY <3>1
        <4> HIDE DEF base, opened
        <4>4. SessionOK(OpenEpisode(base))
          BY <4>2, OpenEpisodeOK DEF SessionOK
        <4>5. /\ opened.id = base.id /\ opened.cursor = base.cursor
              /\ opened.active = base.active /\ opened.queued = base.queued
              /\ opened.epSeq = base.epSeq + 1 /\ opened.episode.state = "Unacknowledged"
          BY <4>2, <4>3, OpenFrame
        <4> QED
          BY <4>1, <4>2, <4>3, <4>4, <4>5 DEF Advances
      <3>2. CASE ~creates
        <4>1. opened = x
          BY <3>2
        <4> QED
          BY <1>0, <1>2, <1>3, <4>1 DEF Advances
      <3> QED
        BY <3>1, <3>2
    <2> HIDE DEF opened
    <2>3. CASE x.policy.mode # "OneShot"
      <3>1. v = opened
        BY <2>3
      <3>2. CuesAfter(w, opened)
        BY <2>2 DEF CuesAfter
      <3>3. Forward(w, opened)
        BY <1>4, <2>2, <3>2
      <3> QED
        BY <2>1, <3>1, <3>3 DEF x, k
    <2>4. CASE x.policy.mode = "OneShot"
      <3> DEFINE q == QueueOneShot(opened, o.seq)
      <3>1. v = q
        BY <2>4
      <3>2. /\ q.id = opened.id /\ q.cursor = opened.cursor /\ q.epSeq = opened.epSeq
            /\ q.episode = opened.episode
            /\ \/ q.active = opened.active /\ q.queued = opened.queued
               \/ q.active = opened.active /\ q.queued = Append(opened.queued, o.seq)
               \/ /\ opened.queued = <<>> /\ q.queued = opened.queued
                  /\ q.active = o.seq /\ q.count < q.policy.max
        BY <1>0, <2>2, QueueFrame
      <3> HIDE DEF q
      <3>3. Advances(w, q) /\ CuesAfter(w, q)
        BY <1>0, <2>2, <3>2 DEF Advances, CuesAfter
      <3>4. Forward(w, q)
        BY <1>4, <2>2, <3>2, <3>3
      <3> QED
        BY <2>1, <3>1, <3>4 DEF x, k
    <2> QED
      BY <2>3, <2>4
  <1> QED
    BY <1>0, <1>5, <1>6, <1>7

(* A watch START has just made, and the placeholder, have cues in order.   *)
LEMMA FreshOrdered ==
    /\ CuesOrdered(NoWatch) /\ NoWatch.id = 0 /\ NoWatch.active = 0
    /\ \A item \in Items, id \in Nat :
           LET w == StartedSession(item, id)
           IN  /\ CuesOrdered(w) /\ w.id = id
               /\ w.active # 0 => w.count < w.policy.max
  <1>1. CuesOrdered(NoWatch) /\ NoWatch.id = 0 /\ NoWatch.active = 0
    BY DEF NoWatch, NewSession, NoCursor, CuesOrdered
  <1>2. ASSUME NEW item \in Items, NEW id \in Nat
        PROVE  LET w == StartedSession(item, id)
               IN  /\ CuesOrdered(w) /\ w.id = id
                   /\ w.active # 0 => w.count < w.policy.max
    <2> DEFINE first == InitialState(item)
               k == CursorOf(item.obs)
               n == NewSession(id, item.policy, first, k)
               v == StartedSession(item, id)
    <2>1. /\ item.policy \in Policies /\ first \in {"None", "Open", "Closed"}
          /\ k \in Cursors /\ k.seq = item.obs.seq /\ k.seq \in Nat
          /\ first = "Open" => item.obs.seq \in Nat \ {0}
      BY ConstantsAssumption
         DEF Items, Observations, NoObservation, InitialState, CursorOf, Cursors
    <2>2. v.id = id
      BY StartedSessionOK
    <2> HIDE DEF first, k
    <2>3. /\ n \in Sessions /\ n.active = 0 /\ n.queued = <<>> /\ n.cursor = k
          /\ n.reliable = first
      BY <2>1 DEF NewSession, Sessions, Episodes, EpisodeStates, NoDeadline
    <2>4. v = IF first # "Open" THEN n
              ELSE IF item.policy.mode = "OneShot"
                   THEN QueueOneShot(OpenEpisode(n), item.obs.seq) ELSE OpenEpisode(n)
      BY Zenon DEF StartedSession, first, k
    <2> HIDE DEF n, v
    <2>5. CASE first # "Open"
      BY <2>1, <2>2, <2>3, <2>4, <2>5 DEF CuesOrdered, v
    <2>6. CASE first = "Open"
      <3> DEFINE x == OpenEpisode(n)
      <3>1. SessionOK(x)
        BY <2>3, <2>6, OpenEpisodeOK
      <3>2. x.active = 0 /\ x.queued = <<>> /\ x.cursor = k
        BY <2>3, OpenFrame
      <3> HIDE DEF x
      <3>3. CASE item.policy.mode # "OneShot"
        <4>1. v = x
          BY <2>4, <2>6, <3>3 DEF x
        <4> QED
          BY <2>1, <2>2, <3>2, <4>1 DEF CuesOrdered, v
      <3>4. CASE item.policy.mode = "OneShot"
        <4>1. v = QueueOneShot(x, item.obs.seq)
          BY <2>4, <2>6, <3>4 DEF x
        <4>2. /\ v.cursor = k
              /\ \/ v.active = 0 /\ v.queued = <<>>
                 \/ v.active = 0 /\ v.queued = <<item.obs.seq>>
                 \/ v.queued = <<>> /\ v.active = item.obs.seq /\ v.count < v.policy.max
          BY <2>1, <2>6, <3>1, <3>2, <4>1, QueueFrame
        <4>3. CuesOrdered(v)
          BY <2>1, <2>6, <4>2 DEF CuesOrdered
        <4> QED
          BY <2>1, <2>2, <4>2, <4>3 DEF v
      <3> QED
        BY <3>3, <3>4
    <2> QED
      BY <2>5, <2>6
  <1> QED
    BY <1>1, <1>2

-----------------------------------------------------------------------------
(* Steps of the reducer                                                    *)

(* A session that replaces another: the placeholder, or a watch with an id *)
(* this step hands out.                                                    *)
Fresh(v) ==
    /\ CuesOrdered(v)
    /\ v.active # 0 => v.count < v.policy.max
    /\ v.id = 0 \/ (lastId < v.id /\ v.id <= lastId')

Moved(c, s) ==
    Forward(watches[c][s], watches'[c][s]) \/ Fresh(watches'[c][s])

StepMoved == lastId <= lastId' /\ \A c \in Connections, s \in Sections : Moved(c, s)

(* Every session is consistent and has its cues in order.                  *)
LEMMA OLookup ==
    ASSUME OInv, NEW c \in Connections, NEW s \in Sections
    PROVE  /\ SessionOK(watches[c][s]) /\ CuesOrdered(watches[c][s])
           /\ watches[c] \in [Sections -> Sessions] /\ watches[c][s] \in Sessions
           /\ Forward(watches[c][s], watches[c][s])
  <1>1. SessionOK(watches[c][s]) /\ CuesOrdered(watches[c][s])
        /\ watches[c] \in [Sections -> Sessions] /\ watches[c][s] \in Sessions
    BY Lookup DEF OInv
  <1> QED
    BY Zenon, <1>1, AlarmForward

(* A handler that moves one session.                                       *)
LEMMA OneMoves ==
    ASSUME OInv, NEW c \in Connections, NEW s \in Sections, NEW v,
           watches' = [watches EXCEPT ![c] = [watches[c] EXCEPT ![s] = v]],
           Forward(watches[c][s], v) \/ Fresh(v), lastId' = lastId
    PROVE  StepMoved
  <1>1. watches \in [Connections -> [Sections -> Sessions]] /\ lastId \in Nat
    BY DEF OInv, IInv, StateOK
  <1>2. ASSUME NEW d \in Connections, NEW t \in Sections PROVE Moved(d, t)
    <2>1. CASE d = c /\ t = s
      <3>1. watches'[d][t] = v
        BY <1>1, <2>1
      <3> QED
        BY <2>1, <3>1 DEF Moved
    <2>2. CASE ~(d = c /\ t = s)
      <3>1. watches'[d][t] = watches[d][t]
        BY <1>1, <2>2
      <3> QED
        BY <3>1, OLookup DEF Moved
    <2> QED
      BY <2>1, <2>2
  <1> QED
    BY <1>1, <1>2 DEF StepMoved

(* A handler that moves sessions of several connections, and keeps ids.    *)
LEMMA AllMove ==
    ASSUME OInv, lastId' = lastId,
           \A c \in Connections, s \in Sections :
               \/ watches'[c][s] = watches[c][s] \/ watches'[c][s] = NoWatch
               \/ Forward(watches[c][s], watches'[c][s])
    PROVE  StepMoved
  <1>1. lastId \in Nat
    BY DEF OInv, IInv, StateOK
  <1>2. Fresh(NoWatch)
    BY FreshOrdered DEF Fresh
  <1>3. ASSUME NEW c \in Connections, NEW s \in Sections PROVE Moved(c, s)
    BY <1>2, OLookup, Zenon DEF Moved
  <1> QED
    BY <1>1, <1>3 DEF StepMoved

(* The alarm and policy handlers.                                          *)
LEMMA AlarmHandlersMove ==
    ASSUME OInv, NEW c \in Connections, NEW s \in Sections
    PROVE  /\ StopWatch(c, s) => StepMoved
           /\ \A p \in Policies : UpdatePolicy(c, s, p) => StepMoved
           /\ \A n : AcknowledgeEpisode(c, s, n) => StepMoved
           /\ \A n : ResumeEpisode(c, s, n) => StepMoved
  <1> DEFINE w == watches[c][s]
  <1>1. SessionOK(w) /\ CuesOrdered(w)
    BY OLookup
  <1>2. ASSUME NEW v, ReplaceSession(c, s, v), lastId' = lastId,
               Forward(w, v) \/ Fresh(v)
        PROVE  StepMoved
    BY <1>2, OneMoves, Zenon DEF ReplaceSession
  <1>3. ASSUME StopWatch(c, s) PROVE StepMoved
    <2>1. Fresh(NoWatch)
      BY FreshOrdered DEF Fresh
    <2> QED
      BY <1>2, <1>3, <2>1 DEF StopWatch
  <1>4. ASSUME NEW p \in Policies, UpdatePolicy(c, s, p) PROVE StepMoved
    <2>1. ReplaceSession(c, s, PolicyChanged(w, p)) /\ lastId' = lastId
      BY <1>4 DEF UpdatePolicy, PolicyChanged
    <2> QED
      BY <1>1, <1>2, <2>1, PolicyForward
  <1>5. ASSUME NEW n, AcknowledgeEpisode(c, s, n) PROVE StepMoved
    <2>1. ReplaceSession(c, s, Acknowledged(w)) /\ lastId' = lastId
      BY <1>5 DEF AcknowledgeEpisode
    <2> QED
      BY Zenon, <1>1, <1>2, <2>1, AlarmForward
  <1>6. ASSUME NEW n, ResumeEpisode(c, s, n) PROVE StepMoved
    <2> DEFINE v == [w EXCEPT !.episode.state = "Unacknowledged",
                              !.episode.left = Deadline(w.policy)]
    <2>1. /\ ReplaceSession(c, s, v) /\ lastId' = lastId
          /\ w.episode.state = "TimedOut"
      BY <1>6 DEF ResumeEpisode
    <2>2. Forward(w, v)
      BY Zenon, <1>1, <2>1, AlarmForward
    <2> HIDE DEF v
    <2> QED
      BY <1>2, <2>1, <2>2
  <1> QED
    BY <1>3, <1>4, <1>5, <1>6

(* The handlers of cues and alerts.                                        *)
LEMMA CueHandlersMove ==
    ASSUME OInv, NEW c \in Connections, NEW s \in Sections
    PROVE  /\ ResetAudibleCount(c, s) => StepMoved
           /\ \A cue, b : ReportCueOutcome(c, s, cue, b) => StepMoved
           /\ \A n : DismissAlert(c, s, n) => StepMoved
  <1> DEFINE w == watches[c][s]
  <1>0. SessionOK(w) /\ CuesOrdered(w) /\ w \in Sessions /\ w.active \in Nat
        /\ w.count \in Nat
    BY OLookup, SessionFields
  <1>1. ASSUME ResetAudibleCount(c, s) PROVE StepMoved
    <2> DEFINE v == [w EXCEPT !.active = w.active, !.count = 0, !.episode.count = 0]
    <2>1. [w EXCEPT !.count = 0, !.episode.count = 0] = v
      BY <1>0, Zenon DEF Sessions
    <2>2. /\ watches' = [watches EXCEPT ![c] = [watches[c] EXCEPT ![s] = DriveOneShot(v)]]
          /\ lastId' = lastId
      BY <1>1, <2>1, Zenon DEF ResetAudibleCount
    <2>3. Forward(w, DriveOneShot(v))
      <3>1. w.active \in {0, w.active} /\ 0 \in Nat
        OBVIOUS
      <3> QED
        BY <1>0, <3>1, CountedForward, Zenon
    <2> HIDE DEF v
    <2> QED
      BY <2>2, <2>3, OneMoves, Zenon
  <1>2. ASSUME NEW cue, NEW b, ReportCueOutcome(c, s, cue, b) PROVE StepMoved
    <2> DEFINE n == IF b THEN w.count + 1 ELSE w.count
               v == [w EXCEPT !.active = 0, !.count = n, !.episode.count = n]
    <2>1. n \in Nat /\ 0 \in {0, w.active}
      BY <1>0
    <2>2. /\ watches' = [watches EXCEPT ![c] = [watches[c] EXCEPT ![s] = DriveOneShot(v)]]
          /\ lastId' = lastId
      BY <1>2 DEF ReportCueOutcome
    <2> HIDE DEF n
    <2>3. Forward(w, DriveOneShot(v))
      BY <1>0, <2>1, CountedForward, Zenon
    <2> HIDE DEF v
    <2> QED
      BY <2>2, <2>3, OneMoves, Zenon
  <1>3. ASSUME NEW n, DismissAlert(c, s, n) PROVE StepMoved
    <2> DEFINE v == [w EXCEPT !.episode.dismissed = TRUE]
    <2>1. /\ watches' = [watches EXCEPT ![c] = [watches[c] EXCEPT ![s] = v]]
          /\ lastId' = lastId
      BY <1>3 DEF DismissAlert
    <2>2. Forward(w, v)
      BY Zenon, <1>0, AlarmForward
    <2> HIDE DEF v
    <2> QED
      BY <2>1, <2>2, OneMoves, Zenon
  <1> QED
    BY <1>1, <1>2, <1>3

(* The ids a START hands out are new, and at most the new lastId.          *)
LEMMA NewIds ==
    ASSUME NEW c, NEW r \in Seq(Items), lastId \in Nat, NEW i \in AcceptedItems(c, r)
    PROVE  LET A == AcceptedItems(c, r)
               id == lastId + Cardinality({j \in A : j <= i})
           IN  id \in Nat /\ lastId < id /\ id <= lastId + Cardinality(A)
  <1> DEFINE A == AcceptedItems(c, r)
             B == {j \in A : j <= i}
  <1>1. A \subseteq 1..Len(r)
    BY DEF AcceptedItems
  <1>2. IsFiniteSet(1..Len(r))
    <2>1. Len(r) \in Int /\ 1 \in Int
      OBVIOUS
    <2> QED
      BY <2>1, FS_Interval
  <1>3. IsFiniteSet(A)
    BY <1>1, <1>2, FS_Subset, Zenon
  <1>4. B \in SUBSET A /\ i \in B
    BY <1>1
  <1> HIDE DEF A, B
  <1>5. IsFiniteSet(B) /\ Cardinality(B) <= Cardinality(A)
    BY <1>3, <1>4, FS_Subset
  <1>6. Cardinality(A) \in Nat /\ Cardinality(B) \in Nat /\ Cardinality(B) # 0
    BY <1>3, <1>4, <1>5, FS_CardinalityType, FS_EmptySet
  <1>7. /\ lastId + Cardinality(B) \in Nat /\ lastId < lastId + Cardinality(B)
        /\ lastId + Cardinality(B) <= lastId + Cardinality(A)
    BY <1>5, <1>6
  <1> QED
    BY <1>7 DEF A, B

(* start: an accepted item gets a fresh watch, the others stay.            *)
LEMMA StartMoves ==
    ASSUME OInv, NEW c \in Connections, NEW m \in Messages, NEW r \in Requests,
           Start(c, m, r)
    PROVE  StepMoved
  <1> DEFINE A == AcceptedItems(c, r)
             For(s) == \E i \in A : r[i].section = s
             ItemFor(s) == CHOOSE i \in A : r[i].section = s
             IdFor(i) == lastId + Cardinality({j \in A : j <= i})
             mine == [s \in Sections |->
                         IF For(s) THEN StartedSession(r[ItemFor(s)], IdFor(ItemFor(s)))
                         ELSE watches[c][s]]
  <1>1. watches' = [watches EXCEPT ![c] = mine] /\ lastId' = lastId + Cardinality(A)
    BY Zenon DEF Start
  <1>2. /\ r \in Seq(Items) /\ lastId \in Nat
        /\ watches \in [Connections -> [Sections -> Sessions]]
    BY RequestsAssumption DEF OInv, IInv, StateOK
  <1>3. A \subseteq 1..Len(r) /\ lastId + Cardinality(A) \in Nat
    BY <1>2, StartIds, Zenon
  <1>4. \A i \in A : IdFor(i) \in Nat /\ lastId < IdFor(i) /\ IdFor(i) <= lastId'
    BY <1>1, <1>2, NewIds
  <1>5. lastId <= lastId'
    <2>1. IsFiniteSet(1..Len(r))
      <3>1. Len(r) \in Int /\ 1 \in Int
        BY <1>2
      <3> QED
        BY <3>1, FS_Interval
    <2>2. Cardinality(A) \in Nat
      BY <1>3, <2>1, FS_Subset, FS_CardinalityType, Zenon
    <2> QED
      BY <1>1, <1>2, <2>2
  <1> HIDE DEF A, IdFor
  <1>6. \A i \in A : r[i] \in Items
    BY <1>2, <1>3
  <1>7. \A s \in Sections : For(s) => ItemFor(s) \in A
    OBVIOUS
  <1> HIDE DEF ItemFor
  <1>8. ASSUME NEW s \in Sections PROVE mine[s] = watches[c][s] \/ Fresh(mine[s])
    <2>1. CASE For(s)
      <3> DEFINE i == ItemFor(s)
                 v == StartedSession(r[i], IdFor(i))
      <3>1. i \in A /\ r[i] \in Items /\ IdFor(i) \in Nat
            /\ lastId < IdFor(i) /\ IdFor(i) <= lastId'
        BY <1>4, <1>6, <1>7, <2>1, Zenon
      <3>2. CuesOrdered(v) /\ v.id = IdFor(i) /\ (v.active # 0 => v.count < v.policy.max)
        BY <3>1, FreshOrdered
      <3>3. Fresh(v)
        BY <3>1, <3>2 DEF Fresh
      <3> QED
        BY <2>1, <3>3, Zenon
    <2>2. CASE ~For(s)
      BY <2>2
    <2> QED
      BY <2>1, <2>2
  <1> HIDE DEF mine
  <1>9. ASSUME NEW d \in Connections, NEW t \in Sections PROVE Moved(d, t)
    <2>1. watches'[d][t] = IF d = c THEN mine[t] ELSE watches[d][t]
      BY <1>1, <1>2
    <2>2. Forward(watches[d][t], watches[d][t])
      BY OLookup
    <2> QED
      BY <1>8, <2>1, <2>2, Zenon DEF Moved
  <1> QED
    BY <1>5, <1>9 DEF StepMoved

(* publish moves only watches that accept the observation.                 *)
LEMMA PublishMoves ==
    ASSUME OInv, NEW s \in Sections, NEW o \in Observations, Publish(s, o)
    PROVE  StepMoved
  <1> DEFINE Takes(c) == /\ c \in {d \in index[s] : d \in connected /\ Watching(d, s)}
                         /\ CursorAccepts(watches[c][s].cursor, o) = "accept"
             After(c) == ApplyObservation([watches[c][s] EXCEPT !.cursor = CursorOf(o)], o)
             ws == [c \in Connections |->
                       IF Takes(c) THEN [watches[c] EXCEPT ![s] = After(c)]
                       ELSE watches[c]]
  <1>1. watches' = ws /\ lastId' = lastId
    BY DEF Publish
  <1>2. ASSUME NEW c \in Connections, NEW t \in Sections
        PROVE  \/ watches'[c][t] = watches[c][t] \/ watches'[c][t] = NoWatch
               \/ Forward(watches[c][t], watches'[c][t])
    <2>1. /\ SessionOK(watches[c][s]) /\ CuesOrdered(watches[c][s])
          /\ watches[c] \in [Sections -> Sessions]
      BY OLookup
    <2>2. Takes(c) => Forward(watches[c][s], After(c))
      BY <2>1, ObservedForward
    <2> HIDE DEF After, Takes
    <2>3. CASE Takes(c) /\ t = s
      <3>1. watches'[c][t] = After(c)
        BY <1>1, <2>1, <2>3
      <3> QED
        BY <2>2, <2>3, <3>1
    <2>4. CASE ~(Takes(c) /\ t = s)
      <3>1. watches'[c][t] = watches[c][t]
        BY <1>1, <2>1, <2>4
      <3> QED
        BY <3>1
    <2> QED
      BY <2>3, <2>4
  <1> QED
    BY <1>1, <1>2, AllMove

(* cleanup removes whole connections; the others hold what is given.       *)
LEMMA CleanupMoves ==
    ASSUME OInv, NEW gone, NEW ws, Cleanup(gone, ws),
           \A c \in Connections, s \in Sections :
               ws[c][s] = watches[c][s] \/ Forward(watches[c][s], ws[c][s])
    PROVE  StepMoved
  <1>1. watches' = [c \in Connections |-> IF c \in gone THEN NoWatches ELSE ws[c]]
        /\ lastId' = lastId
    BY DEF Cleanup
  <1>2. ASSUME NEW c \in Connections, NEW s \in Sections
        PROVE  \/ watches'[c][s] = watches[c][s] \/ watches'[c][s] = NoWatch
               \/ Forward(watches[c][s], watches'[c][s])
    <2>1. NoWatches[s] = NoWatch
      BY DEF NoWatches
    <2> QED
      BY <1>1, <2>1
  <1> QED
    BY <1>1, <1>2, AllMove

(* Every step moves every session forward or replaces it by a fresh one.   *)
LEMMA StepMoves == OInv /\ [Next]_vars => StepMoved
  <1> SUFFICES ASSUME OInv, [Next]_vars PROVE StepMoved
    OBVIOUS
  <1>1. ASSUME watches' = watches, lastId' = lastId PROVE StepMoved
    BY <1>1, AllMove
  <1>2. ASSUME NEW c \in Connections, Connect(c) PROVE StepMoved
    BY <1>1, <1>2 DEF Connect
  <1>3. ASSUME NEW c \in Connections, Touch(c) PROVE StepMoved
    BY <1>1, <1>3 DEF Touch
  <1>4. ASSUME NEW c \in Connections, NEW m \in Messages, ReplayStart(c, m)
        PROVE  StepMoved
    BY <1>1, <1>4 DEF ReplayStart
  <1>5. ASSUME NEW c \in Connections, Disconnect(c) PROVE StepMoved
    BY <1>5, CleanupMoves DEF Disconnect
  <1>6. CASE ProcessStop
    BY <1>6, CleanupMoves DEF ProcessStop
  <1>7. CASE Tick
    <2> DEFINE ws == [c \in Connections |-> [s \in Sections |-> TimedOut(watches[c][s])]]
    <2>1. Cleanup(Expired, ws)
      BY <1>7 DEF Tick
    <2>2. \A c \in Connections, s \in Sections : Forward(watches[c][s], ws[c][s])
      BY OLookup, AlarmForward, Zenon
    <2> HIDE DEF ws
    <2> QED
      BY <2>1, <2>2, CleanupMoves
  <1>8. CASE Elapse
    <2>1. /\ \A c \in Connections, s \in Sections :
                 watches'[c][s] = ElapsedSession(watches[c][s])
          /\ lastId' = lastId
      BY <1>8 DEF Elapse, ElapsedSession
    <2>2. \A c \in Connections, s \in Sections :
              Forward(watches[c][s], ElapsedSession(watches[c][s]))
      BY OLookup, AlarmForward, Zenon
    <2> QED
      BY <2>1, <2>2, AllMove
  <1>9. ASSUME NEW c \in Connections, AcknowledgeAll(c) PROVE StepMoved
    <2>1. watches \in [Connections -> [Sections -> Sessions]]
      BY DEF OInv, IInv, StateOK
    <2>2. /\ watches' = [watches EXCEPT ![c] =
                            [s \in Sections |-> Acknowledged(watches[c][s])]]
          /\ lastId' = lastId
      BY <1>9 DEF AcknowledgeAll
    <2>3. \A d \in Connections, s \in Sections :
              \/ watches'[d][s] = watches[d][s]
              \/ watches'[d][s] = Acknowledged(watches[d][s])
      BY <2>1, <2>2
    <2>4. \A d \in Connections, s \in Sections :
              Forward(watches[d][s], Acknowledged(watches[d][s]))
      BY OLookup, AlarmForward, Zenon
    <2> QED
      BY <2>2, <2>3, <2>4, AllMove
  <1>10. CASE UNCHANGED vars
    BY <1>1, <1>10 DEF vars
  <1> QED
    BY <1>2, <1>3, <1>4, <1>5, <1>6, <1>7, <1>8, <1>9, <1>10, StartMoves, PublishMoves,
       AlarmHandlersMove, CueHandlersMove DEF Next

-----------------------------------------------------------------------------
(* Theorems                                                                *)

(* The reducer starts with no watch.                                       *)
LEMMA InitOrdered == Init => OInv
  <1> SUFFICES ASSUME Init PROVE OInv
    OBVIOUS
  <1>1. \A c \in Connections, s \in Sections : watches[c][s] = NoWatch
    BY DEF Init, NoWatches
  <1>2. lastId = 0
    BY DEF Init
  <1>3. \A c \in Connections, s \in Sections :
            CuesOrdered(watches[c][s]) /\ watches[c][s].id <= lastId
    BY <1>1, <1>2, FreshOrdered
  <1> QED
    BY <1>3, InitInv DEF OInv

(* Every step keeps the cues in order and the ids within lastId.           *)
LEMMA NextOrdered == OInv /\ [Next]_vars => OInv'
  <1> SUFFICES ASSUME OInv, [Next]_vars PROVE OInv'
    OBVIOUS
  <1>1. IInv'
    BY NextInv DEF OInv
  <1>2. StepMoved
    BY StepMoves
  <1>3. lastId \in Nat /\ lastId' \in Nat /\ lastId <= lastId'
    BY <1>1, <1>2 DEF OInv, IInv, StateOK, StepMoved
  <1>4. ASSUME NEW c \in Connections, NEW s \in Sections
        PROVE  CuesOrdered(watches'[c][s]) /\ watches'[c][s].id <= lastId'
    <2>1. Moved(c, s) /\ watches[c][s].id <= lastId /\ watches[c][s].id \in Nat
      BY <1>2, OLookup, SessionFields DEF OInv, StepMoved
    <2>2. CASE Forward(watches[c][s], watches'[c][s])
      BY <1>3, <2>1, <2>2 DEF Forward
    <2>3. CASE Fresh(watches'[c][s])
      BY <1>3, <2>3 DEF Fresh
    <2> QED
      BY <2>1, <2>2, <2>3 DEF Moved
  <1> QED
    BY <1>1, <1>4 DEF OInv, CuesOrdered

(* Within every watch cues, deadline, reliable state and the copies in the *)
(* episode agree in every reachable state (state.rs, manager.rs).          *)
THEOREM EpisodeAlwaysSound == Spec => []EpisodeSound
  <1>1. OInv => CueOrder
    BY DEF OInv, CuesOrdered, CueOrder
  <1>2. Spec => []OInv
    BY InitOrdered, NextOrdered, PTL DEF Spec
  <1>3. CueDiscipline /\ CueOrder /\ DeadlineExact /\ EpisodeReliable /\ EpisodeMirrors
            => EpisodeSound
    BY DEF EpisodeSound
  <1> QED
    BY <1>1, <1>2, <1>3, CuesDisciplined, DeadlineAlwaysExact, EpisodeAlwaysReliable,
       EpisodeAlwaysMirrors, PTL

(* No handler takes a running watch back to an older observation, revives  *)
(* an ended episode or asks a page for a cue past its audible budget       *)
(* (manager.rs apply_observation, resume_episode, drive_one_shot).         *)
THEOREM WatchesGoForward == Spec => StepsForward
  <1>1. OInv /\ [Next]_vars => [StepForward]_vars
    <2> SUFFICES ASSUME OInv, [Next]_vars PROVE StepForward
      OBVIOUS
    <2>1. StepMoved /\ lastId \in Nat
      BY StepMoves DEF OInv, IInv, StateOK
    <2>2. ASSUME NEW c \in Connections, NEW s \in Sections
          PROVE  /\ SameWatch(c, s) => /\ Newer(watches[c][s], watches'[c][s])
                                       /\ Advances(watches[c][s], watches'[c][s])
                 /\ Budgeted(watches[c][s], watches'[c][s])
      <3>1. Moved(c, s) /\ watches[c][s].id <= lastId /\ watches[c][s].id \in Nat
        BY <2>1, OLookup, SessionFields DEF OInv, StepMoved
      <3>2. CASE Forward(watches[c][s], watches'[c][s])
        BY <3>2 DEF Forward
      <3>3. CASE Fresh(watches'[c][s])
        BY <2>1, <3>1, <3>3 DEF Fresh, SameWatch, Budgeted
      <3> QED
        BY <3>1, <3>2, <3>3 DEF Moved
    <2>3. NeverRegresses
      BY <2>2 DEF NeverRegresses, Newer
    <2>4. EpisodeAdvances
      BY <2>2 DEF EpisodeAdvances, Advances
    <2>5. RequestsBudgeted
      BY <2>2 DEF RequestsBudgeted, Budgeted
    <2> QED
      BY <2>3, <2>4, <2>5 DEF StepForward
  <1>2. Spec => []OInv
    BY InitOrdered, NextOrdered, PTL DEF Spec
  <1> QED
    BY <1>1, <1>2, PTL DEF Spec, StepsForward
==============================================================================
