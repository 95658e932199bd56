---------------------------- MODULE SnapshotGate ----------------------------
(***************************************************************************)
(* The snapshot integrity gate, crates/bcsp-open/src/gate.rs, as pure      *)
(* operators.  It withholds an open-section snapshot that suddenly lost    *)
(* many sections, until the feed recovers or the same shrunken snapshot    *)
(* has been seen long enough to be believed.                               *)
(*                                                                         *)
(* A section set stands for its own SHA-256, so a catalog's identity is    *)
(* its section set and an anchor's hash is the anchor.  What a restart     *)
(* loses is then one bit: whether the anchor's body is known.  The epoch   *)
(* of a runtime, which only tells two of its states apart, is the runtime  *)
(* itself.                                                                 *)
(***************************************************************************)
EXTENDS Integers, Sequences, FiniteSets, Functions

CONSTANTS
    Index,         \* section indexes
    DropDen,       \* GATE_DROP_THRESHOLD_DENOMINATOR
    RecoveryDen,   \* GATE_RECOVERY_THRESHOLD_DENOMINATOR
    MinDrop,       \* GATE_MIN_ABSOLUTE_DROP
    Window,        \* GATE_BASELINE_WINDOW
    ConfirmMin,    \* GATE_CONFIRM_MIN_CONSISTENT
    MinSpan,       \* GATE_CONFIRM_MIN_SPAN_SECONDS
    MaxGap,        \* GATE_MAX_SAMPLE_GAP_SECONDS
    ConsistentDen  \* GATE_CONSISTENCY_DENOMINATOR

ASSUME GateAssumption ==
    /\ IsFiniteSet(Index)
    /\ DropDen \in Nat \ {0} /\ RecoveryDen \in Nat \ {0} /\ DropDen <= RecoveryDen
    /\ MinDrop \in Nat \ {0} /\ Window \in Nat \ {0} /\ ConfirmMin \in Nat \ {0, 1}
    /\ MinSpan \in Nat /\ MaxGap \in Nat /\ ConsistentDen \in Nat \ {0}

NoFloor == -1

(* "Absent" is a runtime not installed yet, "Unseeded" is Healthy without  *)
(* a baseline.  anchor, body, first, last and count are the candidate      *)
(* episode of a quarantined runtime.                                       *)
RuntimeStates == {"Absent", "Unseeded", "Healthy", "Quarantined"}

Runtimes ==
    [state : RuntimeStates, identity : SUBSET Index,
     window : Seq(Nat), floor : Nat \cup {NoFloor},
     anchor : SUBSET Index, body : BOOLEAN, first : Int, last : Int, count : Nat]

Blank(state) ==
    [state |-> state, identity |-> {}, window |-> <<>>, floor |-> NoFloor,
     anchor |-> {}, body |-> FALSE, first |-> 0, last |-> 0, count |-> 0]

Healthy(identity, window, floor) ==
    [Blank("Healthy") EXCEPT !.identity = identity, !.window = window, !.floor = floor]

(* GateRuntime::seeded, or new_unseeded when there is no floor.            *)
Seeded(identity, floor) ==
    IF floor = NoFloor THEN Blank("Unseeded") ELSE Healthy(identity, <<>>, floor)

IsSeeded(rt) == rt.state \in {"Healthy", "Quarantined"}

-----------------------------------------------------------------------------
(* The baseline.                                                           *)

PushApplied(window, n) ==
    Append(IF Len(window) = Window THEN Tail(window) ELSE window, n)

(* Element (len-1)/2 of the sorted window.                                 *)
LowerMedian(window) ==
    CHOOSE v \in Range(window) :
        LET middle == (Len(window) - 1) \div 2
        IN  /\ Cardinality({i \in DOMAIN window : window[i] < v}) <= middle
            /\ Cardinality({i \in DOMAIN window : window[i] <= v}) > middle

Larger(m, n) == IF m < n THEN n ELSE m

(* BaselineEpoch::value; a seeded runtime always has one.                  *)
Reference(rt) ==
    IF rt.window = <<>> THEN Larger(rt.floor, 0)
    ELSE Larger(LowerMedian(rt.window), rt.floor)

CeilDiv(n, d) == (n + d - 1) \div d

Missing(reference, n) == Larger(reference - n, 0)

ShrinkIsSuspect(reference, n) ==
    Missing(reference, n) >= Larger(CeilDiv(reference, DropDen), MinDrop)

RecoveredNearReference(reference, n) ==
    Missing(reference, n) < Larger(CeilDiv(reference, RecoveryDen), MinDrop)

-----------------------------------------------------------------------------
(* One sample: the set observed within the catalog, at a wall-clock time.  *)

WithinGap(seconds) == seconds \in 0..MaxGap

ConsistentWithAnchor(rt, observed) ==
    IF rt.body
    THEN Cardinality((rt.anchor \ observed) \cup (observed \ rt.anchor))
            <= CeilDiv(Cardinality(rt.anchor), ConsistentDen)
    ELSE rt.anchor = observed

Anchored(rt, observed, at) ==
    [rt EXCEPT !.state = "Quarantined", !.anchor = observed, !.body = TRUE,
               !.first = at, !.last = at, !.count = 1]

Continued(rt, at) ==
    [rt EXCEPT !.last = at, !.count = rt.count + 1, !.body = TRUE]

Continues(rt, observed, at) ==
    WithinGap(at - rt.last) /\ ConsistentWithAnchor(rt, observed)

Confirms(rt, at) == rt.count + 1 >= ConfirmMin /\ at - rt.first >= MinSpan

(* GateRuntime::evaluate: the decision and the state it would advance to.  *)
Evaluate(rt, identity, observed, at) ==
    LET n == Cardinality(observed)
        reference == Reference(rt)
        applied == Healthy(rt.identity, PushApplied(rt.window, n), rt.floor)
        decide(kind, next) == [kind |-> kind, next |-> next]
    IN  CASE rt.state \in {"Absent", "Unseeded"} ->
                decide("Pass", Healthy(identity, <<n>>, NoFloor))
          [] rt.state = "Healthy" /\ ~ShrinkIsSuspect(reference, n) ->
                decide("Pass", applied)
          [] rt.state = "Healthy" /\ ShrinkIsSuspect(reference, n) ->
                decide("Suspect", Anchored(rt, observed, at))
          [] rt.state = "Quarantined" /\ RecoveredNearReference(reference, n) ->
                decide("QuarantineRecover", applied)
          [] OTHER ->
                IF ~Continues(rt, observed, at)
                THEN decide("Suspect", Anchored(rt, observed, at))
                ELSE IF Confirms(rt, at)
                     THEN decide("QuarantineConfirm", Healthy(rt.identity, <<n>>, NoFloor))
                     ELSE decide("Suspect", Continued(rt, at))

Holds(decision) == decision.kind = "Suspect"

-----------------------------------------------------------------------------
(* rebuild_after_restart.  history maps attempt sequences to the persisted *)
(* attempts the serving runtime may look at; floor is the LKG reference.   *)

Newest(S) == CHOOSE q \in S : \A p \in S : p <= q
Oldest(S) == CHOOSE q \in S : \A p \in S : q <= p

IsSuspect(attempt) == attempt.class = "SuspectPartialSnapshot"

(* The unbroken run of like suspects that ends with the newest attempt.    *)
SuspectRun(identity, history) ==
    LET newest == history[Newest(DOMAIN history)]
        newer(q) == {p \in DOMAIN history : p > q}
        member(q) ==
            /\ IsSuspect(history[q])
            /\ history[q].response = newest.response
            /\ history[q].identity = {identity}
            /\ newer(q) # {} =>
                    WithinGap(history[Oldest(newer(q))].at - history[q].at)
    IN  {q \in DOMAIN history : \A p \in newer(q) \cup {q} : member(p)}

Resumes(identity, floor, history, now) ==
    /\ DOMAIN history # {}
    /\ LET newest == history[Newest(DOMAIN history)]
       IN  /\ IsSuspect(newest) /\ newest.identity = {identity}
           /\ WithinGap(now - newest.at)
    /\ floor # NoFloor


Rebuilt(identity, floor, history, now) ==
    IF Resumes(identity, floor, history, now)
    THEN LET run == SuspectRun(identity, history)
             newest == history[Newest(run)]
         IN  [Healthy(identity, <<>>, floor) EXCEPT
                !.state = "Quarantined", !.anchor = UNION newest.response,
                !.first = history[Oldest(run)].at, !.last = newest.at,
                !.count = Cardinality(run)]
    ELSE Seeded(identity, floor)

-----------------------------------------------------------------------------
(* TargetGateSet: the serving runtime and at most one candidate runtime,   *)
(* kept under the section set it was created for.                          *)

GateSets == [serving : Runtimes, key : SUBSET Index, candidate : Runtimes]

NewGates == [serving |-> Blank("Absent"), key |-> {}, candidate |-> Blank("Absent")]

CandidateMut(gates, identity, floor) ==
    IF gates.candidate.state # "Absent" /\ gates.key = identity THEN gates
    ELSE [gates EXCEPT !.key = identity, !.candidate = Seeded(identity, floor)]

PromoteCandidate(gates) ==
    [NewGates EXCEPT !.serving = gates.candidate]
=============================================================================
