------------------------------ MODULE PagePlan ------------------------------
(***************************************************************************)
(* A page without standing intent (frontend LiveWatchProvider.tsx on a     *)
(* target that keeps none): its watches live and die with the socket, and  *)
(* the page holds the plan (connectionIntents) that arms them again after  *)
(* a connection is recovered. Sound is unlocked inside the press of Start, *)
(* so the socket may open or close between the press and the frame.        *)
(*                                                                         *)
(* The server end is external: it starts or rejects each section of a      *)
(* START, replaces a running watch of the same section, and forgets them   *)
(* all with the connection. Frames keep their order.                       *)
(***************************************************************************)
EXTENDS Naturals, Sequences, FiniteSets

CONSTANTS
    Sections,
    MaxDrops,        \* bound: connections that are lost
    MaxPresses,      \* bound: presses of Start
    MaxRejects,      \* bound: sections a START is refused for
    MaxStops         \* bound: stops, removals and ends of a watch

VARIABLES
    link,        \* "idle", "connecting", "open" or "closed"
    selected,    \* the sections on the desk
    plan,        \* connectionIntents
    waiting,     \* pending
    queued,      \* queuedStart, {} for null
    active,      \* sections of the active list, with their watch
    pressed,     \* the press whose sound is being unlocked, as a set of at most one
    press,       \* startAttempt
    starting,    \* startingRef
    up,          \* frames to the server
    down,        \* frames to the page
    running,     \* the server's watches of this connection
    watchIds,    \* watches the server has handed out
    rejected,    \* sections refused since they were last asked for
    drops, presses, rejects, stops,
    sent,        \* history: sent[s], unanswered or granted STARTs for s on this connection
    dismissed    \* history: sections the user stopped or removed since they last pressed Start

pageVars == <<selected, plan, waiting, queued, active, pressed, press, starting, rejected>>
budget == <<drops, presses, rejects, stops>>
planVars == <<link, selected, plan, waiting, queued, active, pressed, press, starting, up, down, running, watchIds,
              rejected, drops, presses, rejects, stops, sent, dismissed>>

PlanInit ==
    /\ link = "idle" /\ selected = {} /\ plan = {} /\ waiting = {} /\ queued = {} /\ active = {} /\ pressed = {}
    /\ press = 0 /\ starting = FALSE /\ up = <<>> /\ down = <<>> /\ running = {} /\ watchIds = 0
    /\ rejected = {} /\ drops = 0 /\ presses = 0 /\ rejects = 0 /\ stops = 0
    /\ sent = [s \in Sections |-> 0] /\ dismissed = {}

Watched(watches) == {w.section : w \in watches}
Frame(kind, sections, watch) == [kind |-> kind, sections |-> sections, watch |-> watch]

(* sendQueuedStart over an open socket.                                    *)
SendStart(items) ==
    /\ up' = Append(up, Frame("start", items, 0))
    /\ sent' = [s \in Sections |-> sent[s] + (IF s \in items THEN 1 ELSE 0)]

-----------------------------------------------------------------------------
Inactive == selected \ (Watched(active) \cup waiting)

(* select: a section joins the desk.                                       *)
Select(s) ==
    /\ s \notin selected /\ selected' = selected \cup {s}
    /\ UNCHANGED <<link, plan, waiting, queued, active, pressed, press, starting, rejected, up, down, running,
                   watchIds, budget, sent, dismissed>>

(* startSelected, up to the unlocking of sound. The button is there while  *)
(* nothing is pending.                                                     *)
Press ==
    /\ presses < MaxPresses /\ presses' = presses + 1
    /\ ~starting /\ waiting = {} /\ Inactive # {}
    /\ press' = press + 1 /\ starting' = TRUE
    /\ plan' = plan \cup Inactive /\ waiting' = Inactive /\ rejected' = rejected \ Inactive
    /\ pressed' = {[items |-> Inactive, press |-> press + 1]}
    /\ dismissed' = dismissed \ Inactive
    /\ UNCHANGED <<link, selected, queued, active, up, down, running, watchIds, drops, rejects, stops, sent>>

(* The sound is ready or has failed: the START goes out, or waits for the  *)
(* socket. A press that a lost connection overtook does nothing.           *)
SoundSettles ==
    \E q \in pressed :
      /\ pressed' = {}
      /\ IF press # q.press THEN UNCHANGED <<starting, queued, up, sent, link>>
         ELSE /\ starting' = FALSE
              /\ IF link = "open" THEN SendStart(q.items) /\ queued' = {} /\ UNCHANGED link
                 ELSE /\ queued' = q.items /\ UNCHANGED <<up, sent>>
                      /\ link' = "connecting"
      /\ UNCHANGED <<selected, plan, waiting, active, press, rejected, down, running, watchIds, budget, dismissed>>

(* The state listener, OPEN: the queued START, or else the whole plan.     *)
Rearm == IF queued # {} THEN queued ELSE plan

LinkOpens ==
    /\ link = "connecting" /\ link' = "open"
    /\ IF Rearm = {} THEN UNCHANGED <<up, sent>> ELSE SendStart(Rearm)
    /\ waiting' = IF queued = {} /\ plan # {} THEN plan ELSE waiting
    /\ rejected' = IF queued = {} THEN {} ELSE rejected
    /\ queued' = {}
    /\ UNCHANGED <<selected, plan, active, pressed, press, starting, down, running, watchIds, budget, dismissed>>

(* The state listener, CLOSED or ERROR. The server forgets the watches.    *)
LinkCloses ==
    /\ link \in {"open", "connecting"} /\ drops < MaxDrops /\ drops' = drops + 1
    /\ link' = "closed"
    /\ press' = press + 1 /\ starting' = FALSE /\ queued' = {} /\ waiting' = {} /\ active' = {}
    /\ up' = <<>> /\ down' = <<>> /\ running' = {} /\ sent' = [s \in Sections |-> 0]
    /\ UNCHANGED <<selected, plan, pressed, rejected, watchIds, presses, rejects, stops, dismissed>>

(* WatchClient's recovery, or the user's reconnect.                        *)
Reconnect ==
    /\ link = "closed" /\ link' = "connecting"
    /\ UNCHANGED <<pageVars, up, down, running, watchIds, budget, sent, dismissed>>

-----------------------------------------------------------------------------
(* stop: out of the plan before the frame goes.                            *)
MutStop(w) ==
    /\ stops < MaxStops /\ stops' = stops + 1 /\ link = "open" /\ w \in active
    /\ up' = Append(up, Frame("stop", {w.section}, w.watch))
    /\ dismissed' = dismissed \cup {w.section}
    /\ UNCHANGED <<link, pageVars, down, running, watchIds, drops, presses, rejects, sent>>
Stop(w) ==
    /\ stops < MaxStops /\ stops' = stops + 1 /\ link = "open" /\ w \in active
    /\ plan' = plan \ {w.section}
    /\ dismissed' = dismissed \cup {w.section}
    /\ up' = Append(up, Frame("stop", {w.section}, w.watch))
    /\ UNCHANGED <<link, selected, waiting, queued, active, pressed, press, starting, rejected, down, running,
                   watchIds, drops, presses, rejects, sent>>

(* remove: a row that is neither active nor pending leaves the plan too.   *)
RemoveRow(s) ==
    /\ stops < MaxStops /\ stops' = stops + 1 /\ s \in selected /\ selected' = selected \ {s}
    /\ s \notin Watched(active) \cup waiting /\ plan' = plan \ {s}
    /\ dismissed' = dismissed \cup {s}
    /\ UNCHANGED <<link, waiting, queued, active, pressed, press, starting, rejected, up, down, running,
                   watchIds, drops, presses, rejects, sent>>

-----------------------------------------------------------------------------
(* The server takes the next frame of the connection.                      *)
ServerStart ==
    /\ up # <<>> /\ Head(up).kind = "start" /\ up' = Tail(up)
    /\ \E refused \in SUBSET Head(up).sections :
         /\ rejects + Cardinality(refused) <= MaxRejects /\ rejects' = rejects + Cardinality(refused)
         /\ LET begun == Head(up).sections \ refused
                fresh == {[section |-> s, watch |-> watchIds + 1] : s \in begun}
            IN /\ running' = {w \in running : w.section \notin begun} \cup fresh
               /\ down' = Append(down, [kind |-> "result", sections |-> Head(up).sections,
                                        watch |-> watchIds + 1, begun |-> begun])
         /\ watchIds' = watchIds + 1
    /\ UNCHANGED <<link, pageVars, drops, presses, stops, sent, dismissed>>

Stopped(s, watch) == [kind |-> "stopped", sections |-> {s}, watch |-> watch, begun |-> {}]

ServerStop ==
    /\ up # <<>> /\ Head(up).kind = "stop" /\ up' = Tail(up)
    /\ LET gone == {w \in running : w.watch = Head(up).watch /\ w.section \in Head(up).sections} IN
       /\ running' = running \ gone
       /\ down' = IF gone = {} THEN down
                  ELSE Append(down, Stopped(CHOOSE s \in Head(up).sections : TRUE, Head(up).watch))
    /\ UNCHANGED <<link, pageVars, watchIds, budget, sent, dismissed>>

(* A watch the server ends on its own: its term left the window.           *)
ServerEnds(w) ==
    /\ stops < MaxStops /\ stops' = stops + 1 /\ w \in running
    /\ running' = running \ {w} /\ down' = Append(down, Stopped(w.section, w.watch))
    /\ UNCHANGED <<link, pageVars, up, watchIds, drops, presses, rejects, sent, dismissed>>

(* handleServerEvent: START_RESULT and WATCH_STOPPED.                      *)
PageResult ==
    /\ down # <<>> /\ Head(down).kind = "result" /\ down' = Tail(down)
    /\ LET f == Head(down) IN
       /\ waiting' = waiting \ f.sections
       /\ active' = {w \in active : w.section \notin f.begun}
                    \cup {[section |-> s, watch |-> f.watch] : s \in f.begun}
       /\ rejected' = rejected \cup (f.sections \ f.begun)
       /\ sent' = [s \in Sections |-> IF s \in f.sections \ f.begun THEN 0 ELSE sent[s]]
    /\ UNCHANGED <<link, selected, plan, queued, pressed, press, starting, up, running, watchIds, budget, dismissed>>

PageStopped ==
    /\ down # <<>> /\ Head(down).kind = "stopped" /\ down' = Tail(down)
    /\ LET f == Head(down) IN
       /\ plan' = plan \ f.sections
       /\ active' = {w \in active : w.watch # f.watch \/ w.section \notin f.sections}
       /\ sent' = [s \in Sections |-> IF s \in f.sections THEN 0 ELSE sent[s]]
    /\ UNCHANGED <<link, selected, waiting, queued, pressed, press, starting, rejected, up, running, watchIds, budget, dismissed>>

Deliver == ServerStart \/ ServerStop \/ PageResult \/ PageStopped

PlanNext ==
    \/ Press \/ SoundSettles \/ LinkOpens \/ LinkCloses \/ Reconnect \/ Deliver
    \/ \E w \in active : Stop(w)
    \/ \E w \in running : ServerEnds(w)
    \/ \E s \in Sections : Select(s) \/ RemoveRow(s)

(* Frames arrive, sound settles and the transport recovers: WatchClient    *)
(* never gives up on its own.                                              *)
PlanFairness ==
    WF_planVars(Deliver) /\ WF_planVars(SoundSettles) /\ WF_planVars(LinkOpens) /\ WF_planVars(Reconnect)

PlanSpec == PlanInit /\ [][PlanNext]_planVars /\ PlanFairness

-----------------------------------------------------------------------------
Planned(s) == s \in plan
Settled(s) == s \notin plan \/ s \in Watched(running) \cup rejected

(* What the user started stays started: a planned section ends up armed on *)
(* the connection of the day, or refused with a notice, whatever drops     *)
(* between the press, the sound and the frames (startSelected, the state   *)
(* listener, sendQueuedStart).                                             *)
PlanIsArmed == \A s \in Sections : Planned(s) ~> Settled(s)

NothingRevived == LinkOpens => Rearm \cap dismissed = {}

(* What the user stopped stays stopped: a recovered connection arms        *)
(* nothing that was stopped or removed since it was last asked for, even   *)
(* when the connection went before the server answered (stop, remove).     *)
StoppedStays == [][NothingRevived]_planVars

(* "re-arming there would send the same frame twice and arm every Section  *)
(* the user pressed once, twice" (LiveWatchProvider.tsx).                  *)
ArmedOnce == \A s \in Sections : sent[s] <= 1
=============================================================================
