------------------------------- MODULE MCPage -------------------------------
(***************************************************************************)
(* What runs in the browser: the watch client, the desk of watches, the    *)
(* windows that share personal data, the search page.  Each part is an     *)
(* instance of its own; they take turns (module Turns).                    *)
(***************************************************************************)
EXTENDS Naturals, TLC, Turns

CONSTANTS None,
          Pair    \* two sections, windows or scopes

PairSymmetry == Permutations(Pair)

Client == INSTANCE WatchClient WITH
    MaxSockets <- 3, MaxAsks <- 4, MaxThrows <- 1, MaxGenerations <- 6,
    gated <- v1, state <- v2, phase <- v3, attempt <- v4, generation <- v5, attempting <- v6, timer <- v7,
    stopped <- v8, disposed <- v9, socket <- v10, gates <- v11, wire <- v12, owner <- v13, asks <- v14,
    throws <- v15, refused <- v16

Authority == INSTANCE PageAuthority WITH
    Sections <- Pair, MaxOps <- 4, MaxWatches <- 2,
    srv <- v1, frames <- v2, sock <- v3, armed <- v4, selected <- v5, shown <- v6, status <- v7, disproved <- v8,
    uncertain <- v9, cutoff <- v10, release <- v11, trusted <- v12, issued <- v13, ops <- v14, flight <- v15,
    told <- v16, dropped <- v17

Plan == INSTANCE PagePlan WITH
    Sections <- Pair, MaxDrops <- 2, MaxPresses <- 2, MaxRejects <- 1, MaxStops <- 2,
    link <- v1, selected <- v2, plan <- v3, waiting <- v4, queued <- v5, active <- v6, pressed <- v7, press <- v8,
    starting <- v9, up <- v10, down <- v11, running <- v12, watchIds <- v13, rejected <- v14, drops <- v15,
    presses <- v16, rejects <- v17, stops <- v18, sent <- v19, dismissed <- v20

Telemetry == INSTANCE PageTelemetry WITH
    Sections <- {"s"}, MaxPasses <- 2, MaxSingles <- 1, MaxFacts <- 1, MaxMoves <- 1,
    combined <- v1, desk <- v2, epoch <- v3, ledger <- v4, reads <- v5, rows <- v6, content <- v7, pass <- v8,
    cut <- v9, running <- v10, busy <- v11, debounce <- v12, batchTimer <- v13, followUp <- v14, fact <- v15,
    pushed <- v16, singles <- v17, moves <- v18

Windows == INSTANCE PersonalTabs WITH
    Tabs <- Pair, Kinds <- {"settings", "create", "delete", "reset"}, Retries <- 1, Backgrounds <- 1,
    MaxOps <- 2, MaxEvents <- 1,
    srv <- v1, tab <- v2, ops <- v3, events <- v4, lost <- v5

Search == INSTANCE SearchPage WITH
    Scopes <- Pair, MaxCalls <- 3, MaxActs <- 3, MaxSaves <- 1, MaxOutside <- 1,
    session <- v1, page <- v2, calls <- v3, status <- v4, store <- v5, server <- v6, own <- v7, acts <- v8

Init ==
    \/ part = "client" /\ Client!ClientInit /\ Off16
    \/ part = "authority" /\ Authority!AuthorityInit /\ Off17
    \/ part = "plan" /\ Plan!PlanInit /\ Off20
    \/ part = "telemetry" /\ Telemetry!TelemetryInit /\ Off18
    \/ part = "windows" /\ Windows!TabsInit /\ Off5
    \/ part = "search" /\ Search!Init /\ Off8

ClientTurn == part = "client" /\ Client!ClientNext /\ UNCHANGED <<part, after16>>
AuthorityTurn == part = "authority" /\ Authority!AuthorityNext /\ UNCHANGED <<part, after17>>
PlanTurn == part = "plan" /\ Plan!PlanNext /\ UNCHANGED <<part, after20>>
TelemetryTurn == part = "telemetry" /\ Telemetry!TelemetryNext /\ UNCHANGED <<part, after18>>
WindowsTurn == part = "windows" /\ Windows!TabsNext /\ UNCHANGED <<part, after5>>
SearchTurn == part = "search" /\ Search!Next /\ UNCHANGED <<part, after8>>

Next ==
    \/ ClientTurn \/ AuthorityTurn \/ PlanTurn \/ TelemetryTurn \/ WindowsTurn \/ SearchTurn

Spec == Init /\ [][Next]_turns

-----------------------------------------------------------------------------

(* PageAuthority: a green light is never lit for a watch the page was told *)
(* has stopped, nor over a closed socket, and whatever the page asked to   *)
(* be watched keeps the control that stops it (LiveWatchProvider.tsx       *)
(* applyAuthority, disprove, markUncertain).                               *)
LightsHonest == part = "authority" => Authority!GreenIsEarned /\ Authority!ControlReachable

(* PagePlan: a recovered connection arms nothing the user stopped or       *)
(* removed since it was last asked for (LiveWatchProvider.tsx stop,        *)
(* remove, sendQueuedStart).                                               *)
StoppedStays == [][part = "plan" => Plan!NothingRevived]_turns


(* PersonalTabs: a visible window at rest that shows no problem holds what *)
(* the service stores, except for the three named ways a refresh is lost   *)
(* (LocalPersonalContext.tsx, syncFailure.ts).                             *)
QuietIsCurrent == part = "windows" => Windows!QuietIsCurrent

(* SearchPage: results, detail and diagnosis on screen answer the latest   *)
(* submission under the applied scope, through late answers and scopes     *)
(* applied from outside (SearchWorkspace.tsx, searchSession.ts).           *)
ShownAnswersAsked == part = "search" => Search!ShownAnswersAsked
=============================================================================
