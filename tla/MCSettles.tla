----------------------------- MODULE MCSettles -----------------------------
(***************************************************************************)
(* The components with something that must eventually happen, each in an   *)
(* instance of its own; they take turns (module Turns).  The fairness is   *)
(* the component's, for the part at hand.  The watch socket has two parts: *)
(* a watch of a page and one of the durable owner wait for their end.      *)
(***************************************************************************)
EXTENDS Naturals, Sequences, Turns

CONSTANT Unlimited   \* the unlimited duration of an alarm

Pump == INSTANCE OutboundPump WITH
    Sockets <- {"a", "b"}, Producers <- {"p", "q"}, Sizes <- {1},
    SocketLimit <- 1, GlobalLimit <- 1, MaxSends <- 2,
    queue <- v1, killed <- v2, pump <- v3, sender <- v4, held <- v5, total <- v6, verdicts <- v7, sends <- v8

Socket == INSTANCE WatchSocket WITH
    Pages <- {"page"}, Owners <- {"o1", "o2"}, Sections <- {"s"}, Threads <- {"t", "u"},
    MaxCalls <- 3, MaxPings <- 1,
    known <- v1, lapsed <- v2, watching <- v3, channels <- v4, owner <- v5, sealed <- v6, armable <- v7,
    accepted <- v8, call <- v9, outbox <- v10, told <- v11, calls <- v12

History == INSTANCE WatchHistory WITH
    Episodes <- {"e1", "e2"}, Flushers <- {"f"}, Capacity <- 1, MaxRecords <- 2,
    queue <- v1, recorded <- v2, handled <- v3, worker <- v4, order <- v5, seen <- v6, summaries <- v7,
    actions <- v8, flusher <- v9

Serving == INSTANCE PreparedServing WITH
    Targets <- {"t"}, Publishers <- {"p", "q"}, Readers <- {"r"}, MaxEpochs <- 2, MaxFaults <- 0,
    db <- v1, current <- v2, tickets <- v3, nextEpoch <- v4, inbox <- v5, pending <- v6, executing <- v7,
    build <- v8, publisher <- v9, reader <- v10, accepting <- v11, cancelled <- v12, closed <- v13,
    stopping <- v14, gone <- v15, faults <- v16, forgiven <- v17

Plan == INSTANCE PagePlan WITH
    Sections <- {"s1", "s2"}, MaxDrops <- 2, MaxPresses <- 2, MaxRejects <- 1, MaxStops <- 2,
    link <- v1, selected <- v2, plan <- v3, waiting <- v4, queued <- v5, active <- v6, pressed <- v7, press <- v8,
    starting <- v9, up <- v10, down <- v11, running <- v12, watchIds <- v13, rejected <- v14, drops <- v15,
    presses <- v16, rejects <- v17, stops <- v18, sent <- v19, dismissed <- v20

Presence == INSTANCE LocalPresence WITH
    Tabs <- {"p"}, Scripts <- {<<"hello">>, <<>>}, MaxSockets <- 2,
    Countdown <- 2, HelloWait <- 1, MaxWait <- 1, LateHello <- FALSE,
    page <- v1, sock <- v2, tick <- v3, reg <- v4, exits <- v5, requested <- v6, stage <- v7, away <- v8

AlarmPolicies ==
    {[mode |-> "OneShot", max |-> 1, duration |-> 1],
     [mode |-> "Continuous", max |-> 1, duration |-> 1],
     [mode |-> "Continuous", max |-> 1, duration |-> Unlimited]}

AlarmRequests ==
    {<<[section |-> "s", policy |-> p, admitted |-> TRUE, fresh |-> TRUE,
        obs |-> [seq |-> 1, id |-> "o", state |-> "Open"]]>> : p \in AlarmPolicies}

Alarm == INSTANCE WatchManager WITH
    Connections <- {"c"}, Sections <- {"s"}, Policies <- AlarmPolicies, Messages <- {"m1", "m2"},
    ObsIds <- {"o"}, Requests <- AlarmRequests, MaxSeq <- 3, MaxWatchIds <- 2, MaxActive <- 1,
    HeartbeatTimeout <- 2, CursorWindow <- 1, ReplayWindow <- 1,
    connected <- v1, idle <- v2, watches <- v3, replays <- v4, index <- v5, marks <- v6, mixer <- v7, lastId <- v8

Pull == INSTANCE OpenPull WITH
    DropDen <- 2, RecoveryDen <- 4, MinDrop <- 1, Window <- 2, MaxGap <- 1, ConsistentDen <- 4, RestartLimit <- 3,
    ConfirmMin <- 2, MinSpan <- 1, Retain <- 20, PruneLimit <- 5, MaxControls <- 1, MaxRollbacks <- 0,
    MaxCrashes <- 0, MaxTime <- 0, MaxAttempts <- 3, MaxRefreshes <- 2, Index <- 1..3,
    Catalogs <- {[name |-> "a", sections |-> {1, 2}], [name |-> "b", sections |-> {1, 2, 3}]},
    Responses <- {{1, 2, 3}}, Watchable <- {1},
    db <- v1, now <- v2, rollbacks <- v3, crashes <- v4, watched <- v5, registered <- v6, removed <- v7,
    pool <- v8, controls <- v9, conc <- v10, job <- v11, side <- v12, phase <- v13, openGate <- v14,
    gates <- v15, cand <- v16, pull <- v17, handed <- v18

Init ==
    \/ part = "alarm" /\ Alarm!Init /\ Off8
    \/ part = "pull" /\ Pull!Init /\ Off18
    \/ part = "pump" /\ Pump!PumpInit /\ Off8
    \/ part \in {"socket", "owner"} /\ Socket!SocketInit /\ Off12
    \/ part = "history" /\ History!HistoryInit /\ Off9
    \/ part = "serving" /\ Serving!PreparedInit /\ Off17
    \/ part = "plan" /\ Plan!PlanInit /\ Off20
    \/ part = "presence" /\ Presence!Init /\ Off8

AlarmTurn == part = "alarm" /\ Alarm!Next /\ UNCHANGED <<part, after8>>
PullTurn == part = "pull" /\ Pull!Next /\ UNCHANGED <<part, after18>>
PumpTurn == part = "pump" /\ Pump!PumpNext /\ UNCHANGED <<part, after8>>
SocketTurn == part \in {"socket", "owner"} /\ Socket!SocketNext /\ UNCHANGED <<part, after12>>
HistoryTurn == part = "history" /\ History!HistoryNext /\ UNCHANGED <<part, after9>>
ServingTurn == part = "serving" /\ Serving!PreparedNext /\ UNCHANGED <<part, after17>>
PlanTurn == part = "plan" /\ Plan!PlanNext /\ UNCHANGED <<part, after20>>
PresenceTurn == part = "presence" /\ Presence!Next /\ UNCHANGED <<part, after8>>

Next ==
    \/ AlarmTurn \/ PullTurn \/ PumpTurn \/ SocketTurn
    \/ HistoryTurn \/ ServingTurn \/ PlanTurn \/ PresenceTurn

(* The fairness of WatchManager (FairSpec), OpenPull (Fairness),           *)
(* OutboundPump (PumpFairness), WatchSocket (SocketFairness), WatchHistory *)
(* (the worker of HistorySpec), PreparedServing (PreparedFairness),        *)
(* PagePlan (PlanFairness) and LocalPresence (Fairness): whichever part it *)
(* is, its i-th fair action.                                               *)
Fair(i) ==
    /\ UNCHANGED part
    /\ \/ /\ part = "alarm" /\ UNCHANGED after8
          /\ CASE i = 1 -> Alarm!Tick [] i = 2 -> Alarm!Elapse [] OTHER -> FALSE
       \/ /\ part = "pull" /\ UNCHANGED after18
          /\ CASE i = 1 -> Pull!PrimaryStep(1) [] i = 2 -> Pull!SideStep(1)
               [] i = 3 -> Pull!PullStep(<<1, "primary">>) [] i = 4 -> Pull!PullStep(<<1, "side">>)
               [] OTHER -> FALSE
       \/ /\ part = "pump" /\ UNCHANGED after8
          /\ CASE i = 1 -> Pump!SendStep("p") [] i = 2 -> Pump!SendStep("q")
               [] i = 3 -> Pump!PumpStep("a") [] i = 4 -> Pump!PumpStep("b") [] OTHER -> FALSE
       \/ /\ part \in {"socket", "owner"} /\ UNCHANGED after12
          /\ CASE i = 1 -> Socket!CallStep("t") [] i = 2 -> Socket!CallStep("u")
               [] i = 3 -> Socket!TickStep("t") [] i = 4 -> Socket!TickStep("u") [] OTHER -> FALSE
       \/ part = "history" /\ UNCHANGED after9 /\ i = 1 /\ History!WorkerStep
       \/ /\ part = "serving" /\ UNCHANGED after17
          /\ CASE i = 1 -> Serving!PublisherStep("p") [] i = 2 -> Serving!PublisherStep("q")
               [] i = 3 -> Serving!WorkerStep [] i = 4 -> Serving!Wake("r") [] OTHER -> FALSE
       \/ /\ part = "plan" /\ UNCHANGED after20
          /\ CASE i = 1 -> Plan!Deliver [] i = 2 -> Plan!SoundSettles
               [] i = 3 -> Plan!LinkOpens [] i = 4 -> Plan!Reconnect [] OTHER -> FALSE
       \/ /\ part = "presence" /\ UNCHANGED after8
          /\ CASE i = 1 -> Presence!Pump(1) [] i = 2 -> Presence!Pump(2) [] i = 3 -> Presence!TickStep
               [] i = 4 -> Presence!ProcessStep [] i = 5 -> Presence!Elapse

Spec == Init /\ [][Next]_turns /\ \A i \in 1..5 : WF_turns(Fair(i))

-----------------------------------------------------------------------------
Waits ==
    CASE part = "alarm" -> TRUE
      [] part = "pull" -> v11[1] = "fetch"
      [] part = "pump" -> Pump!Condemned("a")
      [] part = "socket" -> Socket!Unsupported("page", "s")
      [] part = "owner" -> Socket!Unsupported("o1", "s")
      [] part = "history" -> History!FlushWaits("f")
      [] part = "serving" -> Serving!RequestWaits("r")
      [] part = "plan" -> Plan!Planned("s1")
      [] part = "presence" -> Presence!Deserted

Served ==
    CASE part = "alarm" -> Alarm!Quiet("c", "s")
      [] part = "pull" -> v11[1] \in {"pool", "gone"}
      [] part = "pump" -> Pump!TornDown("a")
      [] part = "socket" -> Socket!Ended("page", "s")
      [] part = "owner" -> Socket!Ended("o1", "s")
      [] part = "history" -> History!FlushReturned("f")
      [] part = "serving" -> ~Serving!RequestWaits("r")
      [] part = "plan" -> Plan!Settled("s1")
      [] part = "presence" -> Presence!Attended

(* Whatever the scheduler does, and whatever fails meanwhile: a finite     *)
(* alarm nobody re-arms stops ringing (manager.rs tick); a dispatched      *)
(* refresh workflow gives its target back to the pool or ends with it      *)
(* (refresh_coordinator.rs); a socket the                                  *)
(* byte budgets condemned is closed and its bytes returned                 *)
(* (outbound pump in application/host.rs); a watch whose page lost its     *)
(* standing is ended (watch_socket.rs); a history flush returns; a search  *)
(* waiting for a prepared overlay is answered or refused                   *)
(* (prepared_serving.rs); a Section of the page's restore plan is armed or *)
(* dropped (LiveWatchProvider.tsx); and the local program nobody has open  *)
(* any more exits unless a page comes back (presence.rs).                  *)
NobodyLeftWaiting == Waits ~> Served
=============================================================================
