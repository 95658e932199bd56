--------------------------- MODULE MCWatchManager ---------------------------
(***************************************************************************)
(* WatchManager for TLC in three instances, and the parts of the program   *)
(* that carry its frames, sockets and history; they take turns (module     *)
(* Turns).  The instance with the module's own variables, one watch in     *)
(* depth, rests in its initial state during the turn of another.           *)
(***************************************************************************)
EXTENDS WatchManager, Turns, TLC

CONSTANT Pair      \* two interchangeable connections

PairSymmetry == Permutations(Pair)

OneShotPolicy(n) == [mode |-> "OneShot", max |-> n, duration |-> 1]
AlarmPolicy(d) == [mode |-> "Continuous", max |-> 1, duration |-> d]

Item(s, p, a, q, i, st, f) ==
    [section |-> s, policy |-> p, admitted |-> a,
     obs |-> IF q = 0 THEN NoObservation ELSE [seq |-> q, id |-> i, state |-> st],
     fresh |-> f]

SingleRequests(section, policies, ids, states) ==
    {<<Item(section, p, TRUE, q, i, st, TRUE)>> :
        p \in policies, q \in 0..1, i \in ids, st \in states}

(* One watch in depth: every policy change, cue and deadline.              *)
DepthPolicies == {OneShotPolicy(1), OneShotPolicy(2), AlarmPolicy(1), AlarmPolicy(Unlimited)}

DepthRequests ==
    SingleRequests("s1", DepthPolicies, {"o"}, {"Open"})
    \cup {<<Item("s1", OneShotPolicy(1), TRUE, 1, "o", "Open", FALSE)>>}

(* Two connections on one section: conflicting ids under one sequence.     *)
Shared == INSTANCE WatchManager WITH
    Connections <- Pair, Sections <- {"s1"}, Policies <- {AlarmPolicy(1)}, Messages <- {"m1", "m2"},
    ObsIds <- {"o", "x"}, Requests <- SingleRequests("s1", {AlarmPolicy(1)}, {"o", "x"}, {"Open"}),
    MaxSeq <- 2, MaxWatchIds <- 2, MaxActive <- 1, HeartbeatTimeout <- 1,
    connected <- v1, idle <- v2, watches <- v3, replays <- v4, index <- v5, marks <- v6, mixer <- v7, lastId <- v8

(* One connection, three sections: whole messages with duplicates, refusals, *)
(* restarts and a limit, over a watermark window of one section.           *)
BatchRequests ==
    LET I(s, ok, q) == Item(s, AlarmPolicy(1), ok, q, "o", "Open", TRUE)
    IN  {<<I("s1", TRUE, 0), I("s2", TRUE, 0), I("s3", TRUE, 0)>>,
         <<I("s2", TRUE, 2), I("s2", TRUE, 2), I("s3", TRUE, 1)>>,
         <<I("s1", FALSE, 0), I("s2", TRUE, 1), I("s3", TRUE, 0)>>}

Batch == INSTANCE WatchManager WITH
    Connections <- {"c"}, Sections <- {"s1", "s2", "s3"}, Policies <- {AlarmPolicy(1)}, Messages <- {"m1", "m2"},
    ObsIds <- {"o"}, Requests <- BatchRequests,
    MaxSeq <- 2, MaxWatchIds <- 3, MaxActive <- 2, HeartbeatTimeout <- 1,
    connected <- v1, idle <- v2, watches <- v3, replays <- v4, index <- v5, marks <- v6, mixer <- v7, lastId <- v8

Pump == INSTANCE OutboundPump WITH
    Sockets <- {"a", "b"}, Producers <- {"p", "q"}, Sizes <- {1, 2},
    SocketLimit <- 2, GlobalLimit <- 2, MaxSends <- 2,
    queue <- v1, killed <- v2, pump <- v3, sender <- v4, held <- v5, total <- v6, verdicts <- v7, sends <- v8

Socket == INSTANCE WatchSocket WITH
    Pages <- {"page"}, Owners <- {"o1", "o2"}, Sections <- {"s"}, Threads <- {"t", "u"},
    MaxCalls <- 3, MaxPings <- 1,
    known <- v1, lapsed <- v2, watching <- v3, channels <- v4, owner <- v5, sealed <- v6, armable <- v7,
    accepted <- v8, call <- v9, outbox <- v10, told <- v11, calls <- v12

History == INSTANCE WatchHistory WITH
    Episodes <- {"e1", "e2"}, Flushers <- {"f"}, Capacity <- 1, MaxRecords <- 3,
    queue <- v1, recorded <- v2, handled <- v3, worker <- v4, order <- v5, seen <- v6, summaries <- v7,
    actions <- v8, flusher <- v9

TurnInit ==
    /\ Init
    /\ \/ part = "depth" /\ Off0
       \/ part = "shared" /\ Shared!Init /\ Off8
       \/ part = "batch" /\ Batch!Init /\ Off8
       \/ part = "pump" /\ Pump!PumpInit /\ Off8
       \/ part = "socket" /\ Socket!SocketInit /\ Off12
       \/ part = "history" /\ History!HistoryInit /\ Off9

DepthTurn == part = "depth" /\ Next /\ UNCHANGED <<part, after0>>
SharedTurn == part = "shared" /\ Shared!Next /\ UNCHANGED <<vars, part, after8>>
BatchTurn == part = "batch" /\ Batch!Next /\ UNCHANGED <<vars, part, after8>>
PumpTurn == part = "pump" /\ Pump!PumpNext /\ UNCHANGED <<vars, part, after8>>
SocketTurn == part = "socket" /\ Socket!SocketNext /\ UNCHANGED <<vars, part, after12>>
HistoryTurn == part = "history" /\ History!HistoryNext /\ UNCHANGED <<vars, part, after9>>

TurnNext == DepthTurn \/ SharedTurn \/ BatchTurn \/ PumpTurn \/ SocketTurn \/ HistoryTurn

TurnSpec == TurnInit /\ [][TurnNext]_<<vars, turns>>

-----------------------------------------------------------------------------
(* WatchManager with several connections or sections: the index and the    *)
(* alarm sets stay exact and no watch is ahead of its section's watermark; *)
(* and whole messages, with duplicates, refusals and restarts, respect the *)
(* watch limit and leave the bounded watermark window consistent           *)
(* (manager.rs start, publish, seed_observation_watermark,                 *)
(* make_watermark_room).                                                   *)
SharedSound ==
    /\ part = "shared" => Shared!DerivedExact /\ Shared!MarkDominates
    /\ part = "batch" => Batch!WatchLimit /\ Batch!MarksFifo

(* OutboundPump: every reserved byte belongs to a frame that is being      *)
(* queued, is queued or is being written, in the socket's budget and in    *)
(* the process's, whatever send or pump is torn down in between (host.rs   *)
(* account_frame, OutboundByteReservation::drop).                          *)
BudgetsBalance == part = "pump" => Pump!BudgetsBalance

(* WatchSocket: the manager knows exactly the attached pages and the       *)
(* owner, only a stop takes the owner away, and an acknowledgement counts  *)
(* only as evidence of a heartbeat that was sent, however the calls of two *)
(* threads interleave between their locks (watch_socket.rs tick,           *)
(* ensure_owner_connection, route_command).                                *)
SocketsAccounted ==
    [][part = "socket" => Socket!ConnectionsMirror' /\ Socket!OwnerKept /\ Socket!AckProven]_<<vars, turns>>

(* WatchHistory: a flush returns only after every record accepted before   *)
(* it was processed, no action row outlives its episode, and the bounded   *)
(* list of announced alerts agrees with the set that answers for it        *)
(* (watch_socket.rs flush, store.rs append_episode_action, history.rs).    *)
HistoryConsistent == part = "history" => History!Flushed /\ History!HistoryConsistent
=============================================================================
