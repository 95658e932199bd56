---------------------------- MODULE OutboundPump ----------------------------
(***************************************************************************)
(* The bounded transport pump of a WebSocket (bcsp-application host.rs):   *)
(* producers reserve a frame's bytes against the socket's budget and the   *)
(* process's before it is queued, one pump per socket writes the frames,   *)
(* and a teardown gives every byte back.                                   *)
(*                                                                         *)
(* Every atomic access of `killed` and of a budget is a step of its own; a *)
(* reservation and its release by drop ride the frame that holds them.     *)
(***************************************************************************)
EXTENDS Integers, Sequences, FiniteSets, FiniteSetsExt, SequencesExt

CONSTANTS
    Sockets,      \* connections
    Producers,    \* threads that send
    Sizes,        \* bytes of a frame
    SocketLimit,  \* per_socket_budget_bytes
    GlobalLimit,  \* limit of the budget of the process
    MaxSends      \* bound: sends of one run

VARIABLES
    queue,    \* queue[s]: what the channel of s holds
    killed,   \* killed[s]: the kill flag
    pump,     \* pump[s]: where the pump of s is, and the bytes it is writing
    sender,   \* sender[p]: where the send of producer p is
    held,     \* held[s]: bytes reserved against the budget of s
    total,    \* bytes reserved against the budget of the process
    verdicts, \* verdicts[s]: the teardown reasons counted for s
    sends     \* sends so far

pumpVars == <<queue, killed, pump, sender, held, total, verdicts, sends>>

Resting == [pc |-> "idle", socket |-> "none", bytes |-> 0, reason |-> "none"]
Overflow == 0    \* the marker in the channel; a frame is its size
NoVerdicts == [overflow |-> 0, timeout |-> 0]

PumpInit ==
    /\ queue = [s \in Sockets |-> <<>>] /\ killed = [s \in Sockets |-> FALSE]
    /\ pump = [s \in Sockets |-> [pc |-> "connect", bytes |-> 0]]
    /\ sender = [p \in Producers |-> Resting]
    /\ held = [s \in Sockets |-> 0] /\ total = 0
    /\ verdicts = [s \in Sockets |-> NoVerdicts] /\ sends = 0

-----------------------------------------------------------------------------
(* OutboundSender::send.                                                   *)
CallSend(p, s, bytes) ==
    /\ sender[p] = Resting /\ sends < MaxSends
    /\ sends' = sends + 1
    /\ sender' = IF killed[s] THEN sender
                 ELSE [sender EXCEPT ![p] = [pc |-> "socket", socket |-> s, bytes |-> bytes,
                                             reason |-> "none"]]
    /\ UNCHANGED <<queue, killed, pump, held, total, verdicts>>

ReserveSocket(p) ==
    LET s == sender[p].socket IN
    /\ sender[p].pc = "socket"
    /\ IF held[s] + sender[p].bytes <= SocketLimit
       THEN /\ held' = [held EXCEPT ![s] = @ + sender[p].bytes]
            /\ sender' = [sender EXCEPT ![p].pc = "global"]
       ELSE /\ sender' = [sender EXCEPT ![p].pc = "condemn", ![p].reason = "socket"]
            /\ UNCHANGED held
    /\ UNCHANGED <<queue, killed, pump, total, verdicts, sends>>

MutReserveGlobal(p) ==
    /\ sender[p].pc = "global"
    /\ IF total + sender[p].bytes <= GlobalLimit
       THEN /\ total' = total + sender[p].bytes
            /\ sender' = [sender EXCEPT ![p].pc = "queue"]
       ELSE /\ sender' = [sender EXCEPT ![p].pc = "condemn", ![p].reason = "global"]
            /\ UNCHANGED total
    /\ UNCHANGED <<queue, killed, pump, held, verdicts, sends>>

(* A refusal of the process's budget drops the socket's reservation.       *)
ReserveGlobal(p) ==
    LET s == sender[p].socket IN
    /\ sender[p].pc = "global"
    /\ IF total + sender[p].bytes <= GlobalLimit
       THEN /\ total' = total + sender[p].bytes
            /\ sender' = [sender EXCEPT ![p].pc = "queue"] /\ UNCHANGED held
       ELSE /\ sender' = [sender EXCEPT ![p].pc = "condemn", ![p].reason = "global"]
            /\ held' = [held EXCEPT ![s] = @ - sender[p].bytes] /\ UNCHANGED total
    /\ UNCHANGED <<queue, killed, pump, verdicts, sends>>

(* A channel without its receiver hands the frame back, to be dropped.     *)
Enqueue(p) ==
    LET s == sender[p].socket
        gone == pump[s].pc = "gone"
    IN
    /\ sender[p].pc = "queue"
    /\ queue' = IF gone THEN queue ELSE [queue EXCEPT ![s] = Append(@, sender[p].bytes)]
    /\ held' = IF gone THEN [held EXCEPT ![s] = @ - sender[p].bytes] ELSE held
    /\ total' = IF gone THEN total - sender[p].bytes ELSE total
    /\ sender' = [sender EXCEPT ![p] = Resting]
    /\ UNCHANGED <<killed, pump, verdicts, sends>>

(* The send that flips the flag counts the refusal and leaves the marker.  *)
Condemn(p) ==
    LET s == sender[p].socket IN
    /\ sender[p].pc = "condemn"
    /\ killed' = [killed EXCEPT ![s] = TRUE]
    /\ sender' = [sender EXCEPT ![p] = IF killed[s] THEN Resting ELSE [@ EXCEPT !.pc = "count"]]
    /\ UNCHANGED <<queue, pump, held, total, verdicts, sends>>

CountOverflow(p) ==
    /\ sender[p].pc = "count"
    /\ verdicts' = [verdicts EXCEPT ![sender[p].socket].overflow = @ + 1]
    /\ sender' = [sender EXCEPT ![p].pc = "marker"]
    /\ UNCHANGED <<queue, killed, pump, held, total, sends>>

MutLeaveMarker(p) ==
    /\ sender[p].pc = "marker"
    /\ sender' = [sender EXCEPT ![p] = Resting]
    /\ UNCHANGED <<queue, killed, pump, held, total, verdicts, sends>>

LeaveMarker(p) ==
    LET s == sender[p].socket IN
    /\ sender[p].pc = "marker"
    /\ queue' = IF pump[s].pc = "gone" THEN queue ELSE [queue EXCEPT ![s] = Append(@, Overflow)]
    /\ sender' = [sender EXCEPT ![p] = Resting]
    /\ UNCHANGED <<killed, pump, held, total, verdicts, sends>>

-----------------------------------------------------------------------------
(* serve_websocket_with_bounded_outbound: the connect callback, then turns *)
(* of the loop until one of them ends in the teardown.                     *)
At(s, pc) == pump[s].pc = pc
Turn(s, pc, bytes) == pump' = [pump EXCEPT ![s] = [pc |-> pc, bytes |-> bytes]]
Released(s, bytes) ==
    /\ held' = [held EXCEPT ![s] = @ - bytes] /\ total' = total - bytes
QueuedBytes(s) == FoldSeq(LAMBDA bytes, sum : bytes + sum, 0, queue[s])

DropQueue(s) ==
    /\ Turn(s, "gone", 0) /\ Released(s, QueuedBytes(s))
    /\ queue' = [queue EXCEPT ![s] = <<>>]
    /\ UNCHANGED <<killed, sender, verdicts, sends>>

(* The extension may send before it returns; a refusal ends the pump.      *)
Connected(s) ==
    /\ At(s, "connect")
    /\ \/ Turn(s, "loop", 0) /\ UNCHANGED <<queue, killed, sender, held, total, verdicts, sends>>
       \/ DropQueue(s)

CheckFlag(s) ==
    /\ At(s, "loop") /\ Turn(s, IF killed[s] THEN "mark" ELSE "select", 0)
    /\ UNCHANGED <<queue, killed, sender, held, total, verdicts, sends>>

(* A text or pong frame comes in and the next turn begins, or the peer     *)
(* closes, breaks the protocol or falls silent.                            *)
Incoming(s, pc) ==
    /\ At(s, "select") /\ Turn(s, pc, 0)
    /\ UNCHANGED <<queue, killed, sender, held, total, verdicts, sends>>

(* A Ping or a Pong is written under the same deadline and holds no bytes. *)
StartControl(s) ==
    /\ At(s, "select") /\ Turn(s, "write", 0)
    /\ UNCHANGED <<queue, killed, sender, held, total, verdicts, sends>>

ReceiveItem(s) ==
    /\ At(s, "select") /\ queue[s] # <<>>
    /\ queue' = [queue EXCEPT ![s] = Tail(@)]
    /\ Turn(s, IF Head(queue[s]) = Overflow THEN "mark" ELSE "received", Head(queue[s]))
    /\ UNCHANGED <<killed, sender, held, total, verdicts, sends>>

(* The flag is read again before a frame goes out.                         *)
StartWrite(s) ==
    /\ At(s, "received")
    /\ IF killed[s] THEN Turn(s, "mark", 0) /\ Released(s, pump[s].bytes)
       ELSE Turn(s, "write", pump[s].bytes) /\ UNCHANGED <<held, total>>
    /\ UNCHANGED <<queue, killed, sender, verdicts, sends>>

(* Written, failed, or past its deadline.                                  *)
EndWrite(s, pc) ==
    /\ At(s, "write") /\ Turn(s, pc, 0) /\ Released(s, pump[s].bytes)
    /\ UNCHANGED <<queue, killed, sender, verdicts, sends>>

(* Past the deadline the flag is read, then the timeout is counted.        *)
ReadFlag(s) ==
    /\ At(s, "deadline") /\ Turn(s, IF killed[s] THEN "mark" ELSE "count", 0)
    /\ UNCHANGED <<queue, killed, sender, held, total, verdicts, sends>>

CountTimeout(s) ==
    /\ At(s, "count") /\ Turn(s, "mark", 0)
    /\ verdicts' = [verdicts EXCEPT ![s].timeout = @ + 1]
    /\ UNCHANGED <<queue, killed, sender, held, total, sends>>

(* The teardown: the flag first, then the receiver with all it holds.      *)
MarkDead(s) ==
    /\ At(s, "mark") /\ Turn(s, "drop", 0)
    /\ killed' = [killed EXCEPT ![s] = TRUE]
    /\ UNCHANGED <<queue, sender, held, total, verdicts, sends>>

DropReceiver(s) == At(s, "drop") /\ DropQueue(s)

PumpStep(s) ==
    \/ Connected(s) \/ CheckFlag(s) \/ ReceiveItem(s) \/ StartWrite(s)
    \/ \E pc \in {"loop", "mark", "deadline"} : EndWrite(s, pc)
    \/ ReadFlag(s) \/ CountTimeout(s) \/ MarkDead(s) \/ DropReceiver(s)

SendStep(p) ==
    \/ ReserveSocket(p) \/ ReserveGlobal(p) \/ Enqueue(p)
    \/ Condemn(p) \/ CountOverflow(p) \/ LeaveMarker(p)

PumpNext ==
    \/ \E p \in Producers, s \in Sockets, bytes \in Sizes : CallSend(p, s, bytes)
    \/ \E p \in Producers : SendStep(p)
    \/ \E s \in Sockets : (\E pc \in {"loop", "mark"} : Incoming(s, pc)) \/ StartControl(s) \/ PumpStep(s)

(* A thread in the middle of a call, and a pump with something to do, go   *)
(* on; the peer and the heartbeat owe nothing.                             *)
PumpFairness ==
    /\ \A p \in Producers : WF_pumpVars(SendStep(p))
    /\ \A s \in Sockets : WF_pumpVars(PumpStep(s))

PumpSpec == PumpInit /\ [][PumpNext]_pumpVars /\ PumpFairness

-----------------------------------------------------------------------------
Reserving(s, stages) ==
    MapThenSumSet(LAMBDA p : sender[p].bytes,
                  {p \in Producers : sender[p].socket = s /\ sender[p].pc \in stages})

(* Every reserved byte belongs to a frame that is being queued, is queued  *)
(* or is being written, in both budgets, whatever send or pump is torn     *)
(* down in between: a budget neither leaks nor goes below zero (host.rs    *)
(* account_frame, OutboundByteReservation::drop).                          *)
BudgetsBalance ==
    /\ \A s \in Sockets :
         held[s] = QueuedBytes(s) + pump[s].bytes + Reserving(s, {"global", "queue"})
    /\ total = MapThenSumSet(LAMBDA s : QueuedBytes(s) + pump[s].bytes + Reserving(s, {"queue"}),
                             Sockets)
    /\ total <= GlobalLimit /\ \A s \in Sockets : held[s] \in 0..SocketLimit

Condemned(s) == killed[s]
TornDown(s) == pump[s].pc = "gone" /\ held[s] = 0

(* A connection one of its sends condemned is torn down even if its peer   *)
(* never speaks again, and all its bytes come back (host.rs send and       *)
(* serve_websocket_with_bounded_outbound, the marker that wakes the pump). *)
TeardownReturns == \A s \in Sockets : Condemned(s) ~> TornDown(s)

(* "One verdict per teardown: a connection the budgets already condemned   *)
(* keeps its overflow attribution" (host.rs).                              *)
OneVerdict == \A s \in Sockets : verdicts[s].overflow + verdicts[s].timeout <= 1
=============================================================================
