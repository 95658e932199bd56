---------------------------- MODULE WatchClient ----------------------------
(***************************************************************************)
(* The page's transport (frontend WatchClient.ts): one socket at a time,   *)
(* recovery after a close nobody asked for, a target that may have to be   *)
(* asked for a session first, and a user who connects and disconnects      *)
(* while answers are still out. The browser owns the sockets and reports   *)
(* their events; a socket that has failed reports its close later.         *)
(***************************************************************************)
EXTENDS Naturals, Sequences

CONSTANTS
    MaxSockets,      \* bound: sockets the browser constructs
    MaxAsks,         \* bound: calls of connect, disconnect and dispose
    MaxThrows,       \* bound: sockets whose construction throws
    MaxGenerations   \* bound: values of the generation counter

VARIABLES
    gated,       \* the target has a session gate
    state,       \* #state
    phase,       \* #recoveryState.phase
    attempt,     \* #attempt, past the first every value is the same
    generation,  \* #generation
    attempting,  \* #attempting
    timer,       \* #retryTimer is set
    stopped,     \* #userStopped
    disposed,    \* #disposed
    socket,      \* #socket, 0 when null
    gates,       \* generations whose gate has not answered
    wire,        \* wire[i]: what the browser will report next about socket i
    owner,       \* owner[i]: the generation socket i was opened for
    asks, throws,
    refused      \* the last explicit ask ended in an error

retryVars == <<attempt, timer, stopped, disposed>>
wireVars == <<socket, wire, owner>>
clientVars == <<gated, state, phase, attempt, generation, attempting, timer, stopped, disposed,
                socket, gates, wire, owner, asks, throws, refused>>

ClientInit ==
    /\ gated \in BOOLEAN
    /\ state = "IDLE" /\ phase = "IDLE" /\ attempt = 0 /\ generation = 0 /\ attempting = FALSE
    /\ timer = FALSE /\ stopped = FALSE /\ disposed = FALSE /\ socket = 0 /\ gates = {}
    /\ wire = <<>> /\ owner = <<>> /\ asks = 0 /\ throws = 0 /\ refused = FALSE

Later(n) == IF n = 0 THEN 1 ELSE n

(* #scheduleRetry: the timer of the approved cadence.                      *)
ScheduleRetry ==
    /\ attempt' = Later(attempt)
    /\ phase' = "WAITING"
    /\ timer' = TRUE

(* #openSocket: construction may throw; the first ask of a user gets the   *)
(* error, a recovery tries again.                                          *)
OpenSocket(tries, g) ==
    \/ /\ Len(wire) < MaxSockets
       /\ wire' = Append(wire, "connecting") /\ owner' = Append(owner, g)
       /\ socket' = Len(wire) + 1 /\ state' = "CONNECTING" /\ attempt' = tries
       /\ phase' = "ATTEMPTING" /\ timer' = FALSE /\ refused' = FALSE /\ UNCHANGED throws
    \/ /\ throws < MaxThrows /\ throws' = throws + 1
       /\ IF tries = 0 THEN /\ phase' = "IDLE" /\ attempt' = 0 /\ timer' = FALSE /\ refused' = TRUE
                       ELSE /\ phase' = "WAITING" /\ attempt' = 1 /\ timer' = TRUE /\ refused' = FALSE
       /\ UNCHANGED <<wireVars, state>>

(* #beginAttempt: the gate is asked first where there is one.              *)
BeginAttempt(tries) ==
    /\ generation' = generation + 1
    /\ IF gated
       THEN /\ attempting' = TRUE /\ gates' = gates \cup {generation + 1}
            /\ phase' = "ATTEMPTING" /\ attempt' = tries /\ timer' = FALSE /\ refused' = FALSE
            /\ UNCHANGED <<wireVars, state, throws>>
       ELSE OpenSocket(tries, generation + 1) /\ attempting' = FALSE /\ UNCHANGED gates

Busy == state \in {"CONNECTING", "OPEN"} \/ attempting

-----------------------------------------------------------------------------
Connect ==
    /\ asks < MaxAsks /\ asks' = asks + 1
    /\ ~disposed /\ stopped' = FALSE
    /\ IF Busy THEN UNCHANGED <<state, phase, attempt, generation, attempting, timer, gates, wireVars,
                                throws, refused>>
       ELSE BeginAttempt(0)
    /\ UNCHANGED <<gated, disposed>>

(* The browser reports nothing more about a socket the client let go of    *)
(* that the client would listen to.                                        *)
HangUp == /\ stopped' = TRUE /\ timer' = FALSE /\ generation' = generation + 1 /\ attempting' = FALSE
          /\ wire' = [i \in DOMAIN wire |-> IF i = socket THEN "gone" ELSE wire[i]]
          /\ socket' = 0 /\ phase' = "STOPPED_BY_USER" /\ state' = "CLOSED"

Disconnect ==
    /\ asks < MaxAsks /\ asks' = asks + 1 /\ HangUp
    /\ UNCHANGED <<gated, attempt, disposed, gates, owner, throws, refused>>

Dispose ==
    /\ asks < MaxAsks /\ asks' = asks + 1 /\ ~disposed /\ disposed' = TRUE /\ HangUp
    /\ UNCHANGED <<gated, attempt, gates, owner, throws, refused>>

Overtaken(g) == g # generation \/ stopped \/ disposed

GateAnswers(g) ==
    /\ g \in gates /\ gates' = gates \ {g} /\ attempting' = FALSE
    /\ \/ Overtaken(g) /\ UNCHANGED <<state, phase, attempt, timer, wireVars, throws, refused>>
       \/ ~Overtaken(g) /\ OpenSocket(attempt, g)
       \/ /\ ~Overtaken(g) /\ ScheduleRetry
          /\ UNCHANGED <<state, wireVars, throws, refused>>
    /\ UNCHANGED <<gated, generation, stopped, disposed, asks>>

(* The timer of #scheduleRetry.                                            *)
RetryFires ==
    /\ timer /\ generation < MaxGenerations
    /\ IF stopped \/ disposed \/ Busy
       THEN timer' = FALSE /\ UNCHANGED <<state, phase, attempt, generation, attempting, gates, wireVars,
                                          throws, refused>>
       ELSE BeginAttempt(attempt)
    /\ UNCHANGED <<gated, stopped, disposed, asks>>

-----------------------------------------------------------------------------
(* Events of a socket; only the current one is listened to.                *)
SocketOpens(i) ==
    /\ wire[i] = "connecting" /\ wire' = [wire EXCEPT ![i] = "open"]
    /\ IF socket = i THEN attempt' = 0 /\ phase' = "IDLE" /\ state' = "OPEN"
                     ELSE UNCHANGED <<attempt, phase, state>>
    /\ UNCHANGED <<gated, generation, attempting, timer, stopped, disposed, socket, owner, gates, asks,
                   throws, refused>>

SocketErrors(i) ==
    /\ wire[i] \in {"connecting", "open"} /\ wire' = [wire EXCEPT ![i] = "failed"]
    /\ state' = IF socket = i THEN "ERROR" ELSE state
    /\ UNCHANGED <<gated, phase, generation, attempting, retryVars, socket, owner, gates, asks, throws,
                   refused>>

(* The close of the current socket; only an attempt nobody has overtaken   *)
(* is recovered.                                                           *)
SocketCloses(i) ==
    /\ wire[i] \in {"open", "failed"} /\ wire' = [wire EXCEPT ![i] = "gone"]
    /\ IF socket # i THEN UNCHANGED <<socket, state, phase, attempt, timer>>
       ELSE /\ socket' = 0 /\ state' = "CLOSED"
            /\ IF Overtaken(owner[i]) THEN UNCHANGED <<phase, attempt, timer>> ELSE ScheduleRetry
    /\ UNCHANGED <<gated, generation, attempting, stopped, disposed, owner, gates, asks, throws, refused>>

ClientNext ==
    \/ Connect \/ Disconnect \/ Dispose \/ RetryFires
    \/ \E g \in gates : GateAnswers(g)
    \/ \E i \in DOMAIN wire : SocketOpens(i) \/ SocketErrors(i) \/ SocketCloses(i)

ClientSpec == ClientInit /\ [][ClientNext]_clientVars

-----------------------------------------------------------------------------
=============================================================================
