----------------------------- MODULE WatchSocket -----------------------------
(***************************************************************************)
(* SharedWatchSocket (bcsp-application watch_socket.rs): the transport     *)
(* adapter around the one WatchManager. Browser connections and the        *)
(* process's own owner connection hold watches; every operation changes    *)
(* the state under one mutex and sends what it emitted after releasing it. *)
(*                                                                         *)
(* The manager (module WatchManager) is kept to what this layer decides:   *)
(* which connections it knows, whose heartbeat has lapsed, and who watches *)
(* what. A call is the sequence of its critical sections; what a call does *)
(* between two of them is what other calls may interleave with.            *)
(***************************************************************************)
EXTENDS Integers, Sequences, FiniteSets

CONSTANTS
    Pages,       \* ids of browser connections
    Owners,      \* ids the owner connection may be given
    Sections,
    Threads,     \* threads that call in, one call each at a time
    MaxCalls,    \* bound: calls of one run
    MaxPings     \* bound: heartbeats of one connection

Nobody == "nobody"
Idle == [op |-> "idle"]

VARIABLES
    known,     \* connections of the manager
    lapsed,    \* those whose heartbeat timeout has passed
    watching,  \* <<connection, section>>: active watches
    channels,  \* connections: page -> its heartbeat sequence numbers
    owner,     \* the owner's id, or Nobody
    sealed,
    armable,   \* sections the admission source supports
    accepted,  \* accepted_heartbeat_acks
    call,      \* call[t]: where the call of thread t is
    outbox,    \* outbox[t]: dispatches t has still to deliver
    told,      \* <<page, connection, section, event>> sent to a page
    calls      \* calls so far

socketVars == <<known, lapsed, watching, channels, owner, sealed, armable, accepted,
                call, outbox, told, calls>>
managerVars == <<known, lapsed, watching>>

SocketInit ==
    /\ known = {} /\ lapsed = {} /\ watching = {} /\ channels = <<>>
    /\ owner = Nobody /\ sealed = FALSE /\ armable = Sections /\ accepted = 0
    /\ call = [t \in Threads |-> Idle] /\ outbox = [t \in Threads |-> <<>>]
    /\ told = {} /\ calls = 0

-----------------------------------------------------------------------------
(* What the calls do to the manager.                                       *)
Touch(c) == lapsed \ {c}
Dispatch(c, s, event) == [by |-> c, section |-> s, event |-> event]
Without(c) == {w \in watching : w[1] # c}
DropChannels(gone) == [p \in DOMAIN channels \ gone |-> channels[p]]

(* The calls made of one critical section and no delivery.                 *)
Begin(t) == call[t] = Idle /\ outbox[t] = <<>> /\ calls < MaxCalls /\ calls' = calls + 1

Connect(t, p) ==
    /\ Begin(t) /\ p \notin known
    /\ IF sealed THEN UNCHANGED <<known, channels>>
       ELSE /\ known' = known \cup {p}
            /\ channels' = [q \in DOMAIN channels \cup {p} |->
                              IF q = p THEN [sequence |-> 0, acknowledged |-> 0] ELSE channels[q]]
    /\ UNCHANGED <<lapsed, watching, owner, sealed, armable, accepted, call, outbox, told>>

Disconnect(t, p) ==
    /\ Begin(t)
    /\ channels' = DropChannels({p})
    /\ known' = known \ {p} /\ lapsed' = Touch(p) /\ watching' = Without(p)
    /\ UNCHANGED <<owner, sealed, armable, accepted, call, outbox, told>>

(* stop (a data reset) and seal_and_stop (the shutdown).                   *)
StopConnections(t, seal) ==
    /\ Begin(t)
    /\ sealed' = (sealed \/ seal)
    /\ known' = {} /\ lapsed' = {} /\ watching' = {} /\ channels' = <<>> /\ owner' = Nobody
    /\ UNCHANGED <<armable, accepted, call, outbox, told>>

TransportActivity(t, p) ==
    /\ Begin(t) /\ lapsed' = Touch(p)
    /\ UNCHANGED <<known, watching, channels, owner, sealed, armable, accepted, call, outbox, told>>

-----------------------------------------------------------------------------
(* receive_text, route_command: admissions are asked before the lock.      *)
StartWatch(t, p, s) ==
    /\ Begin(t)
    /\ call' = [call EXCEPT ![t] = [op |-> "start", by |-> p, section |-> s,
                                    admitted |-> s \in armable]]
    /\ UNCHANGED <<managerVars, channels, owner, sealed, armable, accepted, outbox, told>>

(* A connection the manager does not know fails the call.                  *)
ApplyStart(t) ==
    LET c == call[t].by  s == call[t].section IN
    /\ call[t].op = "start"
    /\ call' = [call EXCEPT ![t] = Idle]
    /\ IF c \notin known THEN UNCHANGED <<lapsed, watching, outbox>>
       ELSE /\ lapsed' = Touch(c)
            /\ watching' = IF call[t].admitted THEN watching \cup {<<c, s>>} ELSE watching
            /\ outbox' = [outbox EXCEPT ![t] = Append(@, Dispatch(c, s, "started"))]
    /\ UNCHANGED <<known, channels, owner, sealed, armable, accepted, told, calls>>

StopWatch(t, p, s) ==
    /\ Begin(t)
    /\ lapsed' = IF p \in known THEN Touch(p) ELSE lapsed
    /\ watching' = watching \ {<<p, s>>}
    /\ outbox' = IF <<p, s>> \in watching
                 THEN [outbox EXCEPT ![t] = Append(@, Dispatch(p, s, "stopped"))] ELSE outbox
    /\ UNCHANGED <<known, channels, owner, sealed, armable, accepted, call, told>>

(* An acknowledgement is evidence only of a heartbeat this connection was  *)
(* sent and has not acknowledged.                                          *)
HeartbeatAck(t, p, n) ==
    /\ Begin(t) /\ p \in known
    /\ lapsed' = Touch(p)
    /\ LET fresh == /\ p \in DOMAIN channels /\ n >= 1
                    /\ n <= channels[p].sequence /\ n > channels[p].acknowledged
       IN /\ channels' = IF fresh THEN [channels EXCEPT ![p].acknowledged = n] ELSE channels
          /\ accepted' = IF fresh THEN accepted + 1 ELSE accepted
    /\ UNCHANGED <<known, watching, owner, sealed, armable, call, outbox, told>>

-----------------------------------------------------------------------------
(* owner_start and owner_stop (through owner_dispatch): the admissions, the *)
(* owner, the operation, each lock taken anew.                             *)
OwnerCall(t, s, then) ==
    /\ Begin(t)
    /\ call' = [call EXCEPT ![t] = [op |-> "ensure", section |-> s, admitted |-> s \in armable,
                                    then |-> then]]
    /\ UNCHANGED <<managerVars, channels, owner, sealed, armable, accepted, outbox, told>>

MutEnsureOwner(t, fresh) ==
    /\ call[t].op = "ensure"
    /\ IF owner \in known
       THEN lapsed' = Touch(owner) /\ UNCHANGED <<known, owner>>
       ELSE known' = known \cup {fresh} /\ owner' = fresh /\ UNCHANGED lapsed
    /\ call' = [call EXCEPT ![t] = [op |-> @.then, by |-> owner', section |-> @.section,
                                    admitted |-> @.admitted]]
    /\ UNCHANGED <<watching, channels, sealed, armable, accepted, outbox, told, calls>>

(* ensure_owner_connection.                                                *)
EnsureOwner(t, fresh) ==
    /\ call[t].op = "ensure"
    /\ IF sealed THEN UNCHANGED <<known, lapsed, owner>>
       ELSE IF owner \in known
       THEN lapsed' = Touch(owner) /\ UNCHANGED <<known, owner>>
       ELSE known' = known \cup {fresh} /\ owner' = fresh /\ UNCHANGED lapsed
    /\ call' = [call EXCEPT ![t] = IF sealed THEN Idle
                  ELSE [op |-> @.then, by |-> owner', section |-> @.section,
                        admitted |-> @.admitted]]
    /\ UNCHANGED <<watching, channels, sealed, armable, accepted, outbox, told, calls>>

ApplyOwnerStop(t) ==
    LET w == <<call[t].by, call[t].section>> IN
    /\ call[t].op = "stop"
    /\ call' = [call EXCEPT ![t] = Idle]
    /\ watching' = watching \ {w}
    /\ outbox' = IF w \in watching
                 THEN [outbox EXCEPT ![t] = Append(@, Dispatch(w[1], w[2], "stopped"))] ELSE outbox
    /\ UNCHANGED <<known, lapsed, channels, owner, sealed, armable, accepted, told, calls>>

(* publish: one event for every watch of the section.                      *)
Publish(t, s) ==
    /\ Begin(t)
    /\ LET watchers == {w[1] : w \in {v \in watching : v[2] = s}} IN
       \E order \in {f \in [1..Cardinality(watchers) -> watchers] :
                       \A i, j \in DOMAIN f : f[i] = f[j] => i = j} :
         outbox' = [outbox EXCEPT ![t] = [i \in DOMAIN order |-> Dispatch(order[i], s, "open")]]
    /\ UNCHANGED <<managerVars, channels, owner, sealed, armable, accepted, call, told>>

-----------------------------------------------------------------------------
(* tick, the first critical section: refresh the owner, stop what the      *)
(* admission source no longer supports, expire the silent, issue pings.    *)
(* The owner was refreshed at the same instant, so it is never expired.    *)
Expired == lapsed \ {owner}
Revoked == {w \in watching : w[2] \notin armable}

Pinged(due) ==
    [p \in DOMAIN channels \ Expired |->
       IF p \in due THEN [channels[p] EXCEPT !.sequence = @ + 1] ELSE channels[p]]

Tick(t, due) ==
    /\ call[t] = Idle /\ outbox[t] = <<>>
    /\ \A p \in due : channels[p].sequence < MaxPings
    /\ known' = known \ Expired /\ lapsed' = {} /\ channels' = Pinged(due)
    /\ watching' = {w \in watching \ Revoked : w[1] \notin Expired}
    /\ \E order \in [1..Cardinality(Revoked) -> Revoked] :
         /\ \A i, j \in DOMAIN order : order[i] = order[j] => i = j
         /\ outbox' = [outbox EXCEPT ![t] =
                         [i \in DOMAIN order |-> Dispatch(order[i][1], order[i][2], "stopped")]]
    /\ UNCHANGED <<owner, sealed, armable, accepted, call, told, calls>>

(* deliver: the audience is chosen under the lock, from who is attached    *)
(* now: every page for the owner's, the page itself for its own.           *)
Audience(by) == IF by = owner THEN DOMAIN channels ELSE {by} \cap DOMAIN channels

Deliver(t) ==
    LET d == Head(outbox[t]) IN
    /\ outbox[t] # <<>>
    /\ outbox' = [outbox EXCEPT ![t] = Tail(@)]
    /\ told' = told \cup {<<p, d.by, d.section, d.event>> : p \in Audience(d.by)}
    /\ UNCHANGED <<managerVars, channels, owner, sealed, armable, accepted, call, calls>>

(* Time passes for a connection; the admission source drops a section.     *)
FallSilent(c) ==
    /\ c \in known \ lapsed /\ lapsed' = lapsed \cup {c}
    /\ UNCHANGED <<known, watching, channels, owner, sealed, armable, accepted, call, outbox,
                   told, calls>>

Revoke(s) ==
    /\ s \in armable /\ armable' = armable \ {s}
    /\ UNCHANGED <<managerVars, channels, owner, sealed, accepted, call, outbox, told, calls>>

-----------------------------------------------------------------------------
CallStep(t) ==
    \/ ApplyStart(t) \/ ApplyOwnerStop(t) \/ Deliver(t)
    \/ \E fresh \in Owners \ known : EnsureOwner(t, fresh)

TickStep(t) == \E due \in SUBSET (DOMAIN channels \ Expired) : Tick(t, due)

SocketNext ==
    \/ \E t \in Threads :
         \/ CallStep(t) \/ TickStep(t)
         \/ \E p \in Pages :
              \/ Connect(t, p) \/ Disconnect(t, p) \/ TransportActivity(t, p)
              \/ \E n \in 0..MaxPings : HeartbeatAck(t, p, n)
              \/ \E s \in Sections : StartWatch(t, p, s) \/ StopWatch(t, p, s)
         \/ \E s \in Sections : Publish(t, s) \/ \E then \in {"start", "stop"} : OwnerCall(t, s, then)
         \/ \E seal \in BOOLEAN : StopConnections(t, seal)
    \/ \E c \in known : FallSilent(c)
    \/ \E s \in Sections : Revoke(s)

(* A call goes on once begun, and the host ticks from its own thread.      *)
SocketFairness ==
    \A t \in Threads : WF_socketVars(CallStep(t)) /\ WF_socketVars(TickStep(t))

SocketSpec == SocketInit /\ [][SocketNext]_socketVars /\ SocketFairness

-----------------------------------------------------------------------------
(* The manager knows exactly the attached pages and the owner, only they   *)
(* hold watches, and a sealed socket has none of them, whatever call was   *)
(* between two of its locks when it was sealed (ensure_owner_connection,   *)
(* stop_connections, tick).                                                *)
ConnectionsMirror ==
    /\ known = DOMAIN channels \cup ({owner} \ {Nobody})
    /\ {w[1] : w \in watching} \cup lapsed \subseteq known
    /\ sealed => known = {}

OwnerKept == owner \in known => known' = {} \/ (owner' = owner /\ owner \in known')

(* Only a stop takes the owner's watches and the owner itself: the         *)
(* heartbeat sweep never expires it (tick).                                *)
OwnerSurvives == [][OwnerKept]_socketVars

AckProven ==
    /\ \A p \in DOMAIN channels : channels[p].acknowledged <= channels[p].sequence
    /\ accepted' > accepted =>
         \E p \in DOMAIN channels \cap DOMAIN channels' :
           /\ channels'[p].acknowledged > channels[p].acknowledged
           /\ channels'[p].sequence = channels[p].sequence

(* Every accepted acknowledgement is of another heartbeat this process     *)
(* sent: never more of them than heartbeats (route_command).               *)
AcksAreEvidence == [][AckProven]_socketVars

Unsupported(c, s) == <<c, s>> \in watching /\ s \notin armable
Ended(c, s) ==
    <<c, s>> \notin watching /\ (c \in DOMAIN channels => <<c, c, s, "stopped">> \in told)

(* A watch of a section that is no longer supported ends, though its start *)
(* used an answer from before, and a page whose own watch it was, and that *)
(* stays, is told (tick, deliver).                                         *)
RevokedStops == \A c \in Pages \cup Owners, s \in Sections : Unsupported(c, s) ~> Ended(c, s)
=============================================================================
