--------------------------- MODULE LocalPresence ---------------------------
(***************************************************************************)
(* The local product's page presence: which pages are open, and the        *)
(* countdown that ends the program after the last one has left             *)
(* (bcsp-local-runtime presence.rs), together with the page that keeps its *)
(* presence socket open (LocalPresenceClient.ts), the socket pump          *)
(* (serve_websocket), the maintenance ticker and the ordered shutdown      *)
(* (lifecycle.rs).                                                         *)
(*                                                                         *)
(* A call samples the clock before it takes the registry lock, so under    *)
(* the lock its sample may be `age` old.  Time is relative: `left` is what *)
(* remains of a deadline.  `generation` is left out: it only changes       *)
(* together with the phase, under the same lock, so the comparison before  *)
(* the exit cannot fail.                                                   *)
(***************************************************************************)
EXTENDS Integers, FiniteSets, Sequences

CONSTANTS
    Tabs,        \* pages that may be opened, each with the tab id it minted
    Scripts,     \* the frames a socket's client sends before it falls silent
    MaxSockets,  \* bound: presence sockets opened in one run
    Countdown,   \* LOCAL_IDLE_EXIT_COUNTDOWN
    HelloWait,   \* LOCAL_PRESENCE_HELLO_DEADLINE
    MaxWait,     \* longest time between a sample and the lock
    LateHello    \* a page may reconnect before its last HELLO was read

VARIABLES
    page,       \* page[t]: the socket of the tab's page, 0 for none
    sock,       \* sock[c]: the transport of connection c
    tick,       \* the maintenance ticker's call
    reg,        \* the Registry behind the route's lock
    exits,      \* calls that decided to exit and have not said so yet
    requested,  \* the shutdown channel: who asked first
    stage,      \* the process: running, draining, sealed, stopped
    away        \* time since the last page was counted (up to Countdown)

process == <<requested, stage>>
vars == <<page, sock, tick, reg, exits, process, away>>

SocketIds == 1..MaxSockets
Ages == 0..MaxWait
Lefts(d) == (-MaxWait)..d
NoTab == "none"

Running == [kind |-> "Running", left |-> 0]
CountingDown(left) == [kind |-> "CountingDown", left |-> left]
Exiting == [kind |-> "Exiting", left |-> 0]

IdleTick == [pc |-> "idle", expired |-> {}]

NoSocket == [pump |-> "none", tab |-> NoTab, frames |-> <<>>, up |-> FALSE]
NoConnection == [here |-> FALSE, left |-> 0, tab |-> NoTab]

Init ==
    /\ page = [t \in Tabs |-> 0]
    /\ sock = [c \in SocketIds |-> NoSocket]
    /\ tick = IdleTick
    /\ reg = [conns |-> [c \in SocketIds |-> NoConnection], tabs |-> [t \in Tabs |-> 0],
              phase |-> Running, ever |-> FALSE, sealed |-> FALSE]
    /\ exits = 0 /\ requested = "none" /\ stage = "running" /\ away = 0

Counted(r) == {t \in Tabs : r.tabs[t] # 0}
Refuses(r) == r.sealed \/ r.phase = Exiting

-----------------------------------------------------------------------------
(* Reconcile: the registry after anything that can change the count, read  *)
(* with a clock sample of the given age, and whether to ask for the exit.  *)
Outcome(r, exit) == [reg |-> r, exit |-> exit]

Reconcile(r, age) ==
    LET gone == Counted(r) = {} IN
    IF Refuses(r) THEN Outcome(r, FALSE)
    ELSE IF r.phase = Running
         THEN Outcome([r EXCEPT !.phase = IF gone /\ r.ever THEN CountingDown(Countdown - age)
                                          ELSE Running], FALSE)
    ELSE IF ~gone THEN Outcome([r EXCEPT !.phase = Running], FALSE)
    ELSE IF r.phase.left + age > 0 THEN Outcome(r, FALSE)
    ELSE Outcome([r EXCEPT !.phase = Exiting], TRUE)

(* A registry change made under the lock; the exit is asked for after it.  *)
Apply(outcome) ==
    /\ reg' = outcome.reg
    /\ exits' = exits + (IF outcome.exit THEN 1 ELSE 0)
    /\ away' = IF Counted(reg) # {} \/ Counted(reg') # {} THEN 0 ELSE away

(* A connection leaves; its tab goes with it if it still speaks for it.    *)
Release(c) ==
    [reg EXCEPT !.conns[c] = NoConnection,
                !.tabs = [t \in Tabs |-> IF reg.conns[c].tab = t /\ @[t] = c THEN 0 ELSE @[t]]]

-----------------------------------------------------------------------------
(* The page: LocalPresenceClient keeps one socket open while the tab is.   *)
Fresh == {c \in SocketIds : sock[c].pump = "none"}
First == CHOOSE c \in Fresh : \A d \in Fresh : c <= d

Unread(t) == \E c \in SocketIds : sock[c].tab = t /\ sock[c].frames # <<>>

OpenSocket(t, script) ==
    /\ stage # "stopped" /\ page[t] = 0 /\ Fresh # {}
    /\ LateHello \/ ~Unread(t)
    /\ page' = [page EXCEPT ![t] = First]
    /\ sock' = [sock EXCEPT ![First] =
                    [pump |-> "new", tab |-> t, frames |-> script, up |-> TRUE]]
    /\ UNCHANGED <<tick, reg, exits, process, away>>

(* The page sees its socket close, or is closed; the server finds out when *)
(* its pump ends.                                                          *)
SocketClosed(t) ==
    /\ page[t] # 0
    /\ sock' = [sock EXCEPT ![page[t]].up = FALSE]
    /\ page' = [page EXCEPT ![t] = 0]
    /\ UNCHANGED <<tick, reg, exits, process, away>>

-----------------------------------------------------------------------------
(* serve_websocket: one call of the route at a time for one connection.    *)
Ended == [NoSocket EXCEPT !.pump = "done"]

Connect(c, age) ==
    /\ sock[c].pump = "new"
    /\ IF Refuses(reg)
       THEN /\ sock' = [sock EXCEPT ![c] = Ended]
            /\ UNCHANGED reg
       ELSE /\ sock' = [sock EXCEPT ![c].pump = "loop"]
            /\ reg' = [reg EXCEPT !.conns[c] =
                          [here |-> TRUE, left |-> HelloWait - age, tab |-> NoTab]]
    /\ UNCHANGED <<page, tick, exits, process, away>>

Registered(c) ==
    [reg EXCEPT !.conns[c].tab = sock[c].tab, !.tabs[sock[c].tab] = c, !.ever = TRUE]

Reading(c, frame) ==
    /\ sock[c].pump = "loop" /\ sock[c].frames # <<>>
    /\ Head(sock[c].frames) = frame

(* HELLO.  One after the exit decision, and a second one, go on to close() *)
(* with a lock of its own.                                                 *)
Hello(c, age) ==
    /\ Reading(c, "hello")
    /\ IF Refuses(reg) \/ (reg.conns[c].here /\ reg.conns[c].tab # NoTab)
       THEN /\ sock' = [sock EXCEPT ![c].frames = Tail(@), ![c].pump = "closing"]
            /\ UNCHANGED <<reg, exits, away>>
       ELSE /\ sock' = [sock EXCEPT ![c].frames = Tail(@)]
            /\ IF reg.conns[c].here THEN Apply(Reconcile(Registered(c), age))
                                    ELSE UNCHANGED <<reg, exits, away>>
    /\ UNCHANGED <<page, tick, process>>

Undecodable(c) ==
    /\ Reading(c, "bad")
    /\ sock' = [sock EXCEPT ![c].frames = Tail(@), ![c].pump = "closing"]
    /\ UNCHANGED <<page, tick, reg, exits, process, away>>

Close(c, age) ==
    /\ sock[c].pump = "closing"
    /\ sock' = [sock EXCEPT ![c].pump = "loop"]
    /\ IF reg.conns[c].here THEN Apply(Reconcile(Release(c), age))
                            ELSE UNCHANGED <<reg, exits, away>>
    /\ UNCHANGED <<page, tick, process>>

MutDisconnect(c, age) ==
    /\ sock[c].pump = "loop"
    /\ sock' = [sock EXCEPT ![c] = Ended]
    /\ Apply(Reconcile([reg EXCEPT !.conns[c] = NoConnection], age))
    /\ UNCHANGED <<page, tick, process>>

(* The pump ends: the peer is gone, the route dropped the sender, or the   *)
(* heartbeat went unanswered.                                              *)
Disconnect(c, age) ==
    /\ sock[c].pump = "loop"
    /\ sock' = [sock EXCEPT ![c] = Ended]
    /\ IF reg.conns[c].here THEN Apply(Reconcile(Release(c), age))
                            ELSE UNCHANGED <<reg, exits, away>>
    /\ UNCHANGED <<page, tick, process>>

-----------------------------------------------------------------------------
(* The ticker: list the connections that never said HELLO, close each      *)
(* after checking it again under the lock, then reconcile.                 *)

Overdue(c, age) ==
    reg.conns[c].here /\ reg.conns[c].tab = NoTab /\ reg.conns[c].left + age <= 0

Sweep(age) ==
    /\ tick.pc = "idle"
    /\ tick' = [pc |-> "close", expired |-> {c \in SocketIds : Overdue(c, age)}]
    /\ UNCHANGED <<page, sock, reg, exits, process, away>>

CloseUnidentified(c, age) ==
    /\ c \in tick.expired
    /\ tick' = [tick EXCEPT !.expired = @ \ {c}]
    /\ IF reg.conns[c].here /\ reg.conns[c].tab = NoTab
       THEN Apply(Reconcile([reg EXCEPT !.conns[c] = NoConnection], age))
       ELSE UNCHANGED <<reg, exits, away>>
    /\ UNCHANGED <<page, sock, process>>

AfterChange(age) ==
    /\ tick.pc = "close" /\ tick.expired = {}
    /\ tick' = IdleTick
    /\ Apply(Reconcile(reg, age))
    /\ UNCHANGED <<page, sock, process>>

-----------------------------------------------------------------------------
(* The shutdown channel and the ordered shutdown.                          *)
Request(reason) == requested' = IF requested = "none" THEN reason ELSE requested

RequestExit ==
    /\ exits > 0 /\ exits' = exits - 1
    /\ Request("NoPages")
    /\ UNCHANGED <<page, sock, tick, reg, stage, away>>

UserExit ==
    /\ stage = "running" /\ requested = "none"
    /\ Request("Requested")
    /\ UNCHANGED <<page, sock, tick, reg, exits, stage, away>>

(* wait_for_shutdown_request: the channel, or a signal.                    *)
ShutdownStart ==
    /\ stage = "running" /\ requested # "none"
    /\ stage' = "draining"
    /\ UNCHANGED <<page, sock, tick, reg, exits, requested, away>>

Signal ==
    /\ stage = "running"
    /\ stage' = "draining"
    /\ UNCHANGED <<page, sock, tick, reg, exits, requested, away>>

(* Once the refresh runtime has stopped, the presence route is sealed.     *)
Seal ==
    /\ stage = "draining"
    /\ stage' = "sealed"
    /\ reg' = [reg EXCEPT !.sealed = TRUE, !.phase = Exiting,
                          !.conns = [c \in SocketIds |-> NoConnection],
                          !.tabs = [t \in Tabs |-> 0]]
    /\ UNCHANGED <<page, sock, tick, exits, requested, away>>

(* The server is shut down and the process ends.                           *)
Stop ==
    /\ stage = "sealed"
    /\ stage' = "stopped"
    /\ UNCHANGED <<page, sock, tick, reg, exits, requested, away>>

Sooner(left) == IF left > -MaxWait THEN left - 1 ELSE left

Elapse ==
    /\ stage # "stopped"
    /\ reg' = [reg EXCEPT
                  !.conns = [c \in SocketIds |->
                                IF reg.conns[c].here /\ reg.conns[c].tab = NoTab
                                THEN [@[c] EXCEPT !.left = Sooner(@)] ELSE @[c]],
                  !.phase.left = IF reg.phase.kind = "CountingDown" THEN Sooner(@) ELSE @]
    /\ away' = IF Counted(reg) = {} /\ away < Countdown THEN away + 1 ELSE away
    /\ UNCHANGED <<page, sock, tick, exits, process>>

MustEnd(c) == ~sock[c].up \/ ~reg.conns[c].here

Pump(c) ==
    /\ stage # "stopped"
    /\ \/ Undecodable(c)
       \/ \E age \in Ages : \/ Connect(c, age) \/ Hello(c, age) \/ Close(c, age)
                            \/ MustEnd(c) /\ Disconnect(c, age)

HeartbeatLost(c) == stage # "stopped" /\ \E age \in Ages : Disconnect(c, age)

TickStep ==
    /\ stage # "stopped"
    /\ \E age \in Ages :
        Sweep(age) \/ AfterChange(age) \/ \E c \in SocketIds : CloseUnidentified(c, age)

ProcessStep == RequestExit \/ ShutdownStart \/ Seal \/ Stop

Next ==
    \/ \E t \in Tabs : SocketClosed(t) \/ \E script \in Scripts : OpenSocket(t, script)
    \/ \E c \in SocketIds : Pump(c) \/ HeartbeatLost(c)
    \/ TickStep \/ ProcessStep \/ UserExit \/ Signal \/ Elapse

Spec == Init /\ [][Next]_vars

(* The pumps, the ticker and the process run on the async runtime's        *)
(* threads; time passes.  Pages, users and signals do as they please.      *)
Fairness ==
    /\ \A c \in SocketIds : WF_vars(Pump(c))
    /\ WF_vars(TickStep) /\ WF_vars(ProcessStep) /\ WF_vars(Elapse)

LiveSpec == Spec /\ Fairness

-----------------------------------------------------------------------------
(* The types; in particular at most one call ever asks for the exit.       *)
TypeOK ==
    /\ page \in [Tabs -> 0..MaxSockets]
    /\ sock \in [SocketIds -> [pump : {"none", "new", "loop", "closing", "done"},
                             tab : Tabs \cup {NoTab},
                             frames : Seq({"hello", "bad"}), up : BOOLEAN]]
    /\ tick \in [pc : {"idle", "close"}, expired : SUBSET SocketIds]
    /\ reg \in [conns : [SocketIds -> [here : BOOLEAN, left : Lefts(HelloWait),
                                     tab : Tabs \cup {NoTab}]],
                tabs : [Tabs -> 0..MaxSockets],
                phase : [kind : {"Running", "CountingDown", "Exiting"}, left : Lefts(Countdown)],
                ever : BOOLEAN, sealed : BOOLEAN]
    /\ exits \in 0..1 /\ away \in 0..Countdown
    /\ requested \in {"none", "NoPages", "Requested"}
    /\ stage \in {"running", "draining", "sealed", "stopped"}

(* The countdown follows the count: while a page is counted it does not    *)
(* run, and once the last counted page has left it always does, whichever  *)
(* call took the page away.  Each path ends in reconcile().                *)
PhaseMatchesPages ==
    ~reg.sealed =>
        /\ Counted(reg) # {} => reg.phase = Running
        /\ Counted(reg) = {} /\ reg.ever => reg.phase # Running

(* A counted page is a connection that is there and said so: no removal    *)
(* leaves its tab counted, which would keep the program alive for nobody.  *)
BoundIsLive ==
    \A t \in Tabs : reg.tabs[t] # 0 =>
        reg.conns[reg.tabs[t]].here /\ reg.conns[reg.tabs[t]].tab = t

(* A page whose present socket has identified itself is counted, through   *)
(* that socket: the page's older connections, still open on the server     *)
(* side, do not hold or remove the binding.                                *)
LivePageCounted ==
    \A t \in Tabs : LET c == page[t] IN
        c # 0 /\ reg.conns[c].tab = t => reg.tabs[t] = c

UncountedByOwner ==
    \A t \in Tabs : reg.tabs[t] # 0 /\ reg'.tabs[t] = 0
        => reg'.sealed \/ sock'[reg.tabs[t]] # sock[reg.tabs[t]]

(* Only its own connection takes a page out of the count, or the shutdown: *)
(* not the disconnect of a socket it replaced, nor a sweep whose list was  *)
(* read before its HELLO.                                                  *)
OnlyOwnerUncounts == [][UncountedByOwner]_vars

CountedDown ==
    reg'.phase = Exiting /\ ~reg'.sealed /\ reg.phase # Exiting => away >= Countdown - MaxWait

(* The countdown grants its full time: the exit is decided only when no    *)
(* page has been counted for the countdown, less what the clock sample     *)
(* waited for the lock.  A page that returned and left starts a new one.   *)
FullCountdown == [][CountedDown]_vars

Deserted == reg.ever /\ Counted(reg) = {}
Attended == Counted(reg) # {} \/ requested # "none" \/ reg.sealed

(* When the last page has left, either one comes back or the program asks  *)
(* to exit: it never stays behind polling for nobody.                      *)
IdleExits == Deserted ~> Attended
=============================================================================
