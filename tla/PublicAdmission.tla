-------------------------- MODULE PublicAdmission --------------------------
(***************************************************************************)
(* Admission on the public service: the document sessions (session.rs),    *)
(* the WebSocket capacity gate (capacity.rs) and the handlers that use     *)
(* them (host.rs).                                                         *)
(*                                                                         *)
(* A page is issued a session nonce, validates it from time to time and    *)
(* opens watch sockets with it.  A socket takes a capacity permit, then a  *)
(* lease on its session, and holds both until its pump ends.  The registry *)
(* and the gate have a lock each; every call samples the clock before it   *)
(* takes the registry lock.                                                *)
(*                                                                         *)
(* Time is relative: since is the time since a session's last_activity,    *)
(* age the time since a call took its sample.  While a session is leased   *)
(* since stays 0: nothing reads it, and dropping a lease sets it anew.     *)
(* Nonces are numbers in the order of issue; 0 is one never issued.        *)
(***************************************************************************)
EXTENDS Integers, FiniteSets

CONSTANTS
    Clients,        \* client rate keys
    Requests,       \* HTTP requests served at the same time
    Sockets,        \* WebSocket handshakes and connections at the same time
    MaxNonces,      \* bound: sessions ever issued
    MaxSessions,    \* MAX_DOCUMENT_SESSIONS
    MaxPerSession,  \* MAX_WS_CONNECTIONS_PER_SESSION
    MaxGlobal,      \* MAX_GLOBAL_WS_CONNECTIONS
    MaxPerClient,   \* the per-client limit
    Ttl,            \* DOCUMENT_SESSION_TTL
    MaxWait         \* longest time between a clock sample and the lock

ASSUME AdmissionAssumption ==
    /\ MaxNonces \in Nat /\ MaxSessions \in Nat \ {0} /\ MaxPerSession \in Nat \ {0}
    /\ MaxGlobal \in Nat \ {0} /\ MaxPerClient \in Nat \ {0}
    /\ Ttl \in Nat \ {0} /\ MaxWait \in Nat
    /\ IsFiniteSet(Sockets)

VARIABLES
    sessions,  \* sessions[n]: the registry's entry for nonce n
    issued,    \* the last nonce issued
    active,    \* global_active
    perClient, \* per_client; 0 stands for a missing key
    req,       \* req[r]: an HTTP request between its sample and the lock
    sock       \* sock[k]: a WebSocket from its admission to its end

vars == <<sessions, issued, active, perClient, req, sock>>

Nonces == 1..MaxNonces
Oldest == Ttl + MaxWait + 1

Gone == [here |-> FALSE, since |-> 0, ws |-> 0]
Touched(s, age) == [s EXCEPT !.since = IF s.ws = 0 THEN age ELSE 0]

NoRequest == [op |-> "none", nonce |-> 0, age |-> 0]
NoSocket == [stage |-> "none", client |-> "none", nonce |-> 0, age |-> 0,
             permit |-> FALSE, lease |-> FALSE]

Init ==
    /\ sessions = [n \in Nonces |-> Gone]
    /\ issued = 0
    /\ active = 0
    /\ perClient = [c \in Clients |-> 0]
    /\ req = [r \in Requests |-> NoRequest]
    /\ sock = [k \in Sockets |-> NoSocket]

-----------------------------------------------------------------------------
(* The registry.                                                           *)
Registered(ss) == {n \in Nonces : ss[n].here}
Unleased(ss) == {n \in Registered(ss) : ss[n].ws = 0}

MutPrune(age) ==
    [n \in Nonces |->
        IF sessions[n].here /\ sessions[n].since - age \in 0..Ttl THEN sessions[n] ELSE Gone]

(* A session is kept while it is leased or was touched within the Ttl      *)
(* before the sample.  A touch after the sample is not "within".           *)
Prune(age) ==
    [n \in Nonces |->
        IF /\ sessions[n].here
           /\ sessions[n].ws > 0 \/ sessions[n].since - age \in 0..Ttl
        THEN sessions[n] ELSE Gone]

(* The least recently active of the sessions without a lease; equally old  *)
(* ones are told apart by the nonce, which is random.                      *)
Evictable(ss) ==
    {n \in Unleased(ss) : \A m \in Unleased(ss) : ss[m].since <= ss[n].since}

Full(ss) == Cardinality(Registered(ss)) >= MaxSessions

Exhausted(ss) == Full(ss) /\ Unleased(ss) = {}

Insert(ss, age) ==
    /\ issued < MaxNonces /\ issued' = issued + 1
    /\ sessions' = [ss EXCEPT ![issued + 1] = [here |-> TRUE, since |-> age, ws |-> 0]]

AdmitNewSession(ss, age) ==
    IF Exhausted(ss) THEN sessions' = ss /\ UNCHANGED issued
    ELSE IF Full(ss) THEN \E n \in Evictable(ss) : Insert([ss EXCEPT ![n] = Gone], age)
    ELSE Insert(ss, age)

-----------------------------------------------------------------------------
(* HTTP: documents (issue), /session/validate and authenticated requests   *)
(* (locale).  A page presents a nonce it was given, or a foreign one.      *)
Sample(r, op, n) ==
    /\ req[r] = NoRequest
    /\ op = "issue" => n = 0
    /\ req' = [req EXCEPT ![r] = [op |-> op, nonce |-> n, age |-> 0]]
    /\ UNCHANGED <<sessions, issued, active, perClient, sock>>

Answered(r) == req' = [req EXCEPT ![r] = NoRequest]

Issue(r) ==
    /\ req[r].op = "issue"
    /\ AdmitNewSession(Prune(req[r].age), req[r].age)
    /\ Answered(r)
    /\ UNCHANGED <<active, perClient, sock>>

ValidateOrRenew(r) ==
    LET n == req[r].nonce  age == req[r].age  ss == Prune(age) IN
    /\ req[r].op = "validate"
    /\ IF n \in Registered(ss)
       THEN sessions' = [ss EXCEPT ![n] = Touched(@, age)] /\ UNCHANGED issued
       ELSE AdmitNewSession(ss, age)
    /\ Answered(r)
    /\ UNCHANGED <<active, perClient, sock>>

Locale(r) ==
    LET n == req[r].nonce  age == req[r].age  ss == Prune(age) IN
    /\ req[r].op = "locale"
    /\ sessions' = IF n \in Registered(ss) THEN [ss EXCEPT ![n] = Touched(@, age)] ELSE ss
    /\ Answered(r)
    /\ UNCHANGED <<issued, active, perClient, sock>>

-----------------------------------------------------------------------------
(* The watch socket handler.                                               *)
(* The capacity permit; a handshake over a limit is refused and changes    *)
(* nothing.                                                                *)
Admit(k, c, n) ==
    /\ sock[k] = NoSocket
    /\ active < MaxGlobal /\ perClient[c] < MaxPerClient
    /\ active' = active + 1
    /\ perClient' = [perClient EXCEPT ![c] = @ + 1]
    /\ sock' = [sock EXCEPT ![k] = [stage |-> "reserving", client |-> c, nonce |-> n,
                                    age |-> 0, permit |-> TRUE, lease |-> FALSE]]
    /\ UNCHANGED <<sessions, issued, req>>

(* reserve_ws, with a sample taken since the permit was; a refusal         *)
(* returns, which drops the permit.                                        *)
Reserve(k) ==
    \E age \in 0..sock[k].age :
        LET n == sock[k].nonce  ss == Prune(age) IN
        /\ sock[k].stage = "reserving"
        /\ IF n \in Registered(ss) /\ ss[n].ws < MaxPerSession
           THEN /\ sessions' = [ss EXCEPT ![n].ws = @ + 1, ![n].since = 0]
                /\ sock' = [sock EXCEPT ![k].stage = "open", ![k].age = 0, ![k].lease = TRUE]
           ELSE /\ sessions' = ss
                /\ sock' = [sock EXCEPT ![k].stage = "ending", ![k].age = 0]
        /\ UNCHANGED <<issued, active, perClient, req>>

(* The upgrade fails, or the pump ends: permit and lease are dropped one   *)
(* after the other, each under its own lock.                               *)
End(k) ==
    /\ sock[k].stage = "open"
    /\ sock' = [sock EXCEPT ![k].stage = "ending"]
    /\ UNCHANGED <<sessions, issued, active, perClient, req>>

Without(k, s) == sock' = [sock EXCEPT ![k] = IF s.permit \/ s.lease THEN s ELSE NoSocket]

DropPermit(k) ==
    /\ sock[k].stage = "ending" /\ sock[k].permit
    /\ active' = IF active > 0 THEN active - 1 ELSE 0
    /\ perClient' = [perClient EXCEPT ![sock[k].client] = IF @ > 0 THEN @ - 1 ELSE 0]
    /\ Without(k, [sock[k] EXCEPT !.permit = FALSE])
    /\ UNCHANGED <<sessions, issued, req>>

(* The lease's Drop takes its sample under the lock.                       *)
DropLease(k) ==
    LET n == sock[k].nonce IN
    /\ sock[k].stage = "ending" /\ sock[k].lease
    /\ sessions' = IF sessions[n].here
                   THEN [sessions EXCEPT ![n].since = 0,
                                         ![n].ws = IF @ > 0 THEN @ - 1 ELSE 0]
                   ELSE sessions
    /\ Without(k, [sock[k] EXCEPT !.lease = FALSE])
    /\ UNCHANGED <<issued, active, perClient, req>>

-----------------------------------------------------------------------------
Waiting == {r \in Requests : req[r] # NoRequest}
Reserving == {k \in Sockets : sock[k].stage = "reserving"}

Elapse ==
    /\ \A r \in Waiting : req[r].age < MaxWait
    /\ \A k \in Reserving : sock[k].age < MaxWait
    /\ sessions' = [n \in Nonces |->
                       IF n \in Unleased(sessions) /\ sessions[n].since < Oldest
                       THEN Touched(sessions[n], sessions[n].since + 1) ELSE sessions[n]]
    /\ req' = [r \in Requests |->
                  IF r \in Waiting THEN [req[r] EXCEPT !.age = @ + 1] ELSE req[r]]
    /\ sock' = [k \in Sockets |->
                  IF k \in Reserving THEN [sock[k] EXCEPT !.age = @ + 1] ELSE sock[k]]
    /\ UNCHANGED <<issued, active, perClient>>

Known == 0..issued

Next ==
    \/ \E r \in Requests :
        \/ \E op \in {"issue", "validate", "locale"}, n \in Known : Sample(r, op, n)
        \/ Issue(r) \/ ValidateOrRenew(r) \/ Locale(r)
    \/ \E k \in Sockets :
        \/ \E c \in Clients, n \in Known : Admit(k, c, n)
        \/ Reserve(k) \/ End(k) \/ DropPermit(k) \/ DropLease(k)
    \/ Elapse

Spec == Init /\ [][Next]_vars

-----------------------------------------------------------------------------
Leases(n) == {k \in Sockets : sock[k].lease /\ sock[k].nonce = n}
Permits == {k \in Sockets : sock[k].permit}
PermitsOf(c) == {k \in Permits : sock[k].client = c}
Ending == {k \in Sockets : sock[k].stage = "ending"}

(* The types.  In particular no session ever has more sockets than         *)
(* reserve_ws allows.                                                      *)
TypeOK ==
    /\ sessions \in [Nonces -> [here : BOOLEAN, since : 0..Oldest, ws : 0..MaxPerSession]]
    /\ issued \in 0..MaxNonces
    /\ active \in 0..MaxGlobal
    /\ perClient \in [Clients -> 0..MaxPerClient]
    /\ req \in [Requests -> [op : {"none", "issue", "validate", "locale"},
                             nonce : 0..MaxNonces, age : 0..MaxWait]]
    /\ sock \in [Sockets -> [stage : {"none", "reserving", "open", "ending"},
                             client : Clients \cup {"none"}, nonce : 0..MaxNonces,
                             age : 0..MaxWait, permit : BOOLEAN, lease : BOOLEAN]]

(* A leased session stays registered and its count is exactly the sockets  *)
(* that hold a lease on it, whatever is pruned, evicted or renewed around  *)
(* it: "a leased session cannot be pruned or evicted".                     *)
LeaseExact ==
    \A n \in Nonces :
        /\ sessions[n].ws = Cardinality(Leases(n))
        /\ Leases(n) # {} => sessions[n].here

(* The gate's counts are exactly the sockets that hold a permit, from      *)
(* before the upgrade until the pump has ended, also on every refusal: no  *)
(* slot leaks and none is given back twice.                                *)
PermitExact ==
    /\ active = Cardinality(Permits)
    /\ \A c \in Clients : perClient[c] = Cardinality(PermitsOf(c))

(* Leased sessions never crowd out issuance: a new page is refused for     *)
(* capacity only while at least MaxSessions - MaxGlobal sockets are being  *)
(* torn down at once, because a socket gives its permit back before its    *)
(* lease.  In the product that margin is 3072 sockets.                     *)
IssuanceOpen == Exhausted(sessions) => Cardinality(Ending) >= MaxSessions - MaxGlobal

(* The leases of a session and the permits of the gate are counted         *)
(* exactly, on every path, and leased sessions never crowd out issuance    *)
(* (session.rs, limits.rs).                                                *)
AdmissionExact == LeaseExact /\ PermitExact /\ IssuanceOpen

(* A session without a lease is removed by expiry only when nothing        *)
(* touched it for the Ttl: the window restarts with every touch and "when  *)
(* the last connection closes".                                            *)
WindowHonoured ==
    [][\A n \in Nonces :
          sessions[n].here /\ ~sessions'[n].here /\ ~Full(sessions)
              => sessions[n].since > Ttl]_vars
=============================================================================
