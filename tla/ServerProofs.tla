---------------------------- MODULE ServerProofs ----------------------------
(***************************************************************************)
(* Theorems about two components of the server for every value of the      *)
(* constants.                                                              *)
(*                                                                         *)
(* PublicAdmission: permits and leases are exact, for any number of        *)
(* clients, requests, sockets and sessions and any limits; and leases      *)
(* cannot crowd out issuance beyond the margin of sockets being torn down. *)
(* The counts are numbers in the code and sets of sockets in the           *)
(* invariant, so each action is shown to move one socket into or out of    *)
(* each set, and the library's facts on cardinality do the rest.           *)
(*                                                                         *)
(* RefreshSchedule: the work of a target is never forgotten                *)
(* (NothingForgotten).  ScheduleInv is inductive; NothingForgotten alone   *)
(* is not: that a job recurs is what keeps it active when a completion     *)
(* takes its one-shot away, and that an Open job told of a watch is active *)
(* is what a refresh of the policy that changes nothing relies on.         *)
(***************************************************************************)
EXTENDS PublicAdmission, RefreshSchedule, FiniteSetTheorems, TLAPS

SessionType == [here : BOOLEAN, since : 0..Oldest, ws : 0..MaxPerSession]
SocketType == [stage : {"none", "reserving", "open", "ending"},
               client : Clients \cup {"none"}, nonce : 0..MaxNonces,
               age : 0..MaxWait, permit : BOOLEAN, lease : BOOLEAN]

(* What the registry satisfies, also half way through a handler.           *)
RegistryOK(ss) ==
    /\ ss \in [Nonces -> SessionType]
    /\ \A n \in Nonces :
        /\ ss[n].ws = Cardinality(Leases(n))
        /\ Leases(n) # {} => ss[n].here
        /\ n > issued => ~ss[n].here

(* What a socket holds in each stage.                                      *)
SocketOK(s) ==
    /\ s.permit => s.client \in Clients
    /\ s.lease => s.nonce \in Nonces /\ s.stage \in {"open", "ending"}
    /\ s.stage = "reserving" => s.permit
    /\ s.stage = "open" => s.permit /\ s.lease
    /\ s.stage = "none" => ~s.permit

(* The inductive invariant.                                                *)
IInv ==
    /\ TypeOK
    /\ RegistryOK(sessions)
    /\ PermitExact
    /\ \A k \in Sockets : SocketOK(sock[k])
-----------------------------------------------------------------------------
(* Sets of sockets are finite, and their sizes are numbers.                *)
LEMMA SocketSets ==
    ASSUME NEW S \in SUBSET Sockets
    PROVE  IsFiniteSet(S) /\ Cardinality(S) \in Nat /\ (Cardinality(S) = 0 <=> S = {})
BY AdmissionAssumption, FS_Subset, FS_CardinalityType, FS_EmptySet

(* One more socket, or one less.                                           *)
LEMMA OneMore ==
    ASSUME NEW S \in SUBSET Sockets, NEW k \in Sockets, k \notin S
    PROVE  Cardinality(S \cup {k}) = Cardinality(S) + 1
BY SocketSets, FS_AddElement

(* A socket taken out of a set counts for one.                             *)
LEMMA OneLess ==
    ASSUME NEW S \in SUBSET Sockets, NEW k \in S
    PROVE  Cardinality(S \ {k}) = Cardinality(S) - 1 /\ Cardinality(S) > 0
<1>1. Cardinality(S \ {k}) = Cardinality(S) - 1
  BY SocketSets, FS_RemoveElement
<1>2. Cardinality(S) > 0
  BY SocketSets
<1> QED BY <1>1, <1>2

(* Taking out what is not there changes nothing.                           *)
LEMMA Without1 ==
    ASSUME NEW S, NEW k, k \notin S
    PROVE  S \ {k} = S
OBVIOUS

(* The prune at the start of every registry call keeps what is leased.     *)
LEMMA PruneOK ==
    ASSUME IInv, NEW age \in 0..MaxWait
    PROVE  RegistryOK(Prune(age))
<1> DEFINE ss == Prune(age)
<1>1. Gone \in SessionType /\ ~Gone.here /\ Gone.ws = 0
  BY AdmissionAssumption DEF Gone, SessionType, Oldest
<1>2. \A n \in Nonces : sessions[n] \in SessionType
  BY DEF IInv, RegistryOK
<1>3. ASSUME NEW n \in Nonces
      PROVE  /\ ss[n] \in SessionType
             /\ ss[n].ws = Cardinality(Leases(n))
             /\ Leases(n) # {} => ss[n].here
             /\ n > issued => ~ss[n].here
  <2>1. Leases(n) \in SUBSET Sockets
    BY DEF Leases
  <2>2. /\ sessions[n].ws = Cardinality(Leases(n)) /\ sessions[n].ws \in Nat
        /\ Leases(n) # {} => sessions[n].here /\ sessions[n].ws > 0
        /\ n > issued => ~sessions[n].here
    BY <2>1, SocketSets DEF IInv, RegistryOK
  <2>3. ss[n] = sessions[n] \/ (ss[n] = Gone /\ (~sessions[n].here \/ sessions[n].ws = 0))
    BY <2>2 DEF Prune
  <2>4. CASE ss[n] = sessions[n]
    BY <2>4, <2>2, <1>2
  <2>5. CASE ss[n] = Gone /\ (~sessions[n].here \/ sessions[n].ws = 0)
    <3>1. Leases(n) = {}
      BY <2>5, <2>2
    <3>2. Cardinality(Leases(n)) = 0
      BY <3>1, FS_EmptySet
    <3> QED BY <3>1, <3>2, <2>5, <1>1
  <2> QED BY <2>3, <2>4, <2>5
<1>4. ss \in [Nonces -> SessionType]
  BY <1>3 DEF Prune
<1> QED BY <1>3, <1>4 DEF RegistryOK

(* A new session has no lease, so registering it at the next nonce keeps   *)
(* the registry exact.                                                     *)
LEMMA InsertOK ==
    ASSUME NEW ss, RegistryOK(ss), issued \in 0..MaxNonces, NEW age \in 0..MaxWait,
           Insert(ss, age), sock' = sock
    PROVE  RegistryOK(sessions)' /\ issued' \in 0..MaxNonces
<1> DEFINE new == [here |-> TRUE, since |-> age, ws |-> 0]
<1>1. new \in SessionType
  BY AdmissionAssumption DEF SessionType, Oldest
<1>2. /\ issued + 1 \in Nonces /\ issued' = issued + 1
      /\ sessions' = [ss EXCEPT ![issued + 1] = new]
  BY AdmissionAssumption DEF Insert, Nonces
<1>3. \A n : Leases(n)' = Leases(n)
  BY DEF Leases
<1>4. Leases(issued + 1) = {} /\ Cardinality(Leases(issued + 1)) = 0
  <2>1. issued + 1 > issued
    OBVIOUS
  <2>2. Leases(issued + 1) = {}
    BY <2>1, <1>2 DEF RegistryOK
  <2> QED BY <2>2, FS_EmptySet
<1>5. sessions' \in [Nonces -> SessionType]
  BY <1>1, <1>2 DEF RegistryOK
<1>6. ASSUME NEW n \in Nonces
      PROVE  /\ sessions'[n].ws = Cardinality(Leases(n))
             /\ Leases(n) # {} => sessions'[n].here
             /\ n > issued + 1 => ~sessions'[n].here
  <2>1. CASE n = issued + 1
    BY <2>1, <1>2, <1>4 DEF RegistryOK
  <2>2. CASE n # issued + 1
    <3>1. sessions'[n] = ss[n]
      BY <2>2, <1>2 DEF RegistryOK
    <3>2. n > issued + 1 => n > issued
      BY DEF Nonces
    <3> QED BY <3>1, <3>2 DEF RegistryOK
  <2> QED BY <2>1, <2>2
<1> QED BY <1>2, <1>3, <1>5, <1>6 DEF RegistryOK, Nonces

(* An evicted session has no lease.                                        *)
LEMMA AdmitOK ==
    ASSUME NEW ss, RegistryOK(ss), issued \in 0..MaxNonces, NEW age \in 0..MaxWait,
           AdmitNewSession(ss, age), sock' = sock
    PROVE  RegistryOK(sessions)' /\ issued' \in 0..MaxNonces
<1>1. CASE Exhausted(ss)
  BY <1>1 DEF AdmitNewSession, RegistryOK, Leases
<1>2. CASE ~Exhausted(ss) /\ Full(ss)
  <2>1. PICK n \in Evictable(ss) : Insert([ss EXCEPT ![n] = Gone], age)
    BY <1>2 DEF AdmitNewSession
  <2>2. n \in Nonces /\ ss[n].ws = 0
    BY DEF Evictable, Unleased, Registered
  <2>3. Leases(n) = {} /\ Cardinality(Leases(n)) = 0
    <3>1. Leases(n) \in SUBSET Sockets
      BY DEF Leases
    <3> QED BY <3>1, <2>2, SocketSets DEF RegistryOK
  <2>4. Gone \in SessionType /\ ~Gone.here /\ Gone.ws = 0
    BY AdmissionAssumption DEF Gone, SessionType, Oldest
  <2>5. RegistryOK([ss EXCEPT ![n] = Gone])
    <3> DEFINE tt == [ss EXCEPT ![n] = Gone]
    <3>1. tt \in [Nonces -> SessionType]
      BY Zenon, <2>4 DEF RegistryOK
    <3>2. \A m \in Nonces : tt[m] = IF m = n THEN Gone ELSE ss[m]
      BY DEF RegistryOK
    <3> QED BY <3>1, <3>2, <2>3, <2>4 DEF RegistryOK
  <2> QED BY <2>1, <2>5, InsertOK
<1>3. CASE ~Exhausted(ss) /\ ~Full(ss)
  BY <1>3, InsertOK DEF AdmitNewSession
<1> QED BY <1>1, <1>2, <1>3

(* Renewing a session's window does not touch its count.                   *)
LEMMA TouchOK ==
    ASSUME NEW ss, RegistryOK(ss), NEW age \in 0..MaxWait, NEW n \in Registered(ss)
    PROVE  RegistryOK([ss EXCEPT ![n] = Touched(@, age)])
<1> DEFINE tt == [ss EXCEPT ![n] = Touched(@, age)]
<1>1. n \in Nonces /\ ss[n] \in SessionType
  BY DEF Registered, RegistryOK
<1>2. /\ Touched(ss[n], age) \in SessionType
      /\ Touched(ss[n], age).ws = ss[n].ws /\ Touched(ss[n], age).here = ss[n].here
  BY <1>1, AdmissionAssumption DEF Touched, SessionType, Oldest
<1>3. tt \in [Nonces -> SessionType]
  BY <1>1, <1>2 DEF RegistryOK
<1>4. \A m \in Nonces : tt[m].ws = ss[m].ws /\ tt[m].here = ss[m].here
  BY <1>1, <1>2 DEF RegistryOK
<1> QED BY <1>3, <1>4 DEF RegistryOK
-----------------------------------------------------------------------------
(* A call of a page changes the registry and the request, nothing else.    *)
LEMMA RequestStep ==
    ASSUME IInv, RegistryOK(sessions)', issued' \in 0..MaxNonces, NEW r \in Requests,
           Answered(r), UNCHANGED <<active, perClient, sock>>
    PROVE  IInv'
<1>1. req' \in [Requests -> [op : {"none", "issue", "validate", "locale"},
                             nonce : 0..MaxNonces, age : 0..MaxWait]]
  BY AdmissionAssumption DEF IInv, TypeOK, Answered, NoRequest
<1>2. TypeOK'
  BY <1>1 DEF IInv, TypeOK, RegistryOK, SessionType
<1>3. PermitExact'
  BY DEF IInv, PermitExact, Permits, PermitsOf
<1> QED BY <1>2, <1>3 DEF IInv

(* A request reads the clock: nothing but the request changes.             *)
LEMMA SampleInv ==
    ASSUME IInv, NEW r \in Requests, NEW op \in {"issue", "validate", "locale"},
           NEW n \in Known, Sample(r, op, n)
    PROVE  IInv'
<1>1. n \in 0..MaxNonces
  BY AdmissionAssumption DEF Known, IInv, TypeOK
<1>2. req' \in [Requests -> [op : {"none", "issue", "validate", "locale"},
                             nonce : 0..MaxNonces, age : 0..MaxWait]]
  BY <1>1, AdmissionAssumption DEF IInv, TypeOK, Sample
<1>3. TypeOK'
  BY <1>2 DEF IInv, TypeOK, Sample
<1>4. PermitExact' /\ RegistryOK(sessions)'
  BY Zenon DEF Sample, IInv, PermitExact, Permits, PermitsOf, RegistryOK, Leases
<1> QED BY <1>3, <1>4 DEF IInv, Sample

(* An issued session is new; at the limit the oldest one without a lease   *)
(* makes room.                                                             *)
LEMMA IssueInv ==
    ASSUME IInv, NEW r \in Requests, Issue(r)
    PROVE  IInv'
<1>1. req[r].age \in 0..MaxWait /\ issued \in 0..MaxNonces
  BY DEF IInv, TypeOK
<1>2. RegistryOK(Prune(req[r].age))
  BY <1>1, PruneOK
<1>3. RegistryOK(sessions)' /\ issued' \in 0..MaxNonces
  BY <1>1, <1>2, AdmitOK DEF Issue
<1> QED BY <1>3, RequestStep DEF Issue

(* Validating or renewing a session keeps the registry in order.           *)
LEMMA ValidateInv ==
    ASSUME IInv, NEW r \in Requests, ValidateOrRenew(r)
    PROVE  IInv'
<1> DEFINE n == req[r].nonce
           age == req[r].age
           ss == Prune(age)
<1>1. age \in 0..MaxWait /\ issued \in 0..MaxNonces
  BY DEF IInv, TypeOK
<1>2. RegistryOK(ss)
  BY <1>1, PruneOK
<1>3. RegistryOK(sessions)' /\ issued' \in 0..MaxNonces
  <2>1. CASE n \in Registered(ss)
    <3>1. sessions' = [ss EXCEPT ![n] = Touched(@, age)] /\ issued' = issued /\ sock' = sock
      BY <2>1 DEF ValidateOrRenew
    <3>2. RegistryOK([ss EXCEPT ![n] = Touched(@, age)])
      BY <2>1, <1>1, <1>2, TouchOK
    <3>3. RegistryOK(sessions)'
      <4> HIDE DEF ss, n, age
      <4> QED BY <3>1, <3>2 DEF RegistryOK, Leases
    <3> QED BY <3>1, <3>3, <1>1
  <2>2. CASE n \notin Registered(ss)
    <3>1. AdmitNewSession(ss, age) /\ sock' = sock
      BY <2>2 DEF ValidateOrRenew
    <3> QED BY <3>1, <1>1, <1>2, AdmitOK
  <2> QED BY <2>1, <2>2
<1> QED BY <1>3, RequestStep DEF ValidateOrRenew

(* A locale update touches one session at most.                            *)
LEMMA LocaleInv ==
    ASSUME IInv, NEW r \in Requests, Locale(r)
    PROVE  IInv'
<1> DEFINE n == req[r].nonce
           age == req[r].age
           ss == Prune(age)
           tt == IF n \in Registered(ss) THEN [ss EXCEPT ![n] = Touched(@, age)] ELSE ss
<1>1. age \in 0..MaxWait /\ issued \in 0..MaxNonces
  BY DEF IInv, TypeOK
<1>2. RegistryOK(ss)
  BY <1>1, PruneOK
<1>3. RegistryOK(tt)
  <2>1. CASE n \in Registered(ss)
    BY <2>1, <1>1, <1>2, TouchOK
  <2>2. CASE n \notin Registered(ss)
    BY <2>2, <1>2
  <2> QED BY <2>1, <2>2
<1>4. sessions' = tt /\ issued' = issued /\ sock' = sock
  BY DEF Locale
<1>5. RegistryOK(sessions)'
  <2> HIDE DEF tt
  <2> QED BY <1>3, <1>4 DEF RegistryOK, Leases
<1> QED BY <1>1, <1>4, <1>5, RequestStep DEF Locale
-----------------------------------------------------------------------------
(* A step that changes one socket moves it in or out of the three sets.    *)
Moved(k, v) ==
    /\ Permits' = IF v.permit THEN Permits \cup {k} ELSE Permits \ {k}
    /\ \A c \in Clients : PermitsOf(c)' =
          IF v.permit /\ v.client = c THEN PermitsOf(c) \cup {k} ELSE PermitsOf(c) \ {k}
    /\ \A n \in Nonces : Leases(n)' =
          IF v.lease /\ v.nonce = n THEN Leases(n) \cup {k} ELSE Leases(n) \ {k}

SocketsOK == sock \in [Sockets -> SocketType] /\ \A j \in Sockets : SocketOK(sock[j])

(* One socket moves, and its lease moves with it.                          *)
LEMMA SocketStep ==
    ASSUME IInv, NEW k \in Sockets, NEW v \in SocketType, SocketOK(v),
           sock' = [sock EXCEPT ![k] = v]
    PROVE  SocketsOK' /\ Moved(k, v)
<1>1. SocketsOK
  BY DEF IInv, TypeOK, SocketType, SocketsOK
<1>2. \A j \in Sockets : sock'[j] = IF j = k THEN v ELSE sock[j]
  BY <1>1 DEF SocketsOK
<1>3. SocketsOK'
  BY <1>1, <1>2 DEF SocketsOK, SocketOK
<1>4. Permits' = IF v.permit THEN Permits \cup {k} ELSE Permits \ {k}
  BY <1>2 DEF Permits
<1>5. \A c \in Clients : PermitsOf(c)' =
          IF v.permit /\ v.client = c THEN PermitsOf(c) \cup {k} ELSE PermitsOf(c) \ {k}
  BY <1>2 DEF PermitsOf, Permits
<1>6. \A n \in Nonces : Leases(n)' =
          IF v.lease /\ v.nonce = n THEN Leases(n) \cup {k} ELSE Leases(n) \ {k}
  BY <1>2 DEF Leases
<1> QED BY <1>3, <1>4, <1>5, <1>6 DEF Moved

(* The fields of a socket after its reserve_ws.                            *)
Answering(s, g, l) == [s EXCEPT !.stage = g, !.age = 0, !.lease = l]

(* The other fields of such a socket stay.                                 *)
LEMMA AnsweringFields ==
    ASSUME NEW s \in SocketType, NEW g \in {"open", "ending"}, NEW l \in BOOLEAN
    PROVE  LET v == Answering(s, g, l) IN
           /\ v \in SocketType /\ v.stage = g /\ v.lease = l
           /\ v.permit = s.permit /\ v.client = s.client /\ v.nonce = s.nonce
<1>1. 0 \in 0..MaxWait
  BY AdmissionAssumption
<1> QED BY <1>1, Zenon DEF SocketType, Answering

(* The handshake's permit is counted once, globally and for its client.    *)
LEMMA AdmitInv ==
    ASSUME IInv, NEW k \in Sockets, NEW c \in Clients, NEW n \in Known, Admit(k, c, n)
    PROVE  IInv'
<1> DEFINE v == [stage |-> "reserving", client |-> c, nonce |-> n,
                 age |-> 0, permit |-> TRUE, lease |-> FALSE]
<1>1. v \in SocketType /\ SocketOK(v) /\ v.permit /\ v.client = c /\ ~v.lease
  BY AdmissionAssumption DEF SocketType, SocketOK, Known, IInv, TypeOK
<1>2. sock' = [sock EXCEPT ![k] = v]
  BY DEF Admit
<1>3. ~sock[k].permit /\ ~sock[k].lease
  BY DEF Admit, NoSocket
<1> HIDE DEF v
<1>4. k \notin Permits /\ (\A d : k \notin PermitsOf(d)) /\ (\A m : k \notin Leases(m))
  BY <1>3 DEF Permits, PermitsOf, Leases
<1>5. /\ SocketsOK'
      /\ Permits' = Permits \cup {k} /\ PermitsOf(c)' = PermitsOf(c) \cup {k}
      /\ \A d \in Clients \ {c} : PermitsOf(d)' = PermitsOf(d)
      /\ \A m \in Nonces : Leases(m)' = Leases(m)
  <2>1. SocketsOK' /\ Moved(k, v)
    BY Zenon, <1>1, <1>2, SocketStep
  <2>2. /\ Permits' = Permits \cup {k} /\ PermitsOf(c)' = PermitsOf(c) \cup {k}
        /\ \A d \in Clients \ {c} : PermitsOf(d)' = PermitsOf(d) \ {k}
        /\ \A m \in Nonces : Leases(m)' = Leases(m) \ {k}
    BY <2>1, <1>1, Zenon DEF Moved
  <2>3. \A d \in Clients \ {c} : PermitsOf(d)' = PermitsOf(d)
    BY <2>2, <1>4, Without1
  <2>4. \A m \in Nonces : Leases(m)' = Leases(m)
    BY ZenonT(60), <2>2, <1>4, Without1
  <2> QED BY <2>1, <2>2, <2>3, <2>4
<1>6. Permits \in SUBSET Sockets /\ PermitsOf(c) \in SUBSET Sockets
  BY DEF Permits, PermitsOf
<1>7. PermitExact'
  <2>1. /\ Cardinality(Permits') = Cardinality(Permits) + 1
        /\ Cardinality(PermitsOf(c)') = Cardinality(PermitsOf(c)) + 1
    BY <1>4, <1>5, <1>6, OneMore
  <2>2. active' = Cardinality(Permits')
    BY <2>1 DEF IInv, PermitExact, Admit
  <2>3. \A d \in Clients : perClient'[d] = Cardinality(PermitsOf(d)')
    <3>1. \A d \in Clients : perClient'[d] = IF d = c THEN perClient[c] + 1 ELSE perClient[d]
      BY DEF Admit, IInv, TypeOK
    <3> QED BY <3>1, <2>1, <1>5 DEF IInv, PermitExact
  <2> QED BY <2>2, <2>3 DEF PermitExact
<1>8. RegistryOK(sessions)'
  BY <1>5 DEF IInv, RegistryOK, Admit
<1>9. TypeOK'
  <2>1. active' \in 0..MaxGlobal
    BY AdmissionAssumption DEF IInv, TypeOK, Admit
  <2>2. perClient' \in [Clients -> 0..MaxPerClient]
    BY AdmissionAssumption DEF IInv, TypeOK, Admit
  <2> QED BY <2>1, <2>2, <1>5 DEF IInv, TypeOK, Admit, SocketType, SocketsOK
<1> QED BY <1>5, <1>7, <1>8, <1>9 DEF IInv, SocketsOK

(* A step that leaves a socket its permit leaves the gate exact.           *)
LEMMA PermitKept ==
    ASSUME IInv, NEW k \in Sockets, NEW v \in SocketType, SocketOK(v),
           sock' = [sock EXCEPT ![k] = v],
           v.permit = sock[k].permit, v.permit => v.client = sock[k].client,
           UNCHANGED <<active, perClient>>
    PROVE  PermitExact'
<1>1. Moved(k, v)
  BY Zenon, SocketStep
<1>2. Permits' = Permits
  BY <1>1 DEF Moved, Permits
<1>3. \A c \in Clients : PermitsOf(c)' = PermitsOf(c)
  BY <1>1 DEF Moved, PermitsOf, Permits
<1> QED BY <1>2, <1>3 DEF IInv, PermitExact

(* The fields of a session after a lease is taken.                         *)
Leased(s) == [s EXCEPT !.ws = @ + 1, !.since = 0]

(* Only the lease count and the age of such a session change.              *)
LEMMA LeasedFields ==
    ASSUME NEW s \in SessionType, s.ws < MaxPerSession
    PROVE  Leased(s) \in SessionType /\ Leased(s).ws = s.ws + 1 /\ Leased(s).here = s.here
<1>1. s.ws + 1 \in 0..MaxPerSession /\ 0 \in 0..Oldest
  BY AdmissionAssumption DEF SessionType, Oldest
<1> QED BY <1>1, Zenon DEF SessionType, Leased

(* The lease is counted with the check, in one locked step.                *)
LEMMA ReserveInv ==
    ASSUME IInv, NEW k \in Sockets, Reserve(k)
    PROVE  IInv'
<1>1. PICK age \in 0..sock[k].age :
          /\ sock[k].stage = "reserving"
          /\ IF sock[k].nonce \in Registered(Prune(age))
                /\ Prune(age)[sock[k].nonce].ws < MaxPerSession
             THEN /\ sessions' = [Prune(age) EXCEPT ![sock[k].nonce].ws = @ + 1,
                                                    ![sock[k].nonce].since = 0]
                  /\ sock' = [sock EXCEPT ![k].stage = "open", ![k].age = 0, ![k].lease = TRUE]
             ELSE /\ sessions' = Prune(age)
                  /\ sock' = [sock EXCEPT ![k].stage = "ending", ![k].age = 0]
          /\ UNCHANGED <<issued, active, perClient, req>>
  BY DEF Reserve
<1>2. SocketsOK /\ age \in 0..MaxWait
  BY AdmissionAssumption DEF IInv, TypeOK, SocketType, SocketsOK
<1>3. PICK s \in SocketType : s = sock[k]
  BY <1>2 DEF SocketsOK
<1>4. PICK n \in 0..MaxNonces : n = s.nonce
  BY DEF SocketType
<1>5. PICK ss : ss = Prune(age)
  OBVIOUS
<1>6. RegistryOK(ss)
  BY <1>2, <1>5, PruneOK
<1>7. s.permit /\ ~s.lease /\ s.client \in Clients
  <2>1. s.stage = "reserving" /\ SocketOK(s)
    BY <1>1, <1>2, <1>3 DEF SocketsOK
  <2> QED BY <2>1 DEF SocketOK
<1>8. \A m : k \notin Leases(m)
  BY <1>3, <1>7 DEF Leases
<1>9. ASSUME RegistryOK(sessions)', PermitExact', SocketsOK'
      PROVE  IInv'
  BY <1>1, <1>9 DEF IInv, TypeOK, RegistryOK, SessionType, SocketType, SocketsOK
<1>10. CASE n \in Registered(ss) /\ ss[n].ws < MaxPerSession
  <2>1. n \in Nonces /\ ss[n].here /\ ss[n] \in SessionType
    BY <1>6, <1>10 DEF Registered, RegistryOK
  <2>2. PICK v : v = Answering(s, "open", TRUE)
    BY Zenon
  <2>3. /\ v \in SocketType /\ v.permit = s.permit /\ v.client = s.client
        /\ v.nonce = n /\ v.lease = TRUE /\ v.stage = "open"
    BY <2>2, <1>4, AnsweringFields, Zenon
  <2>4. SocketOK(v)
    BY <2>1, <2>3, <1>7, Zenon DEF SocketOK
  <2>5. PICK e : e = Leased(ss[n])
    OBVIOUS
  <2>6. e \in SessionType /\ e.ws = ss[n].ws + 1 /\ e.here
    BY <2>1, <2>5, <1>10, LeasedFields, Zenon
  <2>7. sock' = [sock EXCEPT ![k] = v]
    BY Zenon, <1>1, <1>3, <1>4, <1>5, <1>10, <2>2 DEF Answering
  <2>8. sessions' = [ss EXCEPT ![n] = e]
    BY ZenonT(60), <1>1, <1>3, <1>4, <1>5, <1>10, <2>5 DEF Leased
  <2>9. PermitExact'
    BY Zenon, <2>3, <2>4, <2>7, <1>1, <1>3, PermitKept
  <2>10. SocketsOK' /\ Moved(k, v)
    BY Zenon, <2>3, <2>4, <2>7, SocketStep
  <2>11. /\ Leases(n)' = Leases(n) \cup {k}
         /\ \A m \in Nonces \ {n} : Leases(m)' = Leases(m) \ {k}
    BY <2>10, <2>1, <2>3, Zenon DEF Moved
  <2>12. \A m \in Nonces \ {n} : Leases(m)' = Leases(m)
    BY <2>11, <1>8, Without1
  <2>13. Cardinality(Leases(n)') = Cardinality(Leases(n)) + 1
    <3>1. Leases(n) \in SUBSET Sockets
      BY DEF Leases
    <3> QED BY <3>1, <2>11, <1>8, OneMore
  <2>14. RegistryOK(sessions)'
    <3>1. sessions' \in [Nonces -> SessionType]
      BY Zenon, <2>6, <2>8, <1>6 DEF RegistryOK
    <3>2. sessions'[n] = e /\ \A m \in Nonces \ {n} : sessions'[m] = ss[m]
      BY <2>1, <2>8, <1>6 DEF RegistryOK
    <3>3. /\ sessions'[n].ws = Cardinality(Leases(n)')
          /\ sessions'[n].here /\ ~(n > issued)
      BY <3>2, <2>1, <2>6, <2>13, <1>6 DEF RegistryOK
    <3>4. \A m \in Nonces \ {n} :
              /\ sessions'[m].ws = Cardinality(Leases(m)')
              /\ Leases(m)' # {} => sessions'[m].here
              /\ m > issued => ~sessions'[m].here
      BY <3>2, <2>12, <1>6 DEF RegistryOK
    <3>5. issued' = issued
      BY <1>1
    <3>6. \A m \in Nonces :
              /\ sessions'[m].ws = Cardinality(Leases(m)')
              /\ Leases(m)' # {} => sessions'[m].here
              /\ m > issued => ~sessions'[m].here
      BY <3>3, <3>4
    <3> QED BY <3>1, <3>5, <3>6 DEF RegistryOK, Nonces
  <2> QED BY <1>9, <2>9, <2>10, <2>14
<1>11. CASE ~(n \in Registered(ss) /\ ss[n].ws < MaxPerSession)
  <2>1. PICK v : v = Answering(s, "ending", FALSE)
    BY Zenon
  <2>2. /\ v \in SocketType /\ v.permit = s.permit /\ v.client = s.client
        /\ ~v.lease /\ v.stage = "ending"
    BY <2>1, AnsweringFields, Zenon
  <2>3. SocketOK(v)
    BY <2>2, <1>7, Zenon DEF SocketOK
  <2>4. v = [s EXCEPT !.stage = "ending", !.age = 0]
    BY <2>1, <1>7, Zenon DEF Answering, SocketType
  <2>5. sock' = [sock EXCEPT ![k] = v] /\ sessions' = ss /\ issued' = issued
    BY Zenon, <1>1, <1>3, <1>4, <1>5, <1>11, <2>4
  <2>6. PermitExact'
    BY Zenon, <2>2, <2>3, <2>5, <1>1, <1>3, PermitKept
  <2>7. SocketsOK' /\ Moved(k, v)
    BY Zenon, <2>2, <2>3, <2>5, SocketStep
  <2>8. \A m \in Nonces : Leases(m)' = Leases(m) \ {k}
    BY <2>7, <2>2, Zenon DEF Moved
  <2>9. \A m \in Nonces : Leases(m)' = Leases(m)
    BY <2>8, <1>8, Without1
  <2>10. RegistryOK(sessions)'
    BY <2>5, <2>9, <1>6 DEF RegistryOK, Nonces
  <2> QED BY <1>9, <2>6, <2>7, <2>10
<1> QED BY <1>10, <1>11
-----------------------------------------------------------------------------
(* The end of a pump gives nothing back yet.                               *)
LEMMA EndInv ==
    ASSUME IInv, NEW k \in Sockets, End(k)
    PROVE  IInv'
<1>1. SocketsOK
  BY DEF IInv, TypeOK, SocketType, SocketsOK
<1>2. PICK s \in SocketType : s = sock[k] /\ SocketOK(s) /\ s.stage = "open"
  BY <1>1 DEF SocketsOK, End
<1>3. PICK v : v = [s EXCEPT !.stage = "ending"]
  BY Zenon
<1>4. /\ v \in SocketType /\ v.stage = "ending" /\ v.lease = s.lease
      /\ v.permit = s.permit /\ v.client = s.client /\ v.nonce = s.nonce
  BY <1>3, Zenon DEF SocketType
<1>5. SocketOK(v)
  BY <1>2, <1>4, Zenon DEF SocketOK
<1>6. sock' = [sock EXCEPT ![k] = v]
  BY <1>2, <1>3 DEF End
<1>7. PermitExact'
  BY Zenon, <1>2, <1>4, <1>5, <1>6, PermitKept DEF End
<1>8. SocketsOK' /\ Moved(k, v)
  BY Zenon, <1>4, <1>5, <1>6, SocketStep
<1>9. \A m \in Nonces : Leases(m)' = Leases(m)
  <2>1. s.lease
    BY <1>2 DEF SocketOK
  <2>2. \A m : k \in Leases(m) <=> m = s.nonce
    BY <1>2, <2>1 DEF Leases
  <2>3. \A m \in Nonces : Leases(m)' = IF m = s.nonce THEN Leases(m) \cup {k}
                                       ELSE Leases(m) \ {k}
    BY <1>4, <1>8, <2>1, Zenon DEF Moved
  <2> QED BY <2>2, <2>3
<1>10. RegistryOK(sessions)'
  BY <1>9 DEF End, IInv, RegistryOK, Nonces
<1> QED BY <1>7, <1>8, <1>10 DEF IInv, TypeOK, SocketsOK, SocketType, End

(* What is left of an ending socket: nothing, when it gave both back.      *)
LEMMA WithoutOK ==
    ASSUME NEW s \in SocketType, SocketOK(s), s.stage = "ending",
           NEW v, v = IF s.permit \/ s.lease THEN s ELSE NoSocket
    PROVE  /\ v \in SocketType /\ SocketOK(v) /\ v.permit = s.permit /\ v.lease = s.lease
           /\ s.permit => v.client = s.client
           /\ s.lease => v.nonce = s.nonce
<1>1. /\ NoSocket \in SocketType /\ SocketOK(NoSocket)
      /\ NoSocket.permit = FALSE /\ NoSocket.lease = FALSE
  <2>1. 0 \in 0..MaxWait /\ 0 \in 0..MaxNonces
    BY AdmissionAssumption
  <2> QED BY <2>1 DEF NoSocket, SocketType, SocketOK
<1>2. s.permit \in BOOLEAN /\ s.lease \in BOOLEAN
  BY DEF SocketType
<1>3. CASE s.permit \/ s.lease
  BY <1>3
<1>4. CASE ~(s.permit \/ s.lease)
  <2>1. v = NoSocket /\ s.permit = FALSE /\ s.lease = FALSE
    BY <1>2, <1>4
  <2> QED BY Zenon, <2>1, <1>1
<1> QED BY <1>3, <1>4

(* A permit is given back exactly once, to the client that took it.        *)
LEMMA DropPermitInv ==
    ASSUME IInv, NEW k \in Sockets, DropPermit(k)
    PROVE  IInv'
<1>1. SocketsOK
  BY DEF IInv, TypeOK, SocketType, SocketsOK
<1>2. PICK s \in SocketType :
          s = sock[k] /\ SocketOK(s) /\ s.stage = "ending" /\ s.permit
  BY <1>1 DEF SocketsOK, DropPermit
<1>3. PICK c \in Clients : c = s.client
  BY <1>2 DEF SocketOK
<1>4. PICK u : u = [s EXCEPT !.permit = FALSE]
  BY Zenon
<1>5. /\ u \in SocketType /\ u.permit = FALSE /\ u.lease = s.lease
      /\ u.stage = "ending" /\ u.client = s.client /\ u.nonce = s.nonce
  BY <1>2, <1>4, Zenon DEF SocketType
<1>6. SocketOK(u)
  BY <1>2, <1>5, Zenon DEF SocketOK
<1>7. PICK v : v = IF u.permit \/ u.lease THEN u ELSE NoSocket
  OBVIOUS
<1>8. /\ v \in SocketType /\ SocketOK(v) /\ v.permit = FALSE /\ v.lease = s.lease
      /\ s.lease => v.nonce = s.nonce
  BY <1>5, <1>6, <1>7, WithoutOK, Zenon
<1>9. sock' = [sock EXCEPT ![k] = v]
  BY <1>2, <1>4, <1>7 DEF DropPermit, Without
<1>10. SocketsOK' /\ Moved(k, v)
  BY Zenon, <1>8, <1>9, SocketStep
<1>11. /\ Permits' = Permits \ {k}
       /\ \A d \in Clients : PermitsOf(d)' = PermitsOf(d) \ {k}
  BY <1>8, <1>10, Zenon DEF Moved
<1>12. /\ k \in Permits /\ k \in PermitsOf(c) /\ \A d \in Clients \ {c} : k \notin PermitsOf(d)
       /\ Permits \in SUBSET Sockets /\ PermitsOf(c) \in SUBSET Sockets
  BY <1>2, <1>3 DEF Permits, PermitsOf
<1>13. /\ Cardinality(Permits') = active - 1 /\ active > 0
       /\ Cardinality(PermitsOf(c)') = perClient[c] - 1 /\ perClient[c] > 0
  <2>1. active = Cardinality(Permits) /\ perClient[c] = Cardinality(PermitsOf(c))
    BY DEF IInv, PermitExact
  <2> QED BY <2>1, <1>11, <1>12, OneLess
<1>14. /\ active' = active - 1
       /\ perClient' = [perClient EXCEPT ![c] = perClient[c] - 1]
  BY Zenon, <1>2, <1>3, <1>13 DEF DropPermit
<1>15. PermitExact'
  <2>1. \A d \in Clients \ {c} : PermitsOf(d)' = PermitsOf(d)
    BY <1>11, <1>12, Without1
  <2>2. \A d \in Clients : perClient'[d] = IF d = c THEN perClient[c] - 1 ELSE perClient[d]
    BY <1>14 DEF IInv, TypeOK
  <2>3. \A d \in Clients \ {c} : perClient'[d] = Cardinality(PermitsOf(d)')
    BY <2>1, <2>2 DEF IInv, PermitExact
  <2>4. \A d \in Clients : perClient'[d] = Cardinality(PermitsOf(d)')
    BY <2>2, <2>3, <1>13
  <2> QED BY <2>4, <1>13, <1>14 DEF PermitExact
<1>16. \A m \in Nonces : Leases(m)' = Leases(m)
  <2>1. \A m : k \in Leases(m) <=> (s.lease /\ m = s.nonce)
    BY <1>2 DEF Leases
  <2>2. \A m \in Nonces : Leases(m)' = IF s.lease /\ m = s.nonce THEN Leases(m) \cup {k}
                                       ELSE Leases(m) \ {k}
    BY <1>8, <1>10, Zenon DEF Moved
  <2> QED BY <2>1, <2>2
<1>17. RegistryOK(sessions)'
  BY <1>16 DEF DropPermit, IInv, RegistryOK, Nonces
<1>18. active' \in 0..MaxGlobal /\ perClient' \in [Clients -> 0..MaxPerClient]
  BY <1>13, <1>14, AdmissionAssumption DEF IInv, TypeOK
<1> QED
  BY <1>10, <1>15, <1>17, <1>18 DEF IInv, TypeOK, SocketsOK, SocketType, DropPermit

(* A lease is given back exactly once, to a session that is still there.   *)
Unleasing(s, n) == [s EXCEPT !.since = 0, !.ws = n]

(* Only the lease count and the age of such a session change.              *)
LEMMA UnleasingFields ==
    ASSUME NEW s \in SessionType, NEW n \in 0..MaxPerSession
    PROVE  /\ Unleasing(s, n) \in SessionType
           /\ Unleasing(s, n).ws = n /\ Unleasing(s, n).here = s.here
<1>1. 0 \in 0..Oldest
  BY AdmissionAssumption DEF Oldest
<1> QED BY <1>1, Zenon DEF SessionType, Unleasing

(* Dropping a lease keeps the counts exact.                                *)
LEMMA DropLeaseInv ==
    ASSUME IInv, NEW k \in Sockets, DropLease(k)
    PROVE  IInv'
<1>1. SocketsOK /\ RegistryOK(sessions)
  BY DEF IInv, TypeOK, SocketType, SocketsOK
<1>2. PICK s \in SocketType :
          s = sock[k] /\ SocketOK(s) /\ s.stage = "ending" /\ s.lease
  BY <1>1 DEF SocketsOK, DropLease
<1>3. PICK n \in Nonces : n = s.nonce
  BY <1>2 DEF SocketOK
<1>4. PICK u : u = [s EXCEPT !.lease = FALSE]
  BY Zenon
<1>5. /\ u \in SocketType /\ u.lease = FALSE /\ u.permit = s.permit
      /\ u.stage = "ending" /\ u.client = s.client /\ u.nonce = s.nonce
  BY <1>2, <1>4, Zenon DEF SocketType
<1>6. SocketOK(u)
  BY <1>2, <1>5, Zenon DEF SocketOK
<1>7. PICK v : v = IF u.permit \/ u.lease THEN u ELSE NoSocket
  OBVIOUS
<1>8. /\ v \in SocketType /\ SocketOK(v) /\ v.lease = FALSE /\ v.permit = s.permit
      /\ v.permit => v.client = s.client
  BY <1>5, <1>6, <1>7, WithoutOK, Zenon
<1>9. sock' = [sock EXCEPT ![k] = v]
  BY <1>2, <1>4, <1>7 DEF DropLease, Without
<1>10. SocketsOK' /\ Moved(k, v)
  BY Zenon, <1>8, <1>9, SocketStep
<1>11. PermitExact'
  BY Zenon, <1>2, <1>8, <1>9, PermitKept DEF DropLease
<1>12. \A m \in Nonces : Leases(m)' = Leases(m) \ {k}
  BY <1>8, <1>10, Zenon DEF Moved
<1>13. /\ k \in Leases(n) /\ \A m \in Nonces \ {n} : k \notin Leases(m)
       /\ Leases(n) \in SUBSET Sockets
  BY SMTT(60), <1>2, <1>3 DEF Leases
<1>14. /\ sessions[n].here /\ sessions[n].ws > 0 /\ sessions[n] \in SessionType
       /\ Cardinality(Leases(n)') = sessions[n].ws - 1
  BY SMTT(60), <1>1, <1>3, <1>12, <1>13, OneLess DEF RegistryOK
<1>15. PICK e : e = Unleasing(sessions[n], sessions[n].ws - 1)
  OBVIOUS
<1>16. e \in SessionType /\ e.ws = sessions[n].ws - 1 /\ e.here = sessions[n].here
  <2>1. sessions[n].ws - 1 \in 0..MaxPerSession
    BY <1>14, AdmissionAssumption DEF SessionType
  <2> QED BY <2>1, <1>14, <1>15, UnleasingFields, Zenon
<1>17. sessions' = [sessions EXCEPT ![n] = e]
  BY Zenon, <1>2, <1>3, <1>14, <1>15 DEF DropLease, Unleasing
<1>18. RegistryOK(sessions)'
  <2>1. sessions' \in [Nonces -> SessionType]
    BY <1>1, <1>16, <1>17 DEF RegistryOK
  <2>2. sessions'[n] = e /\ \A m \in Nonces \ {n} : sessions'[m] = sessions[m]
    BY <1>1, <1>17 DEF RegistryOK
  <2>3. /\ sessions'[n].ws = Cardinality(Leases(n)')
        /\ sessions'[n].here /\ ~(n > issued)
    BY <2>2, <1>1, <1>14, <1>16 DEF RegistryOK
  <2>4. \A m \in Nonces \ {n} : Leases(m)' = Leases(m)
    BY ZenonT(60), <1>12, <1>13, Without1
  <2>5. \A m \in Nonces \ {n} :
            /\ sessions'[m].ws = Cardinality(Leases(m)')
            /\ Leases(m)' # {} => sessions'[m].here
            /\ m > issued => ~sessions'[m].here
    BY <2>2, <2>4, <1>1 DEF RegistryOK
  <2>6. \A m \in Nonces :
            /\ sessions'[m].ws = Cardinality(Leases(m)')
            /\ Leases(m)' # {} => sessions'[m].here
            /\ m > issued => ~sessions'[m].here
    BY <2>3, <2>5
  <2>7. issued' = issued
    BY DEF DropLease
  <2> QED BY <2>1, <2>6, <2>7 DEF RegistryOK, Nonces
<1> QED
  BY Zenon, <1>10, <1>11, <1>18
     DEF IInv, TypeOK, RegistryOK, SessionType, SocketsOK, SocketType, DropLease

(* Time changes ages only.                                                 *)
LEMMA ElapseInv ==
    ASSUME IInv, Elapse
    PROVE  IInv'
<1>1. SocketsOK /\ RegistryOK(sessions)
  BY DEF IInv, TypeOK, SocketType, SocketsOK
<1>2. ASSUME NEW k \in Sockets
      PROVE  /\ sock'[k] \in SocketType /\ sock'[k].stage = sock[k].stage
             /\ sock'[k].permit = sock[k].permit /\ sock'[k].client = sock[k].client
             /\ sock'[k].lease = sock[k].lease /\ sock'[k].nonce = sock[k].nonce
  <2>1. PICK s \in SocketType : s = sock[k]
    BY <1>1 DEF SocketsOK
  <2>2. CASE k \in Reserving
    <3>1. sock'[k] = [s EXCEPT !.age = s.age + 1]
      BY <2>1, <2>2 DEF Elapse
    <3>2. s.age + 1 \in 0..MaxWait
      BY <2>1, <2>2, AdmissionAssumption DEF Elapse, SocketType
    <3> QED BY <2>1, <3>1, <3>2, Zenon DEF SocketType
  <2>3. CASE k \notin Reserving
    <3>1. sock'[k] = s
      BY <2>1, <2>3 DEF Elapse
    <3> QED BY <2>1, <3>1
  <2> QED BY <2>2, <2>3
<1>3. SocketsOK'
  <2>1. sock' \in [Sockets -> SocketType]
    BY <1>2 DEF Elapse
  <2>2. ASSUME NEW k \in Sockets PROVE SocketOK(sock'[k])
    <3>1. SocketOK(sock[k])
      BY <1>1 DEF SocketsOK
    <3> QED BY <3>1, <1>2, Zenon DEF SocketOK
  <2> QED BY <2>1, <2>2 DEF SocketsOK
<1>4. /\ Permits' = Permits /\ \A c \in Clients : PermitsOf(c)' = PermitsOf(c)
      /\ \A n \in Nonces : Leases(n)' = Leases(n)
  BY <1>2 DEF Permits, PermitsOf, Leases
<1>5. PermitExact'
  BY <1>4 DEF IInv, PermitExact, Elapse
<1>6. ASSUME NEW n \in Nonces
      PROVE  /\ sessions'[n] \in SessionType
             /\ sessions'[n].ws = sessions[n].ws /\ sessions'[n].here = sessions[n].here
  <2>1. PICK s \in SessionType : s = sessions[n]
    BY <1>1 DEF RegistryOK
  <2>2. CASE n \in Unleased(sessions) /\ sessions[n].since < Oldest
    <3>1. sessions'[n] = [s EXCEPT !.since = s.since + 1]
      BY <2>1, <2>2 DEF Elapse, Touched, Unleased
    <3>2. s.since + 1 \in 0..Oldest
      BY <2>1, <2>2, AdmissionAssumption DEF SessionType, Oldest
    <3> QED BY <2>1, <3>1, <3>2, Zenon DEF SessionType
  <2>3. CASE ~(n \in Unleased(sessions) /\ sessions[n].since < Oldest)
    <3>1. sessions'[n] = s
      BY <2>1, <2>3 DEF Elapse
    <3> QED BY <2>1, <3>1
  <2> QED BY <2>2, <2>3
<1>7. RegistryOK(sessions)'
  <2>1. sessions' \in [Nonces -> SessionType]
    BY <1>6 DEF Elapse
  <2>2. ASSUME NEW n \in Nonces
        PROVE  /\ sessions'[n].ws = Cardinality(Leases(n)')
               /\ Leases(n)' # {} => sessions'[n].here
               /\ n > issued => ~sessions'[n].here
    <3>1. /\ sessions[n].ws = Cardinality(Leases(n))
          /\ Leases(n) # {} => sessions[n].here
          /\ n > issued => ~sessions[n].here
      BY <1>1 DEF RegistryOK
    <3> QED BY <3>1, <1>4, <1>6, Zenon
  <2>3. issued' = issued
    BY DEF Elapse
  <2> QED BY <2>1, <2>2, <2>3 DEF RegistryOK, Nonces
<1>8. req' \in [Requests -> [op : {"none", "issue", "validate", "locale"},
                             nonce : 0..MaxNonces, age : 0..MaxWait]]
  <2> DEFINE R == [op : {"none", "issue", "validate", "locale"},
                   nonce : 0..MaxNonces, age : 0..MaxWait]
  <2>1. ASSUME NEW r \in Requests PROVE req'[r] \in R
    <3>1. PICK q \in R : q = req[r]
      BY DEF IInv, TypeOK
    <3>2. CASE r \in Waiting
      <4>1. req'[r] = [q EXCEPT !.age = q.age + 1]
        BY <3>1, <3>2 DEF Elapse
      <4>2. q.age + 1 \in 0..MaxWait
        BY <3>1, <3>2, AdmissionAssumption DEF Elapse
      <4> QED BY <3>1, <4>1, <4>2, Zenon
    <3>3. CASE r \notin Waiting
      BY <3>1, <3>3 DEF Elapse
    <3> QED BY <3>2, <3>3
  <2> QED BY <2>1 DEF Elapse
<1> QED
  BY <1>3, <1>5, <1>7, <1>8
     DEF IInv, TypeOK, RegistryOK, SessionType, SocketsOK, SocketType, Elapse
-----------------------------------------------------------------------------
(* Nothing is registered or open at the start.                             *)
LEMMA InitInv == Init => IInv
<1> SUFFICES ASSUME Init PROVE IInv
  OBVIOUS
<1>1. /\ 0 \in 0..MaxNonces /\ 0 \in 0..MaxWait /\ 0 \in 0..MaxGlobal
      /\ 0 \in 0..MaxPerClient /\ 0 \in 0..MaxPerSession /\ 0 \in 0..Oldest
  BY AdmissionAssumption DEF Oldest
<1>2. TypeOK
  BY <1>1 DEF Init, TypeOK, Gone, NoRequest, NoSocket
<1>3. Permits = {} /\ (\A c : PermitsOf(c) = {}) /\ (\A n : Leases(n) = {})
  BY DEF Init, NoSocket, Permits, PermitsOf, Leases
<1>4. PermitExact
  BY <1>3, FS_EmptySet DEF Init, PermitExact
<1>5. RegistryOK(sessions)
  BY Zenon, <1>1, <1>3, FS_EmptySet DEF Init, RegistryOK, SessionType, Gone
<1>6. \A k \in Sockets : SocketOK(sock[k])
  BY DEF Init, NoSocket, SocketOK
<1> QED BY <1>2, <1>4, <1>5, <1>6 DEF IInv

(* Every step keeps the invariant, one action after the other.             *)
LEMMA NextInv == IInv /\ [Next]_vars => IInv'
<1> SUFFICES ASSUME IInv, [Next]_vars PROVE IInv'
  OBVIOUS
<1>1. CASE \E r \in Requests : \E op \in {"issue", "validate", "locale"}, n \in Known :
               Sample(r, op, n)
  BY <1>1, SampleInv
<1>2. CASE \E r \in Requests : Issue(r) \/ ValidateOrRenew(r) \/ Locale(r)
  BY <1>2, IssueInv, ValidateInv, LocaleInv
<1>3. CASE \E k \in Sockets : \E c \in Clients, n \in Known : Admit(k, c, n)
  BY <1>3, AdmitInv
<1>4. CASE \E k \in Sockets : Reserve(k) \/ End(k) \/ DropPermit(k) \/ DropLease(k)
  BY <1>4, ReserveInv, EndInv, DropPermitInv, DropLeaseInv
<1>5. CASE Elapse
  BY <1>5, ElapseInv
<1>6. CASE UNCHANGED vars
  <2>1. TypeOK'
    BY <1>6 DEF vars, IInv, TypeOK
  <2>2. RegistryOK(sessions)'
    BY Zenon, <1>6 DEF vars, IInv, RegistryOK, Leases
  <2>3. PermitExact'
    BY <1>6 DEF vars, IInv, PermitExact, Permits, PermitsOf
  <2> QED BY <1>6, <2>1, <2>2, <2>3 DEF vars, IInv
<1> QED BY <1>1, <1>2, <1>3, <1>4, <1>5, <1>6 DEF Next

(* The inductive invariant holds in every reachable state.                 *)
THEOREM Invariance == Spec => []IInv
BY InitInv, NextInv, PTL DEF Spec

(* The types, in particular that no limit on sockets is ever exceeded.     *)
THEOREM TypeCorrect == Spec => []TypeOK
<1>1. IInv => TypeOK
  BY DEF IInv
<1> QED BY <1>1, Invariance, PTL

(* A leased session stays registered, and its connection count is exactly  *)
(* its leases, whatever is pruned, evicted or renewed around it.           *)
THEOREM LeasesExact == Spec => []LeaseExact
<1>1. IInv => LeaseExact
  BY DEF IInv, RegistryOK, LeaseExact
<1> QED BY <1>1, Invariance, PTL

(* The capacity gate counts exactly the sockets that hold a permit,        *)
(* globally and per client.                                                *)
THEOREM PermitsExact == Spec => []PermitExact
<1>1. IInv => PermitExact
  BY DEF IInv
<1> QED BY <1>1, Invariance, PTL

(* Issuance is refused for capacity only while MaxSessions - MaxGlobal     *)
(* sockets are being torn down: each registered session is then leased by  *)
(* a socket, and a socket that leases has a permit or is ending.           *)
THEOREM IssuanceStaysOpen == Spec => []IssuanceOpen
<1>1. IInv => IssuanceOpen
  <2> SUFFICES ASSUME IInv, Exhausted(sessions)
               PROVE  Cardinality(Ending) >= MaxSessions - MaxGlobal
    BY DEF IssuanceOpen
  <2> DEFINE L == {k \in Sockets : sock[k].lease}
             T == {sock[k].nonce : k \in L}
             f == [k \in L |-> sock[k].nonce]
  <2>1. L \subseteq Permits \cup Ending
    BY DEF IInv, SocketOK, Permits, Ending
  <2>2. Permits \in SUBSET Sockets /\ Ending \in SUBSET Sockets /\ L \in SUBSET Sockets
    BY DEF Permits, Ending
  <2>3. /\ IsFiniteSet(Permits) /\ Cardinality(Permits) \in Nat
        /\ IsFiniteSet(Ending) /\ Cardinality(Ending) \in Nat
        /\ IsFiniteSet(L) /\ Cardinality(L) \in Nat
    BY <2>2, SocketSets
  <2>4. Cardinality(L) <= Cardinality(Permits) + Cardinality(Ending)
    <3>1. IsFiniteSet(Permits \cap Ending) /\ Cardinality(Permits \cap Ending) \in Nat
      BY <2>2, SocketSets
    <3>2. /\ IsFiniteSet(Permits \cup Ending)
          /\ Cardinality(Permits \cup Ending)
               = Cardinality(Permits) + Cardinality(Ending) - Cardinality(Permits \cap Ending)
      BY Zenon, <2>3, FS_Union
    <3>3. Cardinality(L) <= Cardinality(Permits \cup Ending)
      BY SMTT(60), <2>1, <3>2, FS_Subset
    <3> QED BY <2>3, <3>1, <3>2, <3>3
  <2>5. IsFiniteSet(T) /\ Cardinality(T) \in Nat /\ Cardinality(T) <= Cardinality(L)
    <3>1. f \in Surjection(L, T)
      BY DEF Surjection
    <3> HIDE DEF f, T, L
    <3> QED BY <3>1, <2>3, FS_Surjection, FS_CardinalityType
  <2>6. Registered(sessions) \in SUBSET T
    <3> SUFFICES ASSUME NEW n \in Registered(sessions) PROVE n \in T
      OBVIOUS
    <3>1. n \in Nonces /\ sessions[n].ws # 0 /\ Leases(n) \in SUBSET Sockets
      BY DEF Exhausted, Unleased, Registered, Leases
    <3>2. Leases(n) # {}
      BY Zenon, <3>1, FS_EmptySet DEF IInv, RegistryOK
    <3> QED BY <3>2 DEF Leases
  <2>7. /\ Cardinality(Registered(sessions)) <= Cardinality(T)
        /\ Cardinality(Registered(sessions)) \in Nat
    <3> HIDE DEF T
    <3> QED BY <2>5, <2>6, FS_Subset, FS_CardinalityType
  <2>8. Cardinality(Registered(sessions)) >= MaxSessions /\ Cardinality(Permits) <= MaxGlobal
    BY AdmissionAssumption DEF Exhausted, Full, IInv, PermitExact, TypeOK
  <2> HIDE DEF T, L
  <2> QED BY <2>3, <2>4, <2>5, <2>7, <2>8, AdmissionAssumption
<1> QED BY <1>1, Invariance, PTL

(* Leases, permits and the room for new sessions are accounted for         *)
(* exactly, whatever is issued, reserved, refused, pruned or torn down.    *)
THEOREM AdmissionAlwaysExact == Spec => []AdmissionExact
<1>1. LeaseExact /\ PermitExact /\ IssuanceOpen => AdmissionExact
  BY DEF AdmissionExact
<1> QED BY <1>1, LeasesExact, PermitsExact, IssuanceStaysOpen, PTL

-----------------------------------------------------------------------------
(* The schedule of a target: its jobs                                      *)

(* The fields of a job, one by one.                                        *)
LEMMA JobFields ==
    ASSUME NEW job, IsJob(job)
    PROVE  /\ {"active", "watched", "recurring", "oneShot", "generation", "interval",
               "due", "since", "failing"} \subseteq DOMAIN job
           /\ job.active \in BOOLEAN /\ job.watched \in BOOLEAN
           /\ job.recurring \in BOOLEAN /\ job.oneShot \in BOOLEAN
           /\ job.generation \in BOOLEAN
  BY Zenon DEF IsJob, Flags

(* A new job is active.                                                    *)
LEMMA NewJobKept ==
    ASSUME NEW interval, NEW due, NEW watched \in BOOLEAN, NEW recurring \in BOOLEAN,
           NEW generation \in BOOLEAN
    PROVE  LET job == NewJob(interval, due, watched, recurring, generation)
           IN  /\ IsJob(job) /\ job.active /\ job.recurring = recurring
               /\ job.watched = watched
  <1> DEFINE job == NewJob(interval, due, watched, recurring, generation)
  <1>1. /\ DOMAIN job = {"active", "watched", "recurring", "oneShot", "generation",
                         "interval", "due", "since", "failing"}
        /\ job.active = TRUE /\ job.watched = watched /\ job.recurring = recurring
        /\ job.oneShot = ~recurring /\ job.generation = generation
    BY Zenon DEF NewJob
  <1> HIDE DEF job
  <1>2. IsJob(job)
    BY Zenon, <1>1 DEF IsJob, Flags
  <1> QED
    BY Zenon, <1>1, <1>2 DEF job

(* The policy refresh and a manual retry keep what the Catalog job owes.   *)
LEMMA UpsertKept ==
    ASSUME NEW job, IsJob(job), NEW interval
    PROVE  CatalogKept(Upsert(job, interval))
  BY SMTT(30), JobFields DEF IsJob, Flags, CatalogKept, Upsert

LEMMA RetryKept ==
    ASSUME NEW job, CatalogKept(job)
    PROVE  CatalogKept(RetryNow(job))
  BY SMTT(30), JobFields DEF IsJob, Flags, CatalogKept, RetryNow

LEMMA CatalogWatchKept ==
    ASSUME NEW job, CatalogKept(job), NEW watched \in BOOLEAN
    PROVE  CatalogKept([job EXCEPT !.watched = watched])
  BY SMTT(30), JobFields DEF IsJob, Flags, CatalogKept

(* So does what a completion makes of it.                                  *)
LEMMA FinishedCatalogKept ==
    ASSUME NEW job, CatalogKept(job), NEW due
    PROVE  CatalogKept(Finished(job, "catalog", due))
  BY SMTT(30), JobFields DEF IsJob, Flags, CatalogKept, Finished

(* The Open job stays active, recurring or told of its watch: a watch      *)
(* change, the end of a bootstrap, the adoption of a side pull, a          *)
(* completion and a request.                                               *)
LEMMA SetOpenWatchKept ==
    ASSUME NEW job, OpenKept(job), NEW watched \in BOOLEAN
    PROVE  OpenKept(SetOpenWatch(job, watched))
  <1> DEFINE told == [job EXCEPT !.watched = watched, !.interval = Effective(watched)]
             pulled == Smaller(job.due, Anchored(job, told.interval))
             due == IF job.active THEN pulled ELSE Larger(pulled, 0)
             slow == Anchored(job, told.interval)
             new == SetOpenWatch(job, watched)
  <1>1. IsJob(job) /\ (applied => job.active /\ job.recurring)
        /\ (job.watched => job.active)
    BY Zenon DEF OpenKept
  <1>2. /\ IsJob(told) /\ told.watched = watched
        /\ told.active = job.active /\ told.recurring = job.recurring
    BY SMTT(30), <1>1, JobFields DEF IsJob, Flags
  <1>3. CASE watched /\ ~job.watched
    <2>1. new = [told EXCEPT !.active = TRUE, !.due = due]
      BY Zenon, <1>3 DEF SetOpenWatch
    <2> HIDE DEF new, told, due
    <2> QED
      BY SMTT(30), <1>1, <1>2, <2>1, JobFields DEF IsJob, Flags, OpenKept, new
  <1>4. CASE ~watched /\ job.watched
    <2>1. new = [told EXCEPT !.due = slow, !.active = job.recurring \/ job.oneShot]
      BY Zenon, <1>4 DEF SetOpenWatch
    <2> HIDE DEF new, told, slow
    <2> QED
      BY SMTT(30), <1>1, <1>2, <1>4, <2>1, JobFields DEF IsJob, Flags, OpenKept, new
  <1>5. CASE ~(watched /\ ~job.watched) /\ ~(~watched /\ job.watched)
    <2>1. new = told
      BY Zenon, <1>5 DEF SetOpenWatch
    <2>2. watched => job.watched
      BY Zenon, <1>5
    <2> HIDE DEF new, told
    <2> QED
      BY SMTT(30), <1>1, <1>2, <2>1, <2>2 DEF OpenKept, new
  <1> QED
    BY Zenon, <1>3, <1>4, <1>5

LEMMA CompleteBootstrapKept ==
    ASSUME NEW job, OpenKept(job)
    PROVE  OpenKept(CompleteBootstrap(job))
  BY SMTT(30), JobFields DEF IsJob, Flags, OpenKept, CompleteBootstrap

LEMMA AdoptExternalKept ==
    ASSUME NEW job, OpenKept(job), NEW due, NEW failing
    PROVE  OpenKept(AdoptExternal(job, due, failing))
  BY SMTT(30), JobFields DEF IsJob, Flags, OpenKept, AdoptExternal

LEMMA FinishedOpenKept ==
    ASSUME NEW job, OpenKept(job), NEW due
    PROVE  OpenKept(Finished(job, "open", due))
  BY SMTT(30), JobFields DEF IsJob, Flags, OpenKept, Finished

LEMMA RequestOpenDueKept ==
    ASSUME NEW job, OpenKept(job)
    PROVE  OpenKept(RequestOpenDue(job))
  BY SMTT(30), JobFields DEF IsJob, Flags, OpenKept, RequestOpenDue

(* Neither job minds its instants and its failures.                        *)
LEMMA TimesKept ==
    ASSUME NEW job, NEW x, NEW y
    PROVE  /\ CatalogKept(job) =>
                /\ CatalogKept([job EXCEPT !.since = x])
                /\ CatalogKept([job EXCEPT !.failing = x])
                /\ CatalogKept([job EXCEPT !.due = x])
           /\ OpenKept(job) =>
                /\ OpenKept([job EXCEPT !.since = x])
                /\ OpenKept([job EXCEPT !.failing = x])
                /\ OpenKept([job EXCEPT !.due = x])
  BY SMTT(30), JobFields DEF IsJob, Flags, CatalogKept, OpenKept

-----------------------------------------------------------------------------
(* The two jobs together                                                   *)

(* One of the jobs is replaced.                                            *)
LEMMA OneJobKept ==
    ASSUME NEW s, JobsKept(s), NEW job
    PROVE  /\ CatalogKept(job) => JobsKept([s EXCEPT !.catalog = job])
           /\ CatalogKept(job) => JobsKept([s EXCEPT !["catalog"] = job])
           /\ OpenKept(job) => JobsKept([s EXCEPT !.open = job])
  BY SMTT(30) DEF JobsKept, Kinds

LEMMA BothJobsKept ==
    ASSUME NEW c, CatalogKept(c), NEW o, OpenKept(o)
    PROVE  JobsKept([catalog |-> c, open |-> o])
  BY SMTT(30) DEF JobsKept, Kinds

(* The refresh of the policy.                                              *)
LEMMA RefreshedKept ==
    ASSUME ScheduleInv
    PROVE  JobsKept(Refreshed(jobs))
  <1> DEFINE c == IF applied THEN Upsert(jobs.catalog, Catalog)
                  ELSE IF ~manual THEN Upsert(jobs.catalog, Maintenance)
                  ELSE jobs.catalog
  <1>1. CatalogKept(jobs.catalog) /\ IsJob(jobs.catalog) /\ OpenKept(jobs.open)
    BY Zenon DEF ScheduleInv, JobsKept, CatalogKept
  <1>2. watch \in BOOLEAN
    BY Zenon DEF ScheduleInv
  <1>3. CatalogKept(c)
    BY Zenon, <1>1, UpsertKept
  <1> HIDE DEF c
  <1>4. CatalogKept([c EXCEPT !.watched = watch]) /\ OpenKept(SetOpenWatch(jobs.open, watch))
    BY Zenon, <1>1, <1>2, <1>3, CatalogWatchKept, SetOpenWatchKept
  <1> QED
    BY Zenon, <1>4, BothJobsKept DEF Refreshed, c

(* A side pull that is adopted.                                            *)
LEMMA SettleKept ==
    ASSUME NEW after, JobsKept(after), NEW published, Settle(after, published)
    PROVE  JobsKept(jobs')
  <1>1. CASE flight.side /\ ~published
    <2>1. PICK due \in 0 .. Watched, failing \in BOOLEAN :
            jobs' = [after EXCEPT !.open = AdoptExternal(@, due, failing)]
      BY Zenon, <1>1 DEF Settle
    <2>2. OpenKept(AdoptExternal(after.open, due, failing))
      BY Zenon, AdoptExternalKept DEF JobsKept
    <2> QED
      BY Zenon, <2>1, <2>2, OneJobKept
  <1>2. CASE ~(flight.side /\ ~published)
    BY Zenon, <1>2 DEF Settle
  <1> QED
    BY Zenon, <1>1, <1>2

(* What was kept is kept while demand and mode stay.                       *)
LEMMA StillKept ==
    ASSUME ScheduleInv, JobsKept(jobs'), UNCHANGED <<manual, applied>>,
           watch' \in BOOLEAN, flight' # Idle => flight'.kind \in Kinds
    PROVE  ScheduleInv'
  <1>1. JobsKept(jobs)'
    BY Zenon DEF JobsKept, CatalogKept, OpenKept, IsJob, Kinds
  <1> QED
    BY Zenon, <1>1 DEF ScheduleInv, Idle, Kinds

-----------------------------------------------------------------------------
(* The inductive invariant of the schedule                                 *)

(* Registration establishes it.                                            *)
LEMMA ScheduleInitInv ==
    ASSUME ScheduleInit
    PROVE  ScheduleInv
  <1>1. PICK ready \in BOOLEAN, asManual \in BOOLEAN, watched \in BOOLEAN :
            /\ jobs = [catalog |-> RegisteredCatalog(ready, asManual, watched),
                       open |-> RegisteredOpen(ready, watched)]
            /\ manual = (asManual /\ ~ready) /\ watch = watched
            /\ applied = FALSE /\ flight = Idle
    BY Zenon DEF ScheduleInit
  <1>2. CatalogKept(RegisteredCatalog(ready, asManual, watched))
    <2> DEFINE job == RegisteredCatalog(ready, asManual, watched)
    <2>1. IsJob(job) /\ job.active /\ (~manual => job.recurring)
      <3>1. CASE ready
        BY Zenon, <3>1, NewJobKept DEF RegisteredCatalog
      <3>2. CASE ~ready
        BY Zenon, <1>1, <3>2, NewJobKept DEF RegisteredCatalog
      <3> QED
        BY Zenon, <3>1, <3>2
    <2> HIDE DEF job
    <2> QED
      BY Zenon, <1>1, <2>1 DEF CatalogKept, job
  <1>3. OpenKept(RegisteredOpen(ready, watched))
    <2> DEFINE fresh == NewJob(Effective(watched), Maintenance, watched, FALSE, TRUE)
    <2>1. IsJob(fresh) /\ fresh.active
      BY Zenon, NewJobKept
    <2> HIDE DEF fresh
    <2>2. OpenKept(fresh)
      BY Zenon, <1>1, <2>1 DEF OpenKept
    <2>3. OpenKept(CompleteBootstrap(fresh))
      BY Zenon, <2>2, CompleteBootstrapKept
    <2> QED
      BY Zenon, <2>2, <2>3 DEF RegisteredOpen, fresh
  <1>4. JobsKept(jobs)
    BY Zenon, <1>1, <1>2, <1>3, BothJobsKept
  <1> QED
    BY Zenon, <1>1, <1>4 DEF ScheduleInv

(* Demand and mode: what an applied target and one outside the manual mode *)
(* need is set up by the step that makes it so.                            *)
LEMMA DemandKept ==
    ASSUME ScheduleInv, ActivateTarget \/ ReleaseTarget \/ SetManual
    PROVE  ScheduleInv'
  <1> DEFINE c == jobs.catalog
             o == jobs.open
  <1>1. /\ IsJob(c) /\ IsJob(o)
        /\ c.generation \/ c.oneShot => c.active
        /\ ~manual \/ applied => c.active /\ c.recurring
        /\ o.watched => o.active
        /\ applied => o.active /\ o.recurring
        /\ DOMAIN jobs = Kinds
    BY Zenon DEF ScheduleInv, JobsKept, CatalogKept, OpenKept
  <1>2. /\ manual \in BOOLEAN /\ applied \in BOOLEAN /\ watch \in BOOLEAN
        /\ flight' = flight /\ watch' = watch /\ flight = Idle
    BY Zenon DEF ScheduleInv, ActivateTarget, ReleaseTarget, SetManual, Change
  <1> SUFFICES manual' \in BOOLEAN /\ applied' \in BOOLEAN /\ JobsKept(jobs)'
    BY Zenon, <1>2 DEF ScheduleInv
  <1>3. \A interval : LET job == ActivateCatalog(c, interval)
                      IN  IsJob(job) /\ job.active /\ job.recurring
    BY SMTT(30), <1>1, JobFields DEF IsJob, Flags, ActivateCatalog
  <1>4. LET job == MaintainCatalog(c) IN IsJob(job) /\ job.active /\ job.recurring
    BY SMTT(30), <1>1, JobFields DEF IsJob, Flags, MaintainCatalog
  <1>5. LET job == ParkCatalog(c)
        IN  IsJob(job) /\ (job.generation \/ job.oneShot => job.active)
    BY SMTT(30), <1>1, JobFields DEF IsJob, Flags, ParkCatalog
  <1>6. LET job == ActivateOpen(o) IN IsJob(job) /\ job.active /\ job.recurring
    BY SMTT(30), <1>1, JobFields DEF IsJob, Flags, ActivateOpen
  <1>7. LET job == DemoteOpen(o, watch) IN IsJob(job) /\ (job.watched => job.active)
    <2> DEFINE told == [o EXCEPT !.watched = watch, !.interval = Effective(watch)]
    <2>1. IsJob(told) /\ told.watched = watch
      BY SMTT(30), <1>1, <1>2, JobFields DEF IsJob, Flags
    <2>2. DemoteOpen(o, watch) =
            IF watch
            THEN [told EXCEPT !.active = TRUE, !.recurring = TRUE, !.due = Larger(@, 0)]
            ELSE [told EXCEPT !.recurring = FALSE, !.active = o.oneShot]
      BY Zenon DEF DemoteOpen
    <2>3. o.oneShot \in BOOLEAN
      BY Zenon, <1>1, JobFields
    <2> HIDE DEF told
    <2>4. CASE watch
      <3> DEFINE new == [told EXCEPT !.active = TRUE, !.recurring = TRUE, !.due = Larger(@, 0)]
      <3>1. IsJob(new) /\ new.active = TRUE
        BY SMTT(30), <2>1, JobFields DEF IsJob, Flags
      <3>2. DemoteOpen(o, watch) = new
        BY Zenon, <2>2, <2>4
      <3> QED
        BY Zenon, <3>1, <3>2
    <2>5. CASE ~watch
      BY SMTT(30), <2>1, <2>2, <2>3, <2>5, JobFields DEF IsJob, Flags
    <2> QED
      BY Zenon, <1>2, <2>4, <2>5
  <1> HIDE DEF c, o
  <1>8. CASE ActivateTarget
    <2>1. /\ jobs' = [catalog |-> ActivateCatalog(c, Catalog), open |-> ActivateOpen(o)]
          /\ applied' = TRUE /\ manual' = manual
      BY Zenon, <1>8 DEF ActivateTarget, c, o
    <2>2. CatalogKept(jobs.catalog)' /\ OpenKept(jobs.open)' /\ DOMAIN jobs' = Kinds
      BY Zenon, <1>3, <1>6, <2>1 DEF CatalogKept, OpenKept, IsJob, Kinds
    <2> QED
      BY Zenon, <1>2, <2>1, <2>2 DEF JobsKept, Kinds
  <1>9. CASE ReleaseTarget
    <2>1. /\ jobs' = [catalog |-> IF manual THEN ParkCatalog(c) ELSE MaintainCatalog(c),
                      open |-> DemoteOpen(o, watch)]
          /\ applied' = FALSE /\ manual' = manual
      BY Zenon, <1>9 DEF ReleaseTarget, c, o
    <2>2. CatalogKept(jobs.catalog)' /\ OpenKept(jobs.open)' /\ DOMAIN jobs' = Kinds
      BY Zenon, <1>4, <1>5, <1>7, <2>1 DEF CatalogKept, OpenKept, IsJob, Kinds
    <2> QED
      BY Zenon, <1>2, <2>1, <2>2 DEF JobsKept, Kinds
  <1>10. CASE SetManual /\ applied
    <2>1. jobs' = jobs /\ manual' = ~manual /\ applied' = applied
      BY Zenon, <1>10 DEF SetManual
    <2>2. CatalogKept(jobs.catalog)' /\ OpenKept(jobs.open)'
      BY Zenon, <1>1, <1>10, <2>1 DEF CatalogKept, OpenKept, IsJob, c, o
    <2> QED
      BY Zenon, <1>1, <1>2, <2>1, <2>2 DEF JobsKept, Kinds
  <1>11. CASE SetManual /\ ~applied
    <2>1. /\ jobs' = [catalog |-> IF ~manual THEN ParkCatalog(c)
                                  ELSE ActivateCatalog(c, Maintenance),
                      open |-> DemoteOpen(o, watch)]
          /\ manual' = ~manual /\ applied' = applied
      BY Zenon, <1>11 DEF SetManual, c, o
    <2>2. CatalogKept(jobs.catalog)' /\ OpenKept(jobs.open)' /\ DOMAIN jobs' = Kinds
      BY Zenon, <1>3, <1>5, <1>7, <1>11, <2>1 DEF CatalogKept, OpenKept, IsJob, Kinds
    <2> QED
      BY Zenon, <1>2, <2>1, <2>2 DEF JobsKept, Kinds
  <1> QED
    BY Zenon, <1>8, <1>9, <1>10, <1>11

(* Completions: whichever workflow ends, and however it ends.              *)
LEMMA FinishKept ==
    ASSUME ScheduleInv, Finish
    PROVE  ScheduleInv'
  <1>1. /\ JobsKept(jobs) /\ CatalogKept(jobs.catalog) /\ OpenKept(jobs.open)
        /\ watch \in BOOLEAN
    BY Zenon DEF ScheduleInv, JobsKept
  <1>2. flight # Idle /\ flight' = Idle /\ UNCHANGED <<manual, applied, watch>>
    BY Zenon DEF Finish, FinishSuccess, FinishRace, FinishRetry
  <1>3. flight.kind = "catalog" \/ flight.kind = "open"
    BY Zenon, <1>2 DEF ScheduleInv, Kinds
  <1> SUFFICES JobsKept(jobs')
    BY Zenon, <1>1, <1>2, StillKept
  <1>4. CASE FinishSuccess
    <2> DEFINE booted(p) == IF p THEN [jobs EXCEPT !.open = CompleteBootstrap(@)] ELSE jobs
    <2>1. PICK published \in BOOLEAN :
            Settle([booted(published) EXCEPT ![flight.kind] =
                        Finished(@, flight.kind, flight.due)], published)
      BY Zenon, <1>4 DEF FinishSuccess
    <2>2. JobsKept(booted(published))
      BY Zenon, <1>1, CompleteBootstrapKept, OneJobKept
    <2> DEFINE s == booted(published)
    <2> HIDE DEF booted
    <2>3. CatalogKept(s.catalog) /\ OpenKept(s.open)
      BY Zenon, <2>2 DEF JobsKept
    <2>4. JobsKept([s EXCEPT ![flight.kind] = Finished(@, flight.kind, flight.due)])
      <3>1. CASE flight.kind = "catalog"
        BY Zenon, <3>1, <2>2, <2>3, FinishedCatalogKept, OneJobKept
      <3>2. CASE flight.kind = "open"
        BY Zenon, <3>2, <2>2, <2>3, FinishedOpenKept, OneJobKept
      <3> QED
        BY Zenon, <1>3, <3>1, <3>2
    <2> QED
      BY Zenon, <2>1, <2>4, SettleKept
  <1>5. CASE FinishRace
    <2> DEFINE late == FirstFutureDue(flight.due, jobs.open.interval)
               raced == [jobs.open EXCEPT !.failing = FALSE, !.due = late]
    <2>1. OpenKept(raced)
      BY SMTT(30), <1>1, JobFields DEF IsJob, Flags, OpenKept
    <2>2. OpenKept(RequestOpenDue(raced))
      BY Zenon, <2>1, RequestOpenDueKept
    <2>3. jobs' = [jobs EXCEPT !.open =
                     IF ~raced.active \/ raced.due > 0 THEN RequestOpenDue(raced) ELSE raced]
      BY Zenon, <1>5 DEF FinishRace
    <2> HIDE DEF raced
    <2> QED
      BY Zenon, <1>1, <2>1, <2>2, <2>3, OneJobKept
  <1>6. CASE FinishRetry
    <2>1. PICK delay \in Delays :
            Settle([jobs EXCEPT ![flight.kind].failing = TRUE,
                                ![flight.kind].due = delay], FALSE)
      BY Zenon, <1>6 DEF FinishRetry
    <2> DEFINE failed(job) == [[job EXCEPT !.failing = TRUE] EXCEPT !.due = delay]
               after == [jobs EXCEPT ![flight.kind].failing = TRUE,
                                     ![flight.kind].due = delay]
    <2>2. CatalogKept(failed(jobs.catalog)) /\ OpenKept(failed(jobs.open))
      BY Zenon, <1>1, TimesKept
    <2>3. CASE flight.kind = "catalog"
      <3>1. after = [jobs EXCEPT !.catalog = failed(jobs.catalog)]
        BY Zenon, <1>1, <2>3 DEF JobsKept, Kinds
      <3> QED
        BY Zenon, <1>1, <2>1, <2>2, <3>1, OneJobKept, SettleKept
    <2>4. CASE flight.kind = "open"
      <3>1. after = [jobs EXCEPT !.open = failed(jobs.open)]
        BY Zenon, <1>1, <2>4 DEF JobsKept, Kinds
      <3> QED
        BY Zenon, <1>1, <2>1, <2>2, <3>1, OneJobKept, SettleKept
    <2> QED
      BY Zenon, <1>3, <2>3, <2>4
  <1> QED
    BY Zenon, <1>4, <1>5, <1>6 DEF Finish

(* Time.                                                                   *)
LEMMA TickKept ==
    ASSUME ScheduleInv, Tick
    PROVE  ScheduleInv'
  <1> DEFINE late(job) == [job EXCEPT !.due = @ - 1,
                    !.since = IF @ = Never THEN @ ELSE Smaller(@ + 1, Maintenance)]
  <1>1. \A job : (CatalogKept(job) => CatalogKept(late(job))) /\ (OpenKept(job) => OpenKept(late(job)))
    BY SMTT(30), JobFields DEF IsJob, Flags, CatalogKept, OpenKept
  <1>2. /\ CatalogKept(jobs.catalog) /\ OpenKept(jobs.open) /\ watch \in BOOLEAN
        /\ flight # Idle => flight.kind \in Kinds
    BY Zenon DEF ScheduleInv, JobsKept
  <1>3. jobs' = [kind \in Kinds |-> late(jobs[kind])] /\ UNCHANGED <<flight, manual, applied, watch>>
    BY Zenon DEF Tick
  <1> HIDE DEF late
  <1>4. DOMAIN jobs' = Kinds /\ jobs'.catalog = late(jobs.catalog) /\ jobs'.open = late(jobs.open)
    BY Zenon, <1>3 DEF Kinds
  <1>5. JobsKept(jobs')
    BY Zenon, <1>1, <1>2, <1>4 DEF JobsKept
  <1> QED
    BY Zenon, <1>2, <1>3, <1>5, StillKept

(* Every step keeps it.                                                    *)
LEMMA ScheduleStepInv ==
    ASSUME ScheduleInv, [ScheduleNext]_scheduleVars
    PROVE  ScheduleInv'
  <1>1. /\ JobsKept(jobs) /\ CatalogKept(jobs.catalog) /\ OpenKept(jobs.open)
        /\ watch \in BOOLEAN /\ (flight # Idle => flight.kind \in Kinds)
    BY Zenon DEF ScheduleInv, JobsKept
  <1>2. CASE ActivateTarget \/ ReleaseTarget \/ SetManual
    BY Zenon, <1>2, DemandKept
  <1>3. CASE ManualRetry
    <2>1. JobsKept([jobs EXCEPT !.catalog = RetryNow(jobs.catalog)])
      BY Zenon, <1>1, RetryKept, OneJobKept
    <2> QED
      BY Zenon, <1>1, <1>3, <2>1, StillKept DEF ManualRetry
  <1>4. CASE ChangeWatch
    BY Zenon, <1>1, <1>4, StillKept DEF ChangeWatch
  <1>5. CASE Poll
    BY Zenon, <1>1, <1>5, RefreshedKept, StillKept DEF Poll
  <1>6. CASE StartNext
    <2>1. PICK kind \in Kinds :
            /\ flight' = [kind |-> kind, due |-> jobs[kind].due,
                          side |-> kind = "catalog" /\ jobs.open.watched /\ jobs.open.active]
            /\ jobs' = [jobs EXCEPT ![kind].since = 0]
      BY Zenon, <1>6 DEF StartNext
    <2>2. CatalogKept([jobs.catalog EXCEPT !.since = 0]) /\ OpenKept([jobs.open EXCEPT !.since = 0])
      BY Zenon, <1>1, TimesKept
    <2>3. JobsKept(jobs')
      BY Zenon, <1>1, <2>1, <2>2, OneJobKept DEF Kinds
    <2>4. flight'.kind \in Kinds
      BY Zenon, <2>1
    <2> QED
      BY Zenon, <1>1, <1>6, <2>3, <2>4, StillKept DEF StartNext
  <1>7. CASE Finish
    BY Zenon, <1>7, FinishKept
  <1>8. CASE Tick
    BY Zenon, <1>8, TickKept
  <1>9. CASE UNCHANGED scheduleVars
    BY Zenon, <1>1, <1>9, StillKept DEF scheduleVars
  <1> QED
    BY Zenon, <1>2, <1>3, <1>4, <1>5, <1>6, <1>7, <1>8, <1>9 DEF ScheduleNext, Finish

(* A policy refresh that changes nothing has told the Open job of the      *)
(* watch.                                                                  *)
LEMMA ScheduleInvSuffices ==
    ASSUME ScheduleInv
    PROVE  NothingForgotten
  <1>1. /\ CatalogKept(jobs.catalog) /\ OpenKept(jobs.open)
        /\ watch \in BOOLEAN
    BY Zenon DEF ScheduleInv, JobsKept
  <1>2. SetOpenWatch(jobs.open, watch).watched = watch
    BY SMTT(30), <1>1, JobFields DEF IsJob, Flags, OpenKept, SetOpenWatch
  <1>3. Refreshed(jobs).open = SetOpenWatch(jobs.open, watch)
    BY Zenon DEF Refreshed
  <1>4. watch /\ Refreshed(jobs) = jobs => jobs.open.active
    BY Zenon, <1>1, <1>2, <1>3 DEF OpenKept
  <1> QED
    BY Zenon, <1>1, <1>4 DEF NothingForgotten, CatalogKept, OpenKept

(* Work is never forgotten: whatever the order of demand, mode and watch   *)
(* changes, polls, dispatches and completions, a target outside the manual *)
(* mode and one that owes work keep an active Catalog job, and an applied  *)
(* or a watched target keeps an active Open job.                           *)
THEOREM NothingEverForgotten == ScheduleSpec => []NothingForgotten
  <1>1. ScheduleInit => ScheduleInv
    BY Zenon, ScheduleInitInv
  <1>2. ScheduleInv /\ [ScheduleNext]_scheduleVars => ScheduleInv'
    BY Zenon, ScheduleStepInv
  <1>3. ScheduleInv => NothingForgotten
    BY Zenon, ScheduleInvSuffices
  <1> QED
    BY <1>1, <1>2, <1>3, PTL DEF ScheduleSpec
=============================================================================
