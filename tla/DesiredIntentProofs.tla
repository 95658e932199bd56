------------------------ MODULE DesiredIntentProofs -------------------------
(***************************************************************************)
(* The desired-watch authority implements the ledger of intents            *)
(* (IntentRefined), for every value of the constants: the initial states   *)
(* map to initial states, and every step under AInv maps to a step of the  *)
(* ledger or to none.                                                      *)
(***************************************************************************)
EXTENDS DesiredWatchProofs

-----------------------------------------------------------------------------
(* The refinement: what the ledger of intents sees of an authority.        *)
IntentOf(a) == [s \in Sections |-> a.rows[s].policy]
OpenOf(a, R) == {r \in R : r.generation = a.generation /\ StaleItems(a, r.items) = {}}
AnswersOf(a) == {[id |-> r.id, outcome |-> r.outcome] : r \in a.receipts}

(* A command sent is an offer: its reading is current.                     *)
LEMMA SentOffers ==
    ASSUME NEW r, Sent(r)
    PROVE  Ledger!Offer
  <1>1. /\ store' = store /\ requests' = requests \cup {r}
        /\ r.generation = store.generation /\ StaleItems(store, r.items) = {}
    BY SMTT(60) DEF Sent
  <1>2. OpenOf(store', requests') = OpenOf(store, requests) \cup {r}
    BY SMTT(60), <1>1 DEF OpenOf
  <1>3. /\ IntentOf(store') = IntentOf(store) /\ AnswersOf(store') = AnswersOf(store)
    BY <1>1
  <1> QED
    BY Zenon, <1>2, <1>3 DEF Ledger!Offer, OpenOf, IntentOf, AnswersOf

(* An id without a receipt is unanswered.                                  *)
LEMMA UnusedUnanswered ==
    ASSUME NEW id, Unused(store, id)
    PROVE  Ledger!Unanswered(id)
  BY DEF Unused, Ledger!Unanswered

(* A receipt adds one answer.                                              *)
LEMMA AnswerAdded ==
    ASSUME NEW a, NEW v, NEW kind, NEW id, NEW items, NEW outcome,
           v.receipts = a.receipts \cup {Receipt(kind, id, items, outcome)}
    PROVE  AnswersOf(v) = AnswersOf(a) \cup {[id |-> id, outcome |-> outcome]}
  <1> DEFINE x == Receipt(kind, id, items, outcome)
  <1>1. x.id = id /\ x.outcome = outcome
    BY DEF Receipt
  <1> HIDE DEF x
  <1>2. v.receipts = a.receipts \cup {x}
    BY DEF x
  <1> QED
    BY <1>1, <1>2, ZenonT(60) DEF AnswersOf

(* A write changes the rows it names and nothing else.                     *)
LEMMA WrittenFrame ==
    ASSUME NEW a, AuthorityOK(a), NEW items, WellFormed(items)
    PROVE  /\ AuthorityOK(Written(a, items))
           /\ Written(a, items).generation = a.generation
           /\ Written(a, items).receipts = a.receipts
           /\ \A i \in DOMAIN items :
                 /\ Written(a, items).rows[items[i].section].policy = items[i].policy
                 /\ Written(a, items).rows[items[i].section].revision = a.revisions + i
           /\ \A s \in Sections : (\A i \in DOMAIN items : items[i].section # s)
                                      => Written(a, items).rows[s] = a.rows[s]
  BY WrittenRows, WrittenOK

(* A receipt leaves the rows alone.                                        *)
LEMMA ReceiptKept ==
    ASSUME NEW a, AuthorityOK(a), NEW kind \in {"single", "batch"}, NEW id \in Ids,
           NEW items \in Seq(CommandItems),
           NEW outcome \in {"committed", "stale_revision", "limit"},
           Cardinality(a.receipts) < MaxReceipts,
           NEW v, v = WithReceipt(a, kind, id, items, outcome)
    PROVE  /\ v.generation = a.generation /\ v.rows = a.rows
           /\ v.receipts = a.receipts \cup {Receipt(kind, id, items, outcome)}
  BY ReceiptFrame

(* A receipt of a refusal is a refusal of the ledger.                      *)
LEMMA RefusalRefuses ==
    ASSUME AInv, NEW r \in requests, requests' = requests,
           Unused(store, r.id), Cardinality(store.receipts) < MaxReceipts, Refusal(r, store')
    PROVE  \E a \in AnswersOf(store') : Ledger!Refuse(a)
  <1>1. /\ AuthorityOK(store) /\ r \in Requests /\ r.id \in Ids
        /\ r.items \in Seq(CommandItems)
    BY DEF AInv, RequestOK, Requests
  <1>2. PICK kind \in {"single", "batch"}, outcome \in {"stale_revision", "limit"} :
            store' = WithReceipt(store, kind, r.id, r.items, outcome)
    BY SMTT(60) DEF Refusal
  <1>3. /\ store'.generation = store.generation /\ store'.rows = store.rows
        /\ store'.receipts = store.receipts \cup {Receipt(kind, r.id, r.items, outcome)}
    BY <1>1, <1>2, ReceiptKept
  <1> DEFINE a == [id |-> r.id, outcome |-> outcome]
  <1>4. AnswersOf(store') = AnswersOf(store) \cup {a}
    <2>1. \A v : v.receipts = store.receipts \cup {Receipt(kind, r.id, r.items, outcome)}
                 => AnswersOf(v) = AnswersOf(store) \cup {[id |-> r.id, outcome |-> outcome]}
      BY AnswerAdded
    <2> QED
      BY Zenon, <1>3, <2>1
  <1>5. /\ IntentOf(store') = IntentOf(store)
        /\ OpenOf(store', requests') = OpenOf(store, requests)
    BY SMTT(60), <1>3 DEF IntentOf, OpenOf, StaleItems
  <1>6. /\ Ledger!Unanswered(a.id) /\ a.outcome \in {"stale_revision", "limit"}
    BY SMTT(60), UnusedUnanswered
  <1> HIDE DEF a
  <1>7. Ledger!Refuse(a)
    BY SMTT(60), <1>4, <1>5, <1>6 DEF Ledger!Refuse, IntentOf, OpenOf, AnswersOf
  <1> QED
    BY SMTT(60), <1>4, <1>7

(* The sections a command touches, and what it asks for each.              *)
LEMMA CommandTouches ==
    ASSUME NEW c \in Requests, WellFormed(c.items)
    PROVE  /\ Ledger!Touches(c) = {c.items[i].section : i \in DOMAIN c.items}
           /\ \A i \in DOMAIN c.items :
                 Ledger!Asked(c, c.items[i].section) = c.items[i].policy
  <1>1. Ledger!Items(c) = {c.items[i] : i \in DOMAIN c.items}
    BY DEF Ledger!Items
  <1>2. Ledger!Touches(c) = {c.items[i].section : i \in DOMAIN c.items}
    BY <1>1, Zenon DEF Ledger!Touches
  <1>3. ASSUME NEW i \in DOMAIN c.items
        PROVE  Ledger!Asked(c, c.items[i].section) = c.items[i].policy
    <2> DEFINE s == c.items[i].section
               x == CHOOSE item \in Ledger!Items(c) : item.section = s
    <2>1. c.items[i] \in Ledger!Items(c) /\ c.items[i].section = s
      BY <1>1
    <2>2. x \in Ledger!Items(c) /\ x.section = s
      BY <2>1, Zenon
    <2> HIDE DEF x
    <2>3. PICK j \in DOMAIN c.items : x = c.items[j]
      BY SMTT(60), <1>1, <2>2
    <2>4. j = i
      BY <2>2, <2>3 DEF WellFormed
    <2>5. Ledger!Asked(c, s) = x.policy
      BY Zenon DEF Ledger!Asked, x
    <2> QED
      BY SMTT(60), <2>3, <2>4, <2>5
  <1> QED
    BY SMTT(60), <1>2, <1>3

(* A commit takes effect: every section the command touches gets what it   *)
(* asks, and every other reading of those sections goes stale.             *)
LEMMA CommitTakes ==
    ASSUME AInv, NEW r \in requests, requests' = requests,
           Unused(store, r.id), Cardinality(store.receipts) < MaxReceipts, Commit(r, store')
    PROVE  r \in OpenOf(store, requests) /\ Ledger!Take(r)
  <1>1. /\ AuthorityOK(store) /\ r \in Requests /\ r.id \in Ids
        /\ r.items \in Seq(CommandItems) /\ WellFormed(r.items)
    BY SMTT(60) DEF AInv, RequestOK, Requests
  <1>2. r \in OpenOf(store, requests)
    BY SMTT(60) DEF Commit, OpenOf
  <1> DEFINE u == Written(store, r.items)
  <1>3. PICK kind \in {"single", "batch"} :
            store' = WithReceipt(u, kind, r.id, r.items, "committed")
    BY SMTT(60) DEF Commit
  <1>4. /\ AuthorityOK(u)
        /\ u.generation = store.generation /\ u.receipts = store.receipts
        /\ \A i \in DOMAIN r.items :
              /\ u.rows[r.items[i].section].policy = r.items[i].policy
              /\ u.rows[r.items[i].section].revision = store.revisions + i
        /\ \A s \in Sections : (\A i \in DOMAIN r.items : r.items[i].section # s)
                                   => u.rows[s] = store.rows[s]
    BY <1>1, WrittenFrame
  <1> HIDE DEF u
  <1>5. /\ store'.generation = store.generation /\ store'.rows = u.rows
        /\ store'.receipts = store.receipts
                             \cup {Receipt(kind, r.id, r.items, "committed")}
    <2>1. Cardinality(u.receipts) < MaxReceipts
      BY Zenon, <1>4
    <2>2. /\ store'.generation = u.generation /\ store'.rows = u.rows
          /\ store'.receipts = u.receipts \cup {Receipt(kind, r.id, r.items, "committed")}
      BY <1>1, <1>3, <1>4, <2>1, ReceiptKept
    <2> QED
      BY Zenon, <1>4, <2>2
  <1>6. AnswersOf(store') = AnswersOf(store) \cup {[id |-> r.id, outcome |-> "committed"]}
    BY <1>5, AnswerAdded
  <1> DEFINE T == {r.items[i].section : i \in DOMAIN r.items}
  <1>7. /\ Ledger!Touches(r) = T
        /\ \A i \in DOMAIN r.items :
              Ledger!Asked(r, r.items[i].section) = r.items[i].policy
    BY Zenon, <1>1, CommandTouches
  <1>8. IntentOf(store') = [s \in Sections |-> IF s \in Ledger!Touches(r)
                                               THEN Ledger!Asked(r, s)
                                               ELSE IntentOf(store)[s]]
    <2>1. ASSUME NEW s \in Sections
          PROVE  store'.rows[s].policy = IF s \in T THEN Ledger!Asked(r, s)
                                         ELSE store.rows[s].policy
      <3>1. CASE s \in T
        <4>1. PICK i \in DOMAIN r.items : s = r.items[i].section
          BY <3>1
        <4> QED
          BY ZenonT(60), <1>4, <1>5, <1>7, <3>1, <4>1
      <3>2. CASE s \notin T
        BY Zenon, <1>4, <1>5, <3>2
      <3> QED
        BY Zenon, <3>1, <3>2
    <2> HIDE DEF T
    <2> QED
      BY <1>7, <2>1 DEF IntentOf
  <1>9. ASSUME NEW c \in requests
        PROVE  c \in OpenOf(store', requests) <=>
                  c \in OpenOf(store, requests) /\ Ledger!Touches(c) \cap T = {}
    <2>1. /\ c \in Requests /\ WellFormed(c.items)
          /\ c.generation = store.generation =>
                 \A i \in DOMAIN c.items : c.items[i].base <= store.revisions
      BY SMTT(60) DEF AInv, RequestOK
    <2>2. /\ Ledger!Touches(c) = {c.items[i].section : i \in DOMAIN c.items}
      BY SMTT(60), <2>1, CommandTouches
    <2>3. \A i \in DOMAIN c.items : c.items[i] \in CommandItems
      BY SMTT(60), <2>1 DEF WellFormed
    <2>4. \A i \in DOMAIN c.items : /\ c.items[i].section \in Sections
                                    /\ c.items[i].base \in Nat
      BY SMTT(60), <2>3 DEF CommandItems
    <2>5. ASSUME NEW i \in DOMAIN c.items, c.items[i].section \notin T
          PROVE  store'.rows[c.items[i].section] = store.rows[c.items[i].section]
      <3>1. \A j \in DOMAIN r.items : r.items[j].section # c.items[i].section
        BY Zenon, <2>5
      <3> QED
        BY ZenonT(60), <1>4, <1>5, <2>4, <3>1
    <2>6. ASSUME NEW i \in DOMAIN c.items, c.items[i].section \in T,
                 c.generation = store.generation
          PROVE  c.items[i].base # store'.rows[c.items[i].section].revision
      <3>1. PICK j \in DOMAIN r.items : c.items[i].section = r.items[j].section
        BY <2>6
      <3>2. store'.rows[c.items[i].section].revision = store.revisions + j
        BY ZenonT(60), <1>4, <1>5, <3>1
      <3>3. j \in Nat /\ j > 0 /\ store.revisions \in Nat
        BY <1>1 DEF AuthorityOK, Authorities
      <3> QED
        BY SMTT(60), <2>1, <2>4, <2>6, <3>2, <3>3
    <2> HIDE DEF T
    <2>7. CASE Ledger!Touches(c) \cap T = {}
      BY ZenonT(60), <1>5, <2>2, <2>5, <2>7 DEF OpenOf, StaleItems
    <2>8. CASE Ledger!Touches(c) \cap T # {}
      <3>1. PICK i \in DOMAIN c.items : c.items[i].section \in T
        BY SMTT(60), <2>2, <2>8
      <3> QED
        BY ZenonT(60), <1>5, <2>6, <2>8, <3>1 DEF OpenOf, StaleItems
    <2> QED
      BY SMTT(60), <2>7, <2>8
  <1>10. OpenOf(store', requests') =
            {c \in OpenOf(store, requests) : Ledger!Touches(c) \cap Ledger!Touches(r) = {}}
    <2> HIDE DEF T
    <2>1. /\ OpenOf(store', requests) \subseteq requests
          /\ OpenOf(store, requests) \subseteq requests
      BY DEF OpenOf
    <2> QED
      BY SMTT(60), <1>7, <1>9, <2>1
  <1>11. Ledger!Unanswered(r.id)
    BY UnusedUnanswered
  <1>12. Ledger!Take(r)
    BY <1>6, <1>8, <1>10, <1>11, Zenon DEF Ledger!Take, IntentOf, OpenOf, AnswersOf
  <1> QED
    BY SMTT(60), <1>2, <1>12

(* A rotation or a clear renews the ledger.                                *)
LEMMA RenewedRenews ==
    ASSUME AInv, Renewed
    PROVE  Ledger!Renew
  <1>1. AuthorityOK(store) /\ requests' = requests
    BY SMTT(60) DEF AInv, Renewed
  <1>2. /\ store'.generation = store.generation + 1 /\ store'.receipts = {}
        /\ \/ \A s \in Sections : store'.rows[s].policy = store.rows[s].policy
           \/ \A s \in Sections : store'.rows[s] = AbsentRow
    BY SMTT(60), <1>1, RotatedRows, ClearedRows DEF Renewed
  <1>3. AnswersOf(store') = {}
    BY SMTT(60), <1>2 DEF AnswersOf
  <1>4. OpenOf(store', requests') = {}
    <2>1. store.generation \in Nat
      BY SMTT(60), <1>1 DEF AuthorityOK, Authorities
    <2>2. ASSUME NEW q \in requests PROVE q.generation # store'.generation
      <3>1. q.generation \in Nat /\ q.generation <= store.generation
        BY SMTT(60) DEF AInv, RequestOK, Requests
      <3> QED
        BY SMTT(60), <1>2, <2>1, <3>1
    <2> QED
      BY SMTT(60), <1>1, <2>2 DEF OpenOf
  <1>5. IntentOf(store') \in {IntentOf(store), [s \in Sections |-> NoPolicy]}
    BY <1>2 DEF IntentOf, AbsentRow
  <1> QED
    BY <1>3, <1>4, <1>5, Zenon DEF Ledger!Renew, IntentOf, OpenOf, AnswersOf

(* Every step of the authority is a step of the ledger, or none.           *)
LEMMA StepRefines ==
    ASSUME AInv, [Next]_vars
    PROVE  \/ Ledger!Next
           \/ /\ IntentOf(store') = IntentOf(store) /\ AnswersOf(store') = AnswersOf(store)
              /\ OpenOf(store', requests') = OpenOf(store, requests)
  <1>1. AuthorityOK(store)
    BY SMTT(60) DEF AInv
  <1>2. ASSUME NEW r, Sent(r) PROVE Ledger!Next
    BY SMTT(60), <1>2, SentOffers DEF Ledger!Next
  <1>3. ASSUME NEW r \in requests, Decided(r)
        PROVE  Ledger!Next \/ (store' = store /\ requests' = requests)
    <2>1. /\ store' = Decide(r).authority /\ requests' = requests
      BY SMTT(60), <1>3 DEF Decided
    <2>2. \/ store' = store
          \/ /\ Unused(store, r.id) /\ Cardinality(store.receipts) < MaxReceipts
             /\ Refusal(r, store') \/ Commit(r, store')
      BY <2>1, Decisions
    <2>3. CASE /\ Unused(store, r.id) /\ Cardinality(store.receipts) < MaxReceipts
               /\ Refusal(r, store')
      <3>1. \E a \in AnswersOf(store') : Ledger!Refuse(a)
        BY <2>1, <2>3, RefusalRefuses
      <3> QED
        BY <3>1, Zenon DEF Ledger!Next, AnswersOf
    <2>4. CASE /\ Unused(store, r.id) /\ Cardinality(store.receipts) < MaxReceipts
               /\ Commit(r, store')
      <3>1. r \in OpenOf(store, requests) /\ Ledger!Take(r)
        BY SMTT(60), <2>1, <2>4, CommitTakes
      <3> QED
        BY <3>1, Zenon DEF Ledger!Next, OpenOf
    <2> QED
      BY SMTT(60), <2>1, <2>2, <2>3, <2>4
  <1>4. ASSUME Renewed PROVE Ledger!Next
    BY SMTT(60), <1>4, RenewedRenews DEF Ledger!Next
  <1>5. \/ \E r : Sent(r)
        \/ \E r \in requests : Decided(r)
        \/ Renewed
        \/ UNCHANGED <<store, requests>>
    BY <1>1, AuthoritySteps
  <1> QED
    BY <1>2, <1>3, <1>4, <1>5, Zenon

(* The authority implements the ledger of intents: a command takes effect  *)
(* at most once, whole, and against the reading it was made on, however    *)
(* late or often it arrives and whatever rotates in between (store.rs      *)
(* commit_desired_watch_mutation, commit_desired_watch_batch).             *)
THEOREM AuthorityImplementsLedger == Spec => IntentRefined
  <1>1. Init => Ledger!Init
    <2> SUFFICES ASSUME Init PROVE Ledger!Init
      OBVIOUS
    <2>1. store = EmptyAuthority /\ requests = {}
      BY Zenon DEF Init
    <2>2. /\ EmptyAuthority.receipts = {}
          /\ \A s \in Sections : EmptyAuthority.rows[s].policy = NoPolicy
      BY DEF EmptyAuthority, AbsentRow
    <2> QED
      BY <2>1, <2>2 DEF Ledger!Init
  <1>2. AInv /\ [Next]_vars =>
          [Ledger!Next]_<<[s \in Sections |-> store.rows[s].policy],
                          {r \in requests : r.generation = store.generation
                                            /\ StaleItems(store, r.items) = {}},
                          {[id |-> r.id, outcome |-> r.outcome] : r \in store.receipts}>>
    BY StepRefines, Zenon DEF IntentOf, OpenOf, AnswersOf
  <1> QED
    BY <1>1, <1>2, AInvAlways, PTL DEF Spec, IntentRefined, Ledger!Spec
=============================================================================
