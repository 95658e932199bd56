------------------------- MODULE DesiredWatchProofs -------------------------
(***************************************************************************)
(* Theorems about the desired-watch authority for every value of the       *)
(* constants: AInv is inductive, and the budgets hold (BudgetsHold).       *)
(*                                                                         *)
(* Without the bound on a row's revision, a commit could give a row the    *)
(* revision another command still holds as its reading; without what an    *)
(* absent row asks for, a rotation could withdraw an intent.               *)
(***************************************************************************)
EXTENDS DesiredWatch, FiniteSetTheorems, TLAPS

-----------------------------------------------------------------------------
(* Finite sets                                                             *)

(* Any set of sections is finite.                                          *)
LEMMA SectionSets ==
    ASSUME NEW S, S \subseteq Sections
    PROVE  IsFiniteSet(S) /\ Cardinality(S) \in Nat
  BY AuthorityAssumption, FS_Subset, FS_CardinalityType, Zenon

(* Subsets of an interval are finite.                                      *)
LEMMA IndexSets ==
    ASSUME NEW n \in Int, NEW S, S \subseteq 1..n
    PROVE  IsFiniteSet(S) /\ Cardinality(S) \in Nat
  <1>1. IsFiniteSet(1..n)
    BY FS_Interval
  <1> QED
    BY <1>1, FS_Subset, FS_CardinalityType, Zenon

(* Cardinality is monotone on sets of sections, and one more section adds  *)
(* at most one.                                                            *)
LEMMA SectionCounts ==
    ASSUME NEW S, S \subseteq Sections, NEW T, NEW s
    PROVE  /\ T \subseteq S => Cardinality(T) <= Cardinality(S)
           /\ T \subseteq S \cup {s} => Cardinality(T) <= Cardinality(S) + 1
  <1>1. IsFiniteSet(S) /\ Cardinality(S) \in Nat
    BY SectionSets
  <1>2. ASSUME T \subseteq S PROVE Cardinality(T) <= Cardinality(S)
    BY <1>1, <1>2, FS_Subset
  <1>3. ASSUME T \subseteq S \cup {s} PROVE Cardinality(T) <= Cardinality(S) + 1
    <2>1. /\ IsFiniteSet(S \cup {s})
          /\ Cardinality(S \cup {s}) = Cardinality(S)
             \/ Cardinality(S \cup {s}) = Cardinality(S) + 1
      BY <1>1, FS_AddElement
    <2>2. Cardinality(T) <= Cardinality(S \cup {s}) /\ IsFiniteSet(T)
      BY <1>3, <2>1, FS_Subset
    <2>3. Cardinality(T) \in Nat
      BY <2>2, FS_CardinalityType
    <2> QED
      BY <1>1, <2>1, <2>2, <2>3
  <1> QED
    BY <1>2, <1>3

-----------------------------------------------------------------------------
(* The transactions                                                        *)

(* The empty authority of a new store.                                     *)
LEMMA EmptyOK == AuthorityOK(EmptyAuthority) /\ Budgets(EmptyAuthority)
  <1>1. AuthorityOK(EmptyAuthority)
    BY FS_EmptySet DEF AuthorityOK, EmptyAuthority, Authorities, AbsentRow, Row
  <1>2. DesiredSections(EmptyAuthority) = {} /\ Tombstones(EmptyAuthority) = {}
    BY DEF DesiredSections, Tombstones, Desired, Tombstone, EmptyAuthority, AbsentRow
  <1> QED
    BY SMTT(60), <1>1, <1>2, FS_EmptySet, AuthorityAssumption DEF Budgets, EmptyAuthority

(* Writing a command: its sections get its policies and new revisions, the *)
(* others stay.                                                            *)
LEMMA WrittenRows ==
    ASSUME NEW a, AuthorityOK(a), NEW items, WellFormed(items)
    PROVE  LET v == Written(a, items)
           IN  /\ v \in Authorities /\ v.generation = a.generation
               /\ v.revisions = a.revisions + Len(items) /\ v.receipts = a.receipts
               /\ \A i \in DOMAIN items :
                      /\ v.rows[items[i].section].policy = items[i].policy
                      /\ v.rows[items[i].section].revision = a.revisions + i
               /\ \A s \in Sections :
                      (\A i \in DOMAIN items : items[i].section # s)
                      => v.rows[s] = a.rows[s]
  <1> DEFINE changed(n) == {i \in 1..n : EpochChanges(a, items[i])}
             row(i) == [policy |-> items[i].policy, revision |-> a.revisions + i,
                        epoch |-> IF i \in changed(i) THEN a.epochs + Cardinality(changed(i))
                                  ELSE a.rows[items[i].section].epoch]
             at(s) == {i \in DOMAIN items : items[i].section = s}
             rows == [s \in Sections |-> IF at(s) = {} THEN a.rows[s]
                                         ELSE row(CHOOSE i \in at(s) : TRUE)]
             n == a.revisions + Len(items)
             e == a.epochs + Cardinality(changed(Len(items)))
             v == [a EXCEPT !.revisions = n, !.epochs = e, !.rows = rows]
  <1>1. Written(a, items) = v
    BY Zenon DEF Written
  <1>2. /\ items \in Seq(CommandItems) /\ Len(items) \in Nat /\ DOMAIN items = 1..Len(items)
        /\ \A i \in DOMAIN items : items[i] \in CommandItems /\ i \in Nat
    BY DEF WellFormed
  <1>3. /\ a \in Authorities /\ a.revisions \in Nat /\ a.epochs \in Nat
        /\ a.rows \in [Sections -> Row]
    BY DEF AuthorityOK, Authorities
  <1>4. \A k \in Nat : Cardinality(changed(k)) \in Nat
    BY IndexSets
  <1>5. n \in Nat /\ e \in Nat
    BY <1>2, <1>3, <1>4
  <1> HIDE DEF changed
  <1>6. ASSUME NEW i \in DOMAIN items PROVE row(i) \in Row
    <2>1. /\ items[i].policy \in Policies \cup {NoPolicy} /\ items[i].section \in Sections
          /\ i \in Nat /\ Cardinality(changed(i)) \in Nat
      BY Zenon, <1>2, <1>4 DEF CommandItems
    <2>2. a.rows[items[i].section].epoch \in Nat
      BY <1>3, <2>1 DEF Row
    <2> QED
      BY <1>3, <2>1, <2>2 DEF Row
  <1>7. ASSUME NEW i \in DOMAIN items
        PROVE  /\ row(i).policy = items[i].policy /\ row(i).revision = a.revisions + i
    OBVIOUS
  <1> HIDE DEF row
  <1>8. ASSUME NEW s \in Sections, at(s) # {}
        PROVE  /\ (CHOOSE i \in at(s) : TRUE) \in DOMAIN items
               /\ items[CHOOSE i \in at(s) : TRUE].section = s
    BY <1>8
  <1>9. rows \in [Sections -> Row]
    BY <1>3, <1>6, <1>8
  <1>10. ASSUME NEW i \in DOMAIN items PROVE rows[items[i].section] = row(i)
    <2>1. items[i].section \in Sections
      BY <1>2 DEF CommandItems
    <2>2. at(items[i].section) = {i}
      BY DEF WellFormed
    <2>3. (CHOOSE j \in {i} : TRUE) = i
      OBVIOUS
    <2> QED
      BY <2>1, <2>2, <2>3
  <1>11. \A s \in Sections :
             (\A i \in DOMAIN items : items[i].section # s) => rows[s] = a.rows[s]
    OBVIOUS
  <1> HIDE DEF rows, n, e
  <1>12. /\ v \in Authorities /\ v.generation = a.generation /\ v.revisions = n
         /\ v.receipts = a.receipts /\ v.rows = rows
    BY <1>3, <1>5, <1>9, Zenon DEF Authorities
  <1> HIDE DEF v
  <1> QED
    BY <1>1, <1>7, <1>10, <1>11, <1>12 DEF n

(* The rows a command leaves obey the authority's rules.                   *)
LEMMA WrittenOK ==
    ASSUME NEW a, AuthorityOK(a), NEW items, WellFormed(items)
    PROVE  AuthorityOK(Written(a, items))
  <1> DEFINE v == Written(a, items)
  <1>1. /\ v \in Authorities /\ v.generation = a.generation
        /\ v.revisions = a.revisions + Len(items) /\ v.receipts = a.receipts
        /\ \A i \in DOMAIN items :
               /\ v.rows[items[i].section].policy = items[i].policy
               /\ v.rows[items[i].section].revision = a.revisions + i
        /\ \A s \in Sections :
               (\A i \in DOMAIN items : items[i].section # s) => v.rows[s] = a.rows[s]
    BY WrittenRows
  <1> HIDE DEF v
  <1>2. /\ Len(items) \in Nat /\ DOMAIN items = 1..Len(items) /\ a.revisions \in Nat
        /\ a.rows \in [Sections -> Row]
    BY DEF WellFormed, AuthorityOK, Authorities
  <1>3. ASSUME NEW s \in Sections
        PROVE  /\ v.rows[s].revision <= v.revisions
               /\ v.rows[s].revision = 0 => v.rows[s].policy = NoPolicy
    <2>1. CASE \E i \in DOMAIN items : items[i].section = s
      <3>1. PICK i \in DOMAIN items : items[i].section = s
        BY <2>1
      <3>2. i \in 1..Len(items) /\ v.rows[s].revision = a.revisions + i
        BY SMTT(60), <1>1, <1>2, <3>1
      <3> QED
        BY <1>1, <1>2, <3>2
    <2>2. CASE ~\E i \in DOMAIN items : items[i].section = s
      <3>1. v.rows[s] = a.rows[s] /\ a.rows[s].revision \in Nat
        BY <1>1, <1>2, <2>2 DEF Row
      <3> QED
        BY SMTT(60), <1>1, <1>2, <3>1 DEF AuthorityOK
    <2> QED
      BY <2>1, <2>2
  <1> QED
    BY <1>1, <1>3 DEF AuthorityOK, v

(* A receipt changes the receipts only.                                    *)
LEMMA ReceiptFrame ==
    ASSUME NEW a, AuthorityOK(a), NEW kind \in {"single", "batch"}, NEW id \in Ids,
           NEW items \in Seq(CommandItems),
           NEW outcome \in {"committed", "stale_revision", "limit"},
           Cardinality(a.receipts) < MaxReceipts
    PROVE  LET v == WithReceipt(a, kind, id, items, outcome)
           IN  /\ AuthorityOK(v) /\ Cardinality(v.receipts) <= MaxReceipts
               /\ v.generation = a.generation /\ v.revisions = a.revisions
               /\ v.rows = a.rows
               /\ v.receipts = a.receipts \cup {Receipt(kind, id, items, outcome)}
  <1> DEFINE x == Receipt(kind, id, items, outcome)
             R == a.receipts \cup {x}
             v == [a EXCEPT !.receipts = R]
  <1>1. WithReceipt(a, kind, id, items, outcome) = v
    BY DEF WithReceipt
  <1>2. x \in Receipts
    BY DEF Receipt, Receipts
  <1>3. /\ a \in Authorities /\ a.receipts \in SUBSET Receipts /\ IsFiniteSet(a.receipts)
    BY DEF AuthorityOK, Authorities
  <1> HIDE DEF x
  <1>4. Cardinality(a.receipts) \in Nat /\ MaxReceipts \in Nat
    BY <1>3, FS_CardinalityType, AuthorityAssumption
  <1>5. /\ R \in SUBSET Receipts /\ IsFiniteSet(R)
        /\ Cardinality(R) = Cardinality(a.receipts) \/ Cardinality(R) = Cardinality(a.receipts) + 1
    BY Zenon, <1>2, <1>3, FS_AddElement
  <1>6. Cardinality(R) <= MaxReceipts
    BY <1>4, <1>5
  <1> HIDE DEF R
  <1>7. /\ v \in Authorities /\ v.generation = a.generation /\ v.revisions = a.revisions
        /\ v.rows = a.rows /\ v.receipts = R
    BY <1>3, <1>5, Zenon DEF Authorities
  <1> HIDE DEF v
  <1>8. AuthorityOK(v)
    BY <1>5, <1>7 DEF AuthorityOK
  <1> QED
    BY <1>1, <1>6, <1>7, <1>8 DEF R, x

Unused(a, id) == \A x \in a.receipts : x.id # id

(* What a command may do to the authority.                                 *)
Refusal(r, v) ==
    \E kind \in {"single", "batch"}, outcome \in {"stale_revision", "limit"} :
        v = WithReceipt(store, kind, r.id, r.items, outcome)

Commit(r, v) ==
    /\ r.generation = store.generation /\ StaleItems(store, r.items) = {}
    /\ Cardinality(DesiredSections(Written(store, r.items))) <= MaxDesired
    /\ Cardinality(Tombstones(Written(store, r.items))) <= MaxTombstones
    /\ \E kind \in {"single", "batch"} :
           v = WithReceipt(Written(store, r.items), kind, r.id, r.items, "committed")

(* No receipt of either kind: the id is unused.                            *)
LEMMA NotAnswered ==
    ASSUME NEW a, AuthorityOK(a), NEW id,
           Answered(a, "single", id) = {}, Answered(a, "batch", id) = {}
    PROVE  Unused(a, id)
  BY DEF AuthorityOK, Authorities, Receipts, Answered, Unused

(* A single mutation that passes its checks keeps the budgets.             *)
LEMMA SingleBudgets ==
    ASSUME NEW a, AuthorityOK(a), Budgets(a), NEW item, WellFormed(<<item>>),
           ~(/\ item.policy # NoPolicy /\ ~Desired(a.rows[item.section])
             /\ Cardinality(DesiredSections(a)) >= MaxDesired),
           ~(/\ AddsTombstone(a.rows[item.section], item)
             /\ Cardinality(Tombstones(a)) >= MaxTombstones)
    PROVE  LET v == Written(a, <<item>>)
           IN  /\ Cardinality(DesiredSections(v)) <= MaxDesired
               /\ Cardinality(Tombstones(v)) <= MaxTombstones
  <1> DEFINE v == Written(a, <<item>>)
             s == item.section
             D == DesiredSections(a)
             T == Tombstones(a)
             items == <<item>>
  <1>1. DOMAIN items = {1} /\ items[1] = item /\ item.section \in Sections
    BY SMTT(60) DEF WellFormed, CommandItems
  <1>2. /\ v.rows[s].policy = item.policy /\ v.rows[s].revision = a.revisions + 1
        /\ \A t \in Sections : t # s => v.rows[t] = a.rows[t]
    BY <1>1, WrittenRows
  <1>3. /\ D \subseteq Sections /\ T \subseteq Sections
        /\ DesiredSections(v) \subseteq Sections /\ Tombstones(v) \subseteq Sections
    BY DEF DesiredSections, Tombstones
  <1>4. /\ Cardinality(D) \in Nat /\ Cardinality(T) \in Nat
        /\ Cardinality(DesiredSections(v)) \in Nat /\ Cardinality(Tombstones(v)) \in Nat
        /\ MaxDesired \in Nat /\ MaxTombstones \in Nat
        /\ Cardinality(D) <= MaxDesired /\ Cardinality(T) <= MaxTombstones
    BY SMTT(60), <1>3, SectionSets, AuthorityAssumption DEF Budgets
  <1>5. a.revisions + 1 > 0
    BY DEF AuthorityOK, Authorities
  <1> HIDE DEF v, items
  <1>6. Cardinality(DesiredSections(v)) <= MaxDesired
    <2>1. CASE item.policy = NoPolicy \/ Desired(a.rows[s])
      <3>1. DesiredSections(v) \subseteq D
        BY <1>1, <1>2, <2>1 DEF DesiredSections, Desired
      <3> QED
        BY SMTT(60), <1>3, <1>4, <3>1, SectionCounts
    <2>2. CASE item.policy # NoPolicy /\ ~Desired(a.rows[s])
      <3>1. DesiredSections(v) \subseteq D \cup {s}
        BY <1>1, <1>2 DEF DesiredSections, Desired
      <3>2. Cardinality(DesiredSections(v)) <= Cardinality(D) + 1
        BY Zenon, <1>3, <3>1, SectionCounts
      <3>3. Cardinality(D) < MaxDesired
        BY <1>4, <2>2
      <3> HIDE DEF D
      <3> QED
        BY SMTT(60), <1>4, <3>2, <3>3
    <2> QED
      BY SMTT(60), <2>1, <2>2
  <1>7. Cardinality(Tombstones(v)) <= MaxTombstones
    <2>1. CASE item.policy # NoPolicy \/ Tombstone(a.rows[s])
      <3>1. Tombstones(v) \subseteq T
        BY SMTT(60), <1>1, <1>2, <2>1 DEF Tombstones, Tombstone
      <3> QED
        BY SMTT(60), <1>3, <1>4, <3>1, SectionCounts
    <2>2. CASE item.policy = NoPolicy /\ ~Tombstone(a.rows[s])
      <3>1. Tombstones(v) \subseteq T \cup {s}
        BY SMTT(60), <1>1, <1>2 DEF Tombstones, Tombstone
      <3>2. Cardinality(Tombstones(v)) <= Cardinality(T) + 1
        BY SMTT(60), <1>3, <3>1, SectionCounts
      <3>3. Cardinality(T) < MaxTombstones
        BY <1>4, <2>2 DEF AddsTombstone
      <3> HIDE DEF T
      <3> QED
        BY SMTT(60), <1>4, <3>2, <3>3
    <2> QED
      BY SMTT(60), <2>1, <2>2
  <1> QED
    BY <1>6, <1>7 DEF v

(* A command is answered from a receipt or refused without one, refused    *)
(* with one, or commits (commit_desired_watch_mutation,                    *)
(* commit_desired_watch_batch).                                            *)
LEMMA Decisions ==
    ASSUME AInv, NEW r \in requests
    PROVE  LET v == Decide(r).authority
           IN  \/ v = store
               \/ /\ Unused(store, r.id) /\ Cardinality(store.receipts) < MaxReceipts
                  /\ Refusal(r, v) \/ Commit(r, v)
  <1> DEFINE d == Decide(r)
             v == d.authority
             kept == v = store
             fresh == /\ Unused(store, r.id) /\ Cardinality(store.receipts) < MaxReceipts
                      /\ Refusal(r, v) \/ Commit(r, v)
  <1> SUFFICES kept \/ fresh
    OBVIOUS
  <1>0. d = Decide(r)
    OBVIOUS
  <1> HIDE DEF d
  <1>1. /\ AuthorityOK(store) /\ Budgets(store) /\ WellFormed(r.items)
        /\ r.items \in Seq(CommandItems) /\ Cardinality(store.receipts) \in Nat
        /\ MaxReceipts \in Nat /\ MaxDesired \in Nat /\ MaxTombstones \in Nat
    BY AuthorityAssumption, FS_CardinalityType DEF AInv, RequestOK, WellFormed, AuthorityOK
  <1>2. \A o : Decision(store, o).authority = store
    BY DEF Decision
  <1>3. ASSUME Unused(store, r.id), Cardinality(store.receipts) < MaxReceipts,
               NEW kind \in {"single", "batch"}, NEW outcome \in {"stale_revision", "limit"},
               d = Refused(store, kind, r.id, r.items, outcome)
        PROVE  fresh
    <2>1. v = WithReceipt(store, kind, r.id, r.items, outcome)
      BY SMTT(60), <1>3 DEF Refused, Decision
    <2> QED
      BY <1>3, <2>1 DEF Refusal
  <1>4. ASSUME Unused(store, r.id), Cardinality(store.receipts) < MaxReceipts,
               NEW kind \in {"single", "batch"},
               r.generation = store.generation, StaleItems(store, r.items) = {},
               Cardinality(DesiredSections(Written(store, r.items))) <= MaxDesired,
               Cardinality(Tombstones(Written(store, r.items))) <= MaxTombstones,
               d = Committed(store, kind, r.id, r.items)
        PROVE  fresh
    <2>1. v = WithReceipt(Written(store, r.items), kind, r.id, r.items, "committed")
      BY SMTT(60), <1>4 DEF Committed, Decision
    <2> QED
      BY SMTT(60), <1>4, <2>1 DEF Commit
  <1>5. CASE Len(r.items) = 1
    <2> DEFINE item == r.items[1]
               row == store.rows[item.section]
    <2>1. r.items = <<item>>
      BY <1>1, <1>5
    <2>2. d = CommitMutation(store, r.id, r.generation, item)
      BY <1>0, <1>5 DEF Decide
    <2> HIDE DEF item
    <2>3. CASE \/ r.generation # store.generation
               \/ Answered(store, "batch", r.id) # {} \/ Answered(store, "single", r.id) # {}
               \/ Cardinality(store.receipts) >= MaxReceipts
      <3>1. \E o : d = Decision(store, o)
        BY Zenon, <2>2, <2>3 DEF CommitMutation
      <3> QED
        BY <1>2, <3>1
    <2>4. CASE ~(\/ r.generation # store.generation
                 \/ Answered(store, "batch", r.id) # {} \/ Answered(store, "single", r.id) # {}
                 \/ Cardinality(store.receipts) >= MaxReceipts)
      <3>1. Unused(store, r.id) /\ Cardinality(store.receipts) < MaxReceipts
        BY <1>1, <2>4, NotAnswered
      <3> DEFINE limit == item.policy # NoPolicy /\ ~Desired(row)
                          /\ Cardinality(DesiredSections(store)) >= MaxDesired
                 full == AddsTombstone(row, item)
                         /\ Cardinality(Tombstones(store)) >= MaxTombstones
      <3>2. d = IF StaleItems(store, <<item>>) # {}
                THEN Refused(store, "single", r.id, <<item>>, "stale_revision")
                ELSE IF limit THEN Refused(store, "single", r.id, <<item>>, "limit")
                ELSE IF full THEN Decision(store, "full")
                ELSE Committed(store, "single", r.id, <<item>>)
        BY <2>2, <2>4, ZenonT(60) DEF CommitMutation
      <3>3. CASE StaleItems(store, <<item>>) # {}
        BY SMTT(60), <1>3, <2>1, <3>1, <3>2, <3>3
      <3>4. CASE StaleItems(store, <<item>>) = {} /\ limit
        BY SMTT(60), <1>3, <2>1, <3>1, <3>2, <3>4
      <3>5. CASE StaleItems(store, <<item>>) = {} /\ ~limit /\ full
        BY SMTT(60), <1>2, <3>2, <3>5
      <3>6. CASE StaleItems(store, <<item>>) = {} /\ ~limit /\ ~full
        <4>1. /\ Cardinality(DesiredSections(Written(store, <<item>>))) <= MaxDesired
              /\ Cardinality(Tombstones(Written(store, <<item>>))) <= MaxTombstones
          BY SMTT(60), <1>1, <2>1, <3>6, SingleBudgets
        <4>2. d = Committed(store, "single", r.id, <<item>>)
          BY <3>2, <3>6
        <4>3. r.generation = store.generation
          BY SMTT(60), <2>4
        <4> QED
          BY SMTT(60), <1>4, <2>1, <3>1, <3>6, <4>1, <4>2, <4>3
      <3> QED
        BY SMTT(60), <3>3, <3>4, <3>5, <3>6
    <2> QED
      BY <2>3, <2>4
  <1>6. CASE Len(r.items) # 1
    <2>1. d = CommitBatch(store, r.id, r.generation, r.items)
      BY <1>0, <1>6 DEF Decide
    <2>2. CASE \/ r.generation # store.generation
               \/ Answered(store, "single", r.id) # {} \/ Answered(store, "batch", r.id) # {}
               \/ Cardinality(store.receipts) >= MaxReceipts
      <3>1. \E o : d = Decision(store, o)
        BY Zenon, <2>1, <2>2 DEF CommitBatch
      <3> QED
        BY <1>2, <3>1
    <2>3. CASE ~(\/ r.generation # store.generation
                 \/ Answered(store, "single", r.id) # {} \/ Answered(store, "batch", r.id) # {}
                 \/ Cardinality(store.receipts) >= MaxReceipts)
      <3>1. Unused(store, r.id) /\ Cardinality(store.receipts) < MaxReceipts
        BY <1>1, <2>3, NotAnswered
      <3> DEFINE limit == DesiredAfter(store, r.items) > MaxDesired
                 full == TombstonesAfter(store, r.items) > MaxTombstones
      <3>2. d = IF StaleItems(store, r.items) # {}
                THEN Refused(store, "batch", r.id, r.items, "stale_revision")
                ELSE IF limit THEN Refused(store, "batch", r.id, r.items, "limit")
                ELSE IF full THEN Decision(store, "full")
                ELSE Committed(store, "batch", r.id, r.items)
        BY <2>1, <2>3, Zenon DEF CommitBatch
      <3>3. CASE StaleItems(store, r.items) # {}
        BY SMTT(60), <1>3, <3>1, <3>2, <3>3
      <3>4. CASE StaleItems(store, r.items) = {} /\ limit
        BY SMTT(60), <1>3, <3>1, <3>2, <3>4
      <3>5. CASE StaleItems(store, r.items) = {} /\ ~limit /\ full
        BY SMTT(60), <1>2, <3>2, <3>5
      <3>6. CASE StaleItems(store, r.items) = {} /\ ~limit /\ ~full
        <4>1. /\ DesiredSections(Written(store, r.items)) \subseteq Sections
              /\ Tombstones(Written(store, r.items)) \subseteq Sections
          BY SMTT(60) DEF DesiredSections, Tombstones
        <4>2. /\ Cardinality(DesiredSections(Written(store, r.items))) <= MaxDesired
              /\ Cardinality(Tombstones(Written(store, r.items))) <= MaxTombstones
          BY SMTT(60), <1>1, <3>6, <4>1, SectionSets DEF DesiredAfter, TombstonesAfter
        <4>3. d = Committed(store, "batch", r.id, r.items) /\ r.generation = store.generation
          BY SMTT(60), <2>3, <3>2, <3>6
        <4> QED
          BY SMTT(60), <1>4, <3>1, <3>6, <4>2, <4>3
      <3> QED
        BY SMTT(60), <3>3, <3>4, <3>5, <3>6
    <2> QED
      BY <2>2, <2>3
  <1> QED
    BY <1>1, <1>5, <1>6

(* A rotation: a new generation without receipts, the same intents, and a  *)
(* row for exactly the sections kept (rotate_desired_watch_authority).     *)
LEMMA RotatedRows ==
    ASSUME NEW a, AuthorityOK(a), NEW preserve
    PROVE  LET v == Rotated(a, preserve)
           IN  /\ AuthorityOK(v) /\ v.generation = a.generation + 1 /\ v.receipts = {}
               /\ \A s \in Sections :
                      /\ v.rows[s].policy = a.rows[s].policy
                      /\ s \in preserve /\ a.rows[s].revision > 0 => v.rows[s].revision > 0
                      /\ v.rows[s].revision > 0 => a.rows[s].revision > 0
  <1> DEFINE kept == DesiredSections(a) \cup (Tombstones(a) \cap preserve)
             number(s) == Cardinality({r \in kept : r <= s})
             rows == [s \in Sections |->
                         IF s \in kept
                         THEN [policy |-> a.rows[s].policy, revision |-> number(s),
                               epoch |-> number(s)]
                         ELSE AbsentRow]
             n == Cardinality(kept)
             v == Rotated(a, preserve)
  <1>1. v = [generation |-> a.generation + 1, revisions |-> n, epochs |-> n,
             rows |-> rows, receipts |-> {}]
    BY Zenon DEF Rotated
  <1>2. kept \subseteq Sections
    BY DEF DesiredSections, Tombstones
  <1>3. /\ a.generation \in Nat /\ a.rows \in [Sections -> Row]
        /\ \A s \in Sections : /\ a.rows[s].revision \in Nat
                               /\ a.rows[s].policy \in Policies \cup {NoPolicy}
    BY SMTT(60) DEF AuthorityOK, Authorities, Row
  <1>4. /\ \A s \in Sections : s \notin kept => a.rows[s].policy = NoPolicy
        /\ \A s \in Sections : s \in kept => a.rows[s].revision > 0
        /\ \A s \in Sections : s \in preserve /\ a.rows[s].revision > 0 => s \in kept
    BY <1>3 DEF DesiredSections, Desired, Tombstones, Tombstone, AuthorityOK
  <1> HIDE DEF kept
  <1>5. IsFiniteSet(kept) /\ n \in Nat
    BY <1>2, SectionSets
  <1>6. ASSUME NEW s \in kept PROVE number(s) \in Nat /\ number(s) > 0 /\ number(s) <= n
    <2> DEFINE K == {r \in kept : r <= s}
    <2>1. K \subseteq kept /\ s \in K
      <3>1. s \in Nat
        BY <1>2, AuthorityAssumption
      <3> QED
        BY <3>1
    <2> HIDE DEF K
    <2>2. IsFiniteSet(K) /\ Cardinality(K) <= Cardinality(kept)
      BY SMTT(60), <1>5, <2>1, FS_Subset
    <2>3. Cardinality(K) \in Nat /\ Cardinality(K) # 0
      BY SMTT(60), <2>1, <2>2, FS_CardinalityType, FS_EmptySet
    <2> QED
      BY <2>2, <2>3 DEF K
  <1> HIDE DEF number, n
  <1>7. ASSUME NEW s \in Sections
        PROVE  /\ rows[s] \in Row /\ rows[s].policy = a.rows[s].policy
               /\ s \in kept => rows[s].revision = number(s)
               /\ s \notin kept => rows[s].revision = 0 /\ rows[s].policy = NoPolicy
    <2>1. CASE s \in kept
      BY SMTT(60), <1>3, <1>6, <2>1 DEF Row
    <2>2. CASE s \notin kept
      BY SMTT(60), <1>4, <2>2 DEF AbsentRow, Row
    <2> QED
      BY SMTT(60), <2>1, <2>2
  <1>8. rows \in [Sections -> Row]
    BY SMTT(60), <1>7
  <1> HIDE DEF rows, v
  <1>9. /\ v \in Authorities /\ v.generation = a.generation + 1 /\ v.receipts = {}
        /\ v.rows = rows /\ v.revisions = n
    BY SMTT(60), <1>1, <1>3, <1>5, <1>8 DEF Authorities
  <1>10. AuthorityOK(v)
    <2>1. ASSUME NEW s \in Sections
          PROVE  /\ v.rows[s].revision <= v.revisions
                 /\ v.rows[s].revision = 0 => v.rows[s].policy = NoPolicy
      <3>1. CASE s \in kept
        BY SMTT(60), <1>5, <1>6, <1>7, <1>9, <3>1
      <3>2. CASE s \notin kept
        BY SMTT(60), <1>5, <1>7, <1>9, <3>2
      <3> QED
        BY SMTT(60), <3>1, <3>2
    <2> QED
      BY SMTT(60), <1>9, <2>1, FS_EmptySet DEF AuthorityOK
  <1>11. ASSUME NEW s \in Sections
         PROVE  /\ v.rows[s].policy = a.rows[s].policy
                /\ s \in preserve /\ a.rows[s].revision > 0 => v.rows[s].revision > 0
                /\ v.rows[s].revision > 0 => a.rows[s].revision > 0
    <2>1. CASE s \in kept
      BY SMTT(60), <1>4, <1>6, <1>7, <1>9, <2>1
    <2>2. CASE s \notin kept
      BY SMTT(60), <1>3, <1>4, <1>7, <1>9, <2>2
    <2> QED
      BY SMTT(60), <2>1, <2>2
  <1> QED
    BY <1>9, <1>10, <1>11 DEF v

(* A rotation keeps the budgets.                                           *)
LEMMA RotatedBudgets ==
    ASSUME NEW a, AuthorityOK(a), Budgets(a), NEW preserve
    PROVE  Budgets(Rotated(a, preserve))
  <1> DEFINE v == Rotated(a, preserve)
  <1>1. /\ v.receipts = {}
        /\ \A s \in Sections : /\ v.rows[s].policy = a.rows[s].policy
                               /\ v.rows[s].revision > 0 => a.rows[s].revision > 0
    BY SMTT(60), RotatedRows
  <1> HIDE DEF v
  <1>2. /\ DesiredSections(v) \subseteq DesiredSections(a)
        /\ Tombstones(v) \subseteq Tombstones(a)
        /\ DesiredSections(a) \subseteq Sections /\ Tombstones(a) \subseteq Sections
        /\ DesiredSections(v) \subseteq Sections /\ Tombstones(v) \subseteq Sections
    BY <1>1 DEF DesiredSections, Tombstones, Desired, Tombstone
  <1>3. /\ Cardinality(DesiredSections(v)) <= Cardinality(DesiredSections(a))
        /\ Cardinality(Tombstones(v)) <= Cardinality(Tombstones(a))
    BY SMTT(60), <1>2, SectionCounts
  <1>4. /\ Cardinality(DesiredSections(v)) \in Nat /\ Cardinality(Tombstones(v)) \in Nat
        /\ Cardinality(DesiredSections(a)) \in Nat /\ Cardinality(Tombstones(a)) \in Nat
        /\ MaxDesired \in Nat /\ MaxTombstones \in Nat /\ MaxReceipts \in Nat
    BY SMTT(60), <1>2, SectionSets, AuthorityAssumption
  <1> QED
    BY SMTT(60), <1>1, <1>3, <1>4, FS_EmptySet DEF Budgets, v

(* clear_personal_data: the empty authority in a new generation.           *)
LEMMA ClearedRows ==
    ASSUME NEW a, AuthorityOK(a)
    PROVE  LET v == Cleared(a)
           IN  /\ AuthorityOK(v) /\ Budgets(v) /\ v.generation = a.generation + 1
               /\ v.receipts = {} /\ \A s \in Sections : v.rows[s] = AbsentRow
  <1> DEFINE v == Cleared(a)
             g == a.generation + 1
  <1>1. g \in Nat
    BY DEF AuthorityOK, Authorities
  <1> HIDE DEF g
  <1>2. v = [generation |-> g, revisions |-> 0, epochs |-> 0,
             rows |-> [s \in Sections |-> AbsentRow], receipts |-> {}]
    BY SMTT(60) DEF Cleared, EmptyAuthority, g
  <1> HIDE DEF v
  <1>3. AuthorityOK(v)
    BY SMTT(60), <1>1, <1>2, FS_EmptySet DEF AuthorityOK, Authorities, AbsentRow, Row
  <1>4. DesiredSections(v) = {} /\ Tombstones(v) = {}
    BY <1>2 DEF DesiredSections, Tombstones, Desired, Tombstone, AbsentRow
  <1>5. Budgets(v)
    <2>1. Cardinality({}) = 0
      BY FS_EmptySet
    <2>2. MaxDesired \in Nat /\ MaxTombstones \in Nat /\ MaxReceipts \in Nat
      BY AuthorityAssumption
    <2>3. v.receipts = {}
      BY SMTT(60), <1>2
    <2> QED
      BY SMTT(60), <1>4, <2>1, <2>2, <2>3 DEF Budgets
  <1> QED
    BY SMTT(60), <1>2, <1>3, <1>5 DEF v, g

-----------------------------------------------------------------------------
(* Steps on the authority and the commands                                 *)

Sent(r) ==
    /\ r.id \in Ids /\ r.generation = store.generation
    /\ WellFormed(r.items) /\ StaleItems(store, r.items) = {}
    /\ r \in Requests
    /\ store' = store /\ requests' = requests \cup {r}

Decided(r) == store' = Decide(r).authority /\ requests' = requests

Renewed ==
    /\ requests' = requests
    /\ \/ \E preserve : store' = Rotated(store, preserve)
       \/ store' = Cleared(store)

(* A reading holds the revision its section has.                           *)
LEMMA ReadingFresh ==
    ASSUME AuthorityOK(store), NEW s \in Sections, NEW p \in Policies \cup {NoPolicy}
    PROVE  /\ Reading(s, p) \in CommandItems /\ Reading(s, p).section = s
           /\ Reading(s, p).base = store.rows[s].revision
  BY SMTT(60) DEF AuthorityOK, Authorities, Row, CommandItems, Reading, Item

(* What Send offers.                                                       *)
LEMMA SendSends ==
    ASSUME AuthorityOK(store), NEW id \in Ids, NEW items, WellFormed(items),
           \A i \in DOMAIN items : items[i].base = store.rows[items[i].section].revision,
           Send(id, items)
    PROVE  \E r : Sent(r)
  <1> DEFINE r == [id |-> id, generation |-> store.generation, items |-> items]
  <1>1. store' = store /\ requests' = requests \cup {r}
    BY DEF Send
  <1>2. StaleItems(store, items) = {}
    BY SMTT(60) DEF StaleItems
  <1>3. r \in Requests
    BY SMTT(60) DEF Requests, AuthorityOK, Authorities, WellFormed
  <1>4. Sent(r)
    BY <1>1, <1>2, <1>3 DEF Sent
  <1> QED
    BY SMTT(60), <1>4

(* Every step sends a command, decides one, renews the authority, or       *)
(* leaves both alone.                                                      *)
LEMMA AuthoritySteps ==
    ASSUME AuthorityOK(store), [Next]_vars
    PROVE  \/ \E r : Sent(r)
           \/ \E r \in requests : Decided(r)
           \/ Renewed
           \/ UNCHANGED <<store, requests>>
  <1>1. ASSUME NEW id \in Ids, NEW s \in Sections, NEW p \in Policies \cup {NoPolicy},
               Send(id, <<Reading(s, p)>>)
        PROVE  \E r : Sent(r)
    <2> DEFINE x == Reading(s, p)
               items == <<x>>
    <2>1. /\ x \in CommandItems /\ x.section = s /\ x.base = store.rows[s].revision
      BY ReadingFresh
    <2>2. Send(id, items)
      BY SMTT(60), <1>1
    <2> HIDE DEF x
    <2>3. /\ WellFormed(items)
          /\ \A i \in DOMAIN items : items[i].base = store.rows[items[i].section].revision
      BY SMTT(60), <2>1 DEF WellFormed
    <2> HIDE DEF items
    <2> QED
      BY SMTT(60), <2>2, <2>3, SendSends
  <1>2. ASSUME NEW id \in Ids, NEW t \in Sections, NEW s \in Sections, t < s,
               NEW p \in Policies \cup {NoPolicy}, NEW q \in Policies \cup {NoPolicy},
               Send(id, <<Reading(t, p), Reading(s, q)>>)
        PROVE  \E r : Sent(r)
    <2> DEFINE x == Reading(t, p)
               y == Reading(s, q)
               items == <<x, y>>
    <2>1. /\ x \in CommandItems /\ x.section = t /\ x.base = store.rows[t].revision
          /\ y \in CommandItems /\ y.section = s /\ y.base = store.rows[s].revision
      BY ReadingFresh
    <2>2. Send(id, items)
      BY <1>2
    <2>3. t # s
      BY SMTT(60), <1>2, AuthorityAssumption
    <2> HIDE DEF x, y
    <2>4. /\ WellFormed(items)
          /\ \A i \in DOMAIN items : items[i].base = store.rows[items[i].section].revision
      BY <2>1, <2>3 DEF WellFormed
    <2> HIDE DEF items
    <2> QED
      BY SMTT(60), <2>2, <2>4, SendSends
  <1>3. ASSUME NEW w \in Workers, NEW r \in requests, Submit(w, r)
        PROVE  Decided(r)
    BY <1>3 DEF Submit, Decided
  <1>4. ASSUME NEW w \in Threads, Step(w)
        PROVE  Renewed \/ UNCHANGED <<store, requests>>
    <2>1. CASE Rotate(w)
      BY <2>1, Zenon DEF Rotate, Renewed
    <2>2. CASE ClearPersonalData(w)
      BY <2>2 DEF ClearPersonalData, Renewed
    <2> QED
      BY <1>4, <2>1, <2>2
         DEF Step, ReadAuthority, Reconcile, CheckRotation, TickCheck, StopSocket, EndReset
  <1>5. CASE \/ \E w \in Workers, count \in 0..MaxPages : AudienceChanged(w, count)
             \/ \E w \in Workers : BeginReset(w)
             \/ Tick
             \/ \E s \in Sections : Elapse(s)
             \/ \E s \in Sections, admission \in Admissions : WorldMoves(s, admission)
             \/ Restart
             \/ UNCHANGED vars
    BY <1>5, ZenonT(60) DEF AudienceChanged, BeginReset, Tick, Elapse, WorldMoves, Restart, vars
  <1> QED
    BY <1>1, <1>2, <1>3, <1>4, <1>5, ZenonT(60) DEF Next

(* What a decision leaves of the authority.                                *)
LEMMA DecisionKeeps ==
    ASSUME AInv, NEW r \in requests
    PROVE  LET v == Decide(r).authority
           IN  /\ AuthorityOK(v) /\ Budgets(v) /\ v.generation = store.generation
               /\ v.revisions >= store.revisions
               /\ \A s \in Sections : v.rows[s] = store.rows[s]
                                         \/ v.rows[s].revision > store.revisions
  <1> DEFINE v == Decide(r).authority
  <1>1. /\ AuthorityOK(store) /\ Budgets(store) /\ r \in Requests /\ WellFormed(r.items)
        /\ r.id \in Ids /\ r.items \in Seq(CommandItems)
    BY DEF AInv, RequestOK, Requests
  <1>2. \/ v = store
        \/ /\ Unused(store, r.id) /\ Cardinality(store.receipts) < MaxReceipts
           /\ Refusal(r, v) \/ Commit(r, v)
    BY Decisions
  <1> HIDE DEF v
  <1>a. /\ store.revisions \in Nat /\ store.receipts \subseteq Receipts
        /\ \A s \in Sections : store.rows[s].revision \in Nat
    BY SMTT(60), <1>1 DEF AuthorityOK, Authorities, Row
  <1> SUFFICES /\ AuthorityOK(v) /\ Budgets(v) /\ v.generation = store.generation
               /\ v.revisions >= store.revisions
               /\ \A s \in Sections : v.rows[s] = store.rows[s]
                                         \/ v.rows[s].revision > store.revisions
    BY DEF v
  <1>3. CASE v = store
    BY SMTT(60), <1>1, <1>3, <1>a
  <1>4. CASE Cardinality(store.receipts) < MaxReceipts /\ Refusal(r, v)
    <2>1. PICK kind \in {"single", "batch"}, outcome \in {"stale_revision", "limit"} :
              v = WithReceipt(store, kind, r.id, r.items, outcome)
      BY SMTT(60), <1>4 DEF Refusal
    <2>2. /\ AuthorityOK(v) /\ Cardinality(v.receipts) <= MaxReceipts
          /\ v.generation = store.generation /\ v.revisions = store.revisions
          /\ v.rows = store.rows
      BY SMTT(60), <1>1, <1>4, <2>1, ReceiptFrame
    <2> QED
      BY SMTT(60), <1>1, <1>a, <2>2 DEF Budgets, DesiredSections, Tombstones
  <1>5. CASE Cardinality(store.receipts) < MaxReceipts /\ Commit(r, v)
    <2> DEFINE u == Written(store, r.items)
    <2>1. PICK kind \in {"single", "batch"} :
              v = WithReceipt(u, kind, r.id, r.items, "committed")
      BY SMTT(60), <1>5 DEF Commit
    <2>2. /\ AuthorityOK(u)
          /\ u.generation = store.generation /\ u.receipts = store.receipts
          /\ u.revisions = store.revisions + Len(r.items)
          /\ \A i \in DOMAIN r.items :
                u.rows[r.items[i].section].revision = store.revisions + i
          /\ \A s \in Sections : (\A i \in DOMAIN r.items : r.items[i].section # s)
                                     => u.rows[s] = store.rows[s]
      BY SMTT(60), <1>1, WrittenRows, WrittenOK
    <2>3. /\ Cardinality(DesiredSections(u)) <= MaxDesired
          /\ Cardinality(Tombstones(u)) <= MaxTombstones
      BY SMTT(60), <1>5 DEF Commit
    <2> HIDE DEF u
    <2>4. /\ AuthorityOK(v) /\ Cardinality(v.receipts) <= MaxReceipts
          /\ v.generation = u.generation /\ v.revisions = u.revisions /\ v.rows = u.rows
      BY SMTT(60), <1>1, <1>5, <2>1, <2>2, ReceiptFrame
    <2>5. Len(r.items) \in Nat /\ DOMAIN r.items = 1..Len(r.items)
      BY SMTT(60), <1>1
    <2>6. ASSUME NEW s \in Sections
          PROVE  v.rows[s] = store.rows[s] \/ v.rows[s].revision > store.revisions
      <3>1. CASE \E i \in DOMAIN r.items : r.items[i].section = s
        BY SMTT(60), <1>a, <2>2, <2>4, <2>5, <3>1
      <3>2. CASE \A i \in DOMAIN r.items : r.items[i].section # s
        BY SMTT(60), <2>2, <2>4, <3>2
      <3> QED
        BY SMTT(60), <3>1, <3>2
    <2> QED
      BY SMTT(60), <1>a, <2>2, <2>3, <2>4, <2>5, <2>6 DEF Budgets, DesiredSections, Tombstones
  <1> QED
    BY SMTT(60), <1>2, <1>3, <1>4, <1>5

-----------------------------------------------------------------------------
(* The invariant                                                           *)

(* The invariant holds of a new store.                                     *)
LEMMA AInvInit == Init => AInv
  BY EmptyOK DEF Init, AInv

(* Every step keeps the invariant.                                         *)
LEMMA AInvStep == AInv /\ [Next]_vars => AInv'
  <1> SUFFICES ASSUME AInv, [Next]_vars PROVE AInv'
    BY SMTT(60)
  <1>1. /\ AuthorityOK(store) /\ Budgets(store) /\ \A r \in requests : RequestOK(r)
        /\ store.generation \in Nat /\ store.revisions \in Nat
    BY SMTT(60) DEF AInv, AuthorityOK, Authorities
  <1>2. ASSUME NEW r, Sent(r) PROVE AInv'
    <2>1. /\ r \in Requests /\ WellFormed(r.items) /\ r.generation = store.generation
          /\ StaleItems(store, r.items) = {}
          /\ store' = store /\ requests' = requests \cup {r}
      BY SMTT(60), <1>2 DEF Sent
    <2>2. ASSUME NEW i \in DOMAIN r.items PROVE r.items[i].base <= store.revisions
      <3>1. r.items[i] \in CommandItems
        BY SMTT(60), <2>1 DEF WellFormed
      <3>2. r.items[i].base = store.rows[r.items[i].section].revision
        BY SMTT(60), <2>1 DEF StaleItems
      <3> QED
        BY SMTT(60), <1>1, <3>1, <3>2 DEF CommandItems, AuthorityOK
    <2>3. RequestOK(r)
      BY SMTT(60), <1>1, <2>1, <2>2 DEF RequestOK
    <2> QED
      BY SMTT(60), <1>1, <2>1, <2>3 DEF AInv, RequestOK
  <1>3. ASSUME NEW r \in requests, Decided(r) PROVE AInv'
    <2>1. /\ AuthorityOK(store') /\ Budgets(store') /\ store'.generation = store.generation
          /\ store'.revisions >= store.revisions /\ requests' = requests
      BY SMTT(60), <1>3, DecisionKeeps DEF Decided
    <2>2. store'.revisions \in Nat
      BY SMTT(60), <2>1 DEF AuthorityOK, Authorities
    <2>3. ASSUME NEW q \in requests' PROVE RequestOK(q)'
      <3>1. /\ q \in Requests /\ WellFormed(q.items) /\ q.generation <= store.generation
            /\ q.generation = store.generation =>
                  \A i \in DOMAIN q.items : q.items[i].base <= store.revisions
        BY SMTT(60), <1>1, <2>1 DEF RequestOK
      <3>2. ASSUME NEW i \in DOMAIN q.items PROVE q.items[i].base \in Nat
        <4>1. q.items[i] \in CommandItems
          BY SMTT(60), <3>1 DEF WellFormed
        <4> QED
          BY SMTT(60), <4>1 DEF CommandItems
      <3>3. ASSUME q.generation = store.generation, NEW i \in DOMAIN q.items
            PROVE  q.items[i].base <= store'.revisions
        BY SMTT(60), <1>1, <2>1, <2>2, <3>1, <3>2, <3>3
      <3> QED
        BY SMTT(60), <2>1, <3>1, <3>3 DEF RequestOK
    <2> QED
      BY SMTT(60), <2>1, <2>3 DEF AInv
  <1>4. CASE Renewed
    <2>1. /\ AuthorityOK(store') /\ Budgets(store')
          /\ store'.generation = store.generation + 1 /\ requests' = requests
      BY SMTT(60), <1>1, <1>4, RotatedRows, RotatedBudgets, ClearedRows DEF Renewed
    <2>2. ASSUME NEW q \in requests' PROVE RequestOK(q)'
      <3>1. q \in Requests /\ WellFormed(q.items) /\ q.generation <= store.generation
        BY <1>1, <2>1 DEF RequestOK
      <3>2. q.generation \in Nat
        BY SMTT(60), <3>1 DEF Requests
      <3> QED
        BY SMTT(60), <1>1, <2>1, <3>1, <3>2 DEF RequestOK
    <2> QED
      BY SMTT(60), <2>1, <2>2 DEF AInv
  <1>5. CASE UNCHANGED <<store, requests>>
    BY <1>1, <1>5 DEF AInv, RequestOK
  <1> QED
    BY SMTT(60), <1>1, <1>2, <1>3, <1>4, <1>5, AuthoritySteps

(* The invariant holds in every reachable state.                           *)
LEMMA AInvAlways == Spec => []AInv
  BY AInvInit, AInvStep, PTL DEF Spec

(* The budgets hold: neither the desired rows nor the tombstones nor the   *)
(* receipts pass their cap, whatever commits, is refused, rotates or is    *)
(* cleared (store.rs commit_desired_watch_mutation,                        *)
(* commit_desired_watch_batch, rotate_desired_watch_authority).            *)
THEOREM BudgetsAlwaysHold == Spec => []BudgetsHold
  <1>1. AInv => BudgetsHold
    BY DEF AInv, Budgets, BudgetsHold
  <1> QED
    BY <1>1, AInvAlways, PTL
=============================================================================
