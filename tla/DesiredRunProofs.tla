------------------------- MODULE DesiredRunProofs ---------------------------
(***************************************************************************)
(* Theorems about the coordinator of desired watches for every value of    *)
(* the constants: every running watch is on a page                         *)
(* (EveryWatchAddressable), a green light tells the truth (GreenLight),    *)
(* and the barrier of a Full Reset holds (BarrierHolds).                   *)
(*                                                                         *)
(* They rest on PInv, which every step keeps.  The steps of a command and  *)
(* of a rotation, which write the authority, come first.                   *)
(***************************************************************************)
EXTENDS DesiredPassProofs, DesiredWatchProofs

-----------------------------------------------------------------------------
(* The steps that write the authority                                      *)

(* Every step leaves the rows alone, gives them new revisions, or opens a  *)
(* new generation.                                                         *)
LEMMA StepForward ==
    ASSUME AInv, [Next]_vars
    PROVE  Forward
  <1>1. AuthorityOK(store) /\ store.generation \in Nat /\ store.revisions \in Nat
    BY DEF AInv, AuthorityOK, Authorities
  <1>2. CASE store' = store
    BY SMTT(60), <1>1, <1>2 DEF Forward
  <1>3. ASSUME NEW r \in requests, Decided(r) PROVE Forward
    BY <1>3, DecisionKeeps DEF Decided, Forward
  <1>4. CASE Renewed
    <2>1. AuthorityOK(store') /\ store'.generation = store.generation + 1
      BY SMTT(60), <1>1, <1>4, RotatedRows, ClearedRows DEF Renewed
    <2> QED
      BY SMTT(60), <1>1, <2>1 DEF Forward
  <1> QED
    BY SMTT(60), <1>1, <1>2, <1>3, <1>4, AuthoritySteps DEF Sent

(* The rows stay where a command commits or nothing is written.            *)
LEMMA RowsStay ==
    ASSUME AuthorityOK(store), Forward, store'.generation = store.generation
    PROVE  \A s \in Sections : store.rows[s].revision > 0 => store'.rows[s].revision > 0
  <1>1. /\ store.generation \in Nat /\ store.revisions \in Nat
        /\ \A s \in Sections : store'.rows[s].revision \in Nat
    BY DEF AuthorityOK, Authorities, Row, Forward
  <1> QED
    BY SMTT(60), <1>1 DEF Forward

(* A command commits, is answered, or is refused.                          *)
LEMMA SubmitKeeps ==
    ASSUME PInv, Forward, NEW w \in Workers, NEW r \in requests, Submit(w, r)
    PROVE  PassOK' /\ CellsOK' /\ ThreadsOK'
  <1>1. /\ UNCHANGED <<requests, mat, pass, lock, live, pages, world, spent>>
        /\ store' = Decide(r).authority
        /\ Begin(w, "submit", "reconcile") \/ Begin(w, "submit", "rotate")
    BY DEF Submit
  <1>2. store'.generation = store.generation
    BY ZenonT(60), <1>1, Parts, DecisionKeeps
  <1>3. Grounds
    BY ZenonT(60), <1>1, <1>2, Parts, RowsStay DEF Grounds
  <1>4. w \in Threads
    BY SMTT(60) DEF Threads
  <1>5. PICK x : Moves(w, x) /\ x.pc \in {"reconcile", "rotate"} /\ x.op = "submit"
    <2>1. Stages("submit", "reconcile") /\ Stages("submit", "rotate")
      BY SMTT(60), StageTable
    <2> QED
      BY SMTT(60), <1>1, <1>4, <2>1, BeginMoves
  <1>6. ThreadsOK'
    BY SMTT(60), <1>1, <1>3, <1>4, <1>5, Parts, ThreadsBeside DEF ThreadsOK
  <1> QED
    BY SMTT(60), <1>1, <1>3, <1>6, Parts, Quiet DEF PassOK

(* The rotation keeps a row for every running watch, and a pass follows.   *)
LEMMA RotateKeeps ==
    ASSUME PInv, Forward, NEW w \in Threads, Rotate(w)
    PROVE  PassOK' /\ CellsOK' /\ ThreadsOK'
  <1>1. /\ work[w].pc = "rotating" /\ lock = w /\ store' = Rotated(store, Preserved)
        /\ ReconcileLocked(store') /\ AfterRotation(w) /\ pages' = pages
    BY DEF Rotate, Holds
  <1>2. /\ AuthorityOK(store')
        /\ \A s \in Sections : s \in Preserved /\ store.rows[s].revision > 0
                                  => store'.rows[s].revision > 0
    BY ZenonT(60), <1>1, Parts, RotatedRows
  <1>3. \A s \in Sections : Running(s) /\ store.rows[s].revision > 0
                              => store'.rows[s].revision > 0
    BY SMTT(60), <1>2 DEF Preserved
  <1>4. ReaderNext(store')
    <2>1. ASSUME NEW s \in Sections
          PROVE  /\ KnownNext(store'.generation, store'.rows[s].revision,
                              store'.rows[s].policy, s)
                 /\ Desired(store'.rows[s]) => store'.rows[s].revision > 0
      <3>1. /\ store'.generation \in Nat /\ store'.revisions \in Nat
            /\ store'.rows[s].revision \in Nat
            /\ store'.rows[s].revision <= store'.revisions
            /\ store'.rows[s].revision = 0 => store'.rows[s].policy = NoPolicy
        BY <1>2 DEF AuthorityOK, Authorities, Row
      <3> QED
        BY SMTT(60), <3>1 DEF KnownNext, Desired
    <2> QED
      BY SMTT(60), <1>2, <2>1 DEF ReaderNext, AuthorityOK
  <1>5. /\ PassOK' /\ CellsOK'
        /\ pass'.resetting = pass.resetting /\ pass'.incomplete = pass.incomplete
    BY ZenonT(60), <1>1, <1>3, <1>4, PassCells
  <1>6. ThreadsOK'
    BY ZenonT(60), <1>1, <1>5, Parts, AfterRotationMoves, ReleaseKeeps
  <1> QED
    BY <1>5, <1>6

-----------------------------------------------------------------------------
(* The invariant                                                           *)

(* The invariant holds of a new process on a new store.                    *)
LEMMA PInvInit == Init => PInv
  <1> SUFFICES ASSUME Init PROVE PInv
    BY SMTT(60)
  <1>1. /\ store = EmptyAuthority
        /\ mat = [s \in Sections |-> Unmaterialized] /\ live = [s \in Sections |-> NoWatch]
        /\ pass = [audience |-> 0, resetting |-> FALSE, incomplete |-> FALSE]
        /\ pages = 0 /\ work = [w \in Threads |-> Idle]
    BY DEF Init
  <1>2. AInv
    BY SMTT(60), AInvInit
  <1>3. PassOK
    BY SMTT(60), <1>1 DEF PassOK
  <1>4. ThreadsOK
    <2>1. /\ work \in [Threads -> Works]
          /\ \A w \in Threads : /\ Stage(work[w]) /\ work[w].pc = "idle"
                                /\ work[w].op = "none"
      BY SMTT(60), <1>1, IdleWork
    <2> QED
      BY SMTT(60), <2>1 DEF ThreadsOK
  <1>5. CellsOK
    <2>1. mat \in [Sections -> Records] /\ live \in [Sections -> Watches]
      BY ZenonT(60), <1>1, EmptyRecord, EmptyRecords
    <2>2. ASSUME NEW s \in Sections
          PROVE  /\ Naming(Cell(mat[s], live[s])) /\ mat[s].armed.id = 0 /\ live[s].id = 0
      <3>1. mat[s] = Unmaterialized /\ live[s] = NoWatch
        BY Zenon, <1>1
      <3> QED
        BY Zenon, <3>1, EmptyNaming, EmptyRecord, EmptyRecords
    <2> QED
      BY Zenon, <2>1, <2>2 DEF CellsOK, Running
  <1> QED
    BY SMTT(60), <1>2, <1>3, <1>4, <1>5 DEF PInv

(* Every step keeps the invariant.                                         *)
LEMMA PInvStep == PInv /\ [Next]_vars => PInv'
  <1> SUFFICES ASSUME PInv, [Next]_vars PROVE PInv'
    BY SMTT(60)
  <1>1. AInv /\ AInv'
    BY SMTT(60), Parts, AInvStep
  <1>2. Forward
    BY SMTT(60), <1>1, StepForward
  <1> DEFINE Kept == PassOK' /\ CellsOK' /\ ThreadsOK'
  <1>3. ASSUME NEW w \in Threads, Step(w) PROVE Kept
    BY SMTT(60), <1>2, <1>3, ReadAuthorityKeeps, ReconcileStepKeeps, CheckRotationKeeps, RotateKeeps,
       TickCheckKeeps, StopSocketKeeps, ClearKeeps, EndResetKeeps DEF Step
  <1>4. ASSUME UNCHANGED vars PROVE Kept
    <2>1. UNCHANGED <<store, mat, pass, lock, live, pages, work>>
      BY SMTT(60), <1>4 DEF vars
    <2>2. Grounds
      BY <2>1 DEF Grounds
    <2> QED
      BY SMTT(60), <1>2, <2>1, <2>2, Parts, Quiet, ThreadsStill DEF PassOK
  <1>5. Kept
    <2>1. CASE \E id \in Ids, s \in Sections, policy \in Policies \cup {NoPolicy} :
                  Send(id, <<Reading(s, policy)>>)
      BY SMTT(60), <1>2, <2>1, SendKeeps
    <2>2. CASE \E id \in Ids, r, s \in Sections, p, q \in Policies \cup {NoPolicy} :
                  r < s /\ Send(id, <<Reading(r, p), Reading(s, q)>>)
      BY SMTT(60), <1>2, <2>2, SendKeeps
    <2>3. CASE \E w \in Workers, r \in requests : Submit(w, r)
      BY SMTT(60), <1>2, <2>3, SubmitKeeps
    <2>4. CASE \E w \in Workers, count \in 0..MaxPages : AudienceChanged(w, count)
      BY SMTT(60), <1>2, <2>4, AudienceKeeps
    <2>5. CASE \E w \in Workers : BeginReset(w)
      BY SMTT(60), <1>2, <2>5, BeginResetKeeps
    <2>6. CASE Tick
      BY SMTT(60), <1>2, <2>6, TickKeeps
    <2>7. CASE \E s \in Sections : Elapse(s)
      BY <1>2, <2>7, ElapseKeeps
    <2>8. CASE \E s \in Sections, admission \in Admissions : WorldMoves(s, admission)
      BY SMTT(60), <1>2, <2>8, WorldKeeps
    <2>9. CASE Restart
      BY <1>2, <2>9, RestartKeeps
    <2> HIDE DEF Kept
    <2> QED
      BY <1>3, <1>4, <2>1, <2>2, <2>3, <2>4, <2>5, <2>6, <2>7, <2>8, <2>9, ZenonT(60) DEF Next
  <1> QED
    BY <1>1, <1>5 DEF PInv

(* The invariant holds in every reachable state.                           *)
LEMMA PInvAlways == Spec => []PInv
  BY PInvInit, PInvStep, PTL DEF Spec

(* Every watch that can still ring is on a page: it reads as materialized  *)
(* or as pending disarm, and its row is in the authority, whatever         *)
(* rotates, fails or resets in between (desired.rs rotate_if_due, disarm,  *)
(* finish_authority_reset_locked).                                         *)
THEOREM WatchesAlwaysAddressable == Spec => []EveryWatchAddressable
  <1>1. PInv => EveryWatchAddressable
    <2> SUFFICES ASSUME PInv, NEW s \in Sections, Running(s)
                 PROVE  /\ Materialized(s) \/ mat[s].stopping.id = live[s].id
                        /\ pass.resetting \/ store.rows[s].revision > 0
      BY SMTT(60) DEF EveryWatchAddressable
    <2>1. /\ live[s].id # 0
          /\ live[s].id # 0 => live[s].id \in {mat[s].armed.id, mat[s].stopping.id}
      BY ZenonT(60), NamedAlways DEF Named, Running
    <2>2. Materialized(s) \/ mat[s].stopping.id = live[s].id
      BY Zenon, <2>1 DEF Materialized
    <2> QED
      BY ZenonT(60), <2>2, Parts DEF CellsOK
  <1> QED
    BY <1>1, PInvAlways, PTL

(* A row that reads as materialized under its own current numbers is       *)
(* watched with the policy the row asks for, also when a policy edit       *)
(* failed or a pass applied an authority another command had already       *)
(* changed (desired.rs project, reconcile_locked).                         *)
THEOREM GreenLightAlwaysTrue == Spec => []GreenLight
  <1>1. PInv => GreenLight
    <2> SUFFICES ASSUME PInv, NEW s \in Sections, Materialized(s),
                        mat[s].armed.stamp = Stamp(store, s)
                 PROVE  live[s].policy = store.rows[s].policy
      BY ZenonT(60) DEF GreenLight
    <2>1. /\ mat[s].armed.id # 0 /\ mat[s].armed.id = live[s].id
          /\ mat[s].armed.policy = live[s].policy
      BY ZenonT(60), NamedAlways DEF Named, Materialized
    <2>2. Known(mat[s].armed.stamp[1], mat[s].armed.stamp[2], mat[s].armed.policy, s)
      BY Zenon, <2>1, Parts DEF CellsOK
    <2>3. /\ Stamp(store, s)[1] = store.generation
          /\ Stamp(store, s)[2] = store.rows[s].revision
      BY Zenon, Parts, RowStamp DEF AuthorityOK
    <2> QED
      BY Zenon, <2>1, <2>2, <2>3 DEF Known
  <1> QED
    BY <1>1, PInvAlways, PTL

(* Behind the barrier of a Full Reset no watch starts, and the barrier     *)
(* comes down on an empty process only (desired.rs begin_authority_reset,  *)
(* finish_authority_reset).                                                *)
THEOREM BarrierAlwaysHolds == Spec => BarrierHolds
  <1> DEFINE Safe == pass.resetting =>
                       /\ \A s \in Sections : live'[s] \in {live[s], NoWatch}
                       /\ ~pass'.resetting => \A s \in Sections : live'[s] = NoWatch
  <1>1. PInv /\ [Next]_vars => [Safe]_vars
    <2> SUFFICES ASSUME PInv, Next, pass.resetting
                 PROVE  /\ \A s \in Sections : live'[s] \in {live[s], NoWatch}
                        /\ ~pass'.resetting => \A s \in Sections : live'[s] = NoWatch
      BY SMTT(60) DEF vars
    <2>1. ASSUME live' = live, pass' = pass
          PROVE  /\ \A s \in Sections : live'[s] \in {live[s], NoWatch}
                 /\ ~pass'.resetting => \A s \in Sections : live'[s] = NoWatch
      BY SMTT(60), <2>1
    <2>2. ASSUME NEW w \in Threads, Step(w)
          PROVE  /\ \A s \in Sections : live'[s] \in {live[s], NoWatch}
                 /\ ~pass'.resetting => \A s \in Sections : live'[s] = NoWatch
      <3>1. CASE ReadAuthority(w) \/ CheckRotation(w) \/ ClearPersonalData(w)
        BY SMTT(60), <2>1, <3>1 DEF ReadAuthority, CheckRotation, ClearPersonalData
      <3>2. CASE Reconcile(w) \/ Rotate(w)
        BY SMTT(60), <2>1, <3>2 DEF Reconcile, Rotate, ReconcileLocked
      <3>3. CASE StopSocket(w)
        BY SMTT(60), <3>3 DEF StopSocket
      <3>4. CASE TickCheck(w)
        <4>1. CASE pass.incomplete
          <5>1. pages' = pages /\ \E fault \in Faults : FinishReset(fault)
            BY ZenonT(60), <3>4, <4>1 DEF TickCheck
          <5> QED
            BY SMTT(60), <5>1, FinishResetCells
        <4>2. CASE ~pass.incomplete
          BY ZenonT(60), <2>1, <3>4, <4>2 DEF TickCheck
        <4> QED
          BY SMTT(60), <4>1, <4>2
      <3>5. CASE EndReset(w)
        <4>1. pages' = pages /\ \E fault \in Faults : FinishReset(fault)
          BY SMTT(60), <3>5 DEF EndReset
        <4> QED
          BY <4>1, FinishResetCells
      <3> QED
        BY ZenonT(60), <2>2, <3>1, <3>2, <3>3, <3>4, <3>5 DEF Step
    <2>3. CASE \E w \in Workers : BeginReset(w)
      <3>1. /\ live' = live /\ pass' = [pass EXCEPT !.resetting = TRUE, !.incomplete = FALSE]
        BY <2>3 DEF BeginReset
      <3>2. pass'.resetting = TRUE
        BY <3>1, Parts, Zenon
      <3> QED
        BY SMTT(60), <3>1, <3>2
    <2>4. CASE Tick
      BY Zenon, <2>4 DEF Tick
    <2>5. CASE Restart
      BY SMTT(60), <2>5 DEF Restart
    <2>6. CASE \/ \E id \in Ids, s \in Sections, policy \in Policies \cup {NoPolicy} :
                     Send(id, <<Reading(s, policy)>>)
               \/ \E id \in Ids, r, s \in Sections, p, q \in Policies \cup {NoPolicy} :
                     r < s /\ Send(id, <<Reading(r, p), Reading(s, q)>>)
               \/ \E w \in Workers, r \in requests : Submit(w, r)
               \/ \E w \in Workers, count \in 0..MaxPages : AudienceChanged(w, count)
               \/ \E s \in Sections : Elapse(s)
               \/ \E s \in Sections, admission \in Admissions : WorldMoves(s, admission)
      <3>1. live' = live /\ pass' = pass
        BY <2>6, Zenon DEF Send, Submit, AudienceChanged, Elapse, WorldMoves
      <3> QED
        BY SMTT(60), <2>1, <3>1
    <2> QED
      BY <2>2, <2>3, <2>4, <2>5, <2>6, Zenon DEF Next
  <1> QED
    BY <1>1, PInvAlways, PTL DEF Spec, BarrierHolds
=============================================================================
