------------------------ MODULE DesiredSectionProofs ------------------------
(***************************************************************************)
(* One section of the desired watches through a pass of the coordinator:   *)
(* whatever the pass drops, tears down, revalidates, retires, adopts or    *)
(* arms, and whichever call of the owner fails, the section's record goes  *)
(* on naming its watch (ReconcileKeeps); and what the section's record and *)
(* a pass have read of the store stays known to it as it moves forward.    *)
(***************************************************************************)
EXTENDS DesiredWatch, TLAPS

-----------------------------------------------------------------------------
(* One section through a pass                                              *)

(* From cell c to cell d under the authority a: the record names the       *)
(* watch, a watch is new only where a row asks for it, and the armed       *)
(* record is gone, kept, or stamped and set to what the row asks.          *)
Armature(cell) == cell.m.armed
Becomes(c, d, a, s) ==
    /\ Naming(d) /\ Armature(d).id \in {0, d.w.id}
    /\ d.w.id # 0 => c.w.id # 0 \/ Desired(a.rows[s])
    /\ \/ Armature(d).id = 0
       \/ Armature(d) = Armature(c)
       \/ Armature(d).stamp = Stamp(a, s) /\ Armature(d).policy = a.rows[s].policy

(* The fields of a cell.                                                   *)
LEMMA CellFields ==
    ASSUME NEW cell \in Cells
    PROVE  /\ cell.m \in Records /\ cell.w \in Watches
           /\ cell.m.armed \in ArmedRecords /\ cell.m.armed.id \in Nat
           /\ cell.m.stopping \in [id : Nat, due : BOOLEAN] /\ cell.m.stopping.id \in Nat
           /\ cell.w.id \in Nat
  BY DEF Cells, Records, ArmedRecords, Watches

(* Empty records are records.                                              *)
LEMMA EmptyRecords ==
    /\ NoWatch \in Watches /\ NoArmed \in ArmedRecords
    /\ NoStopping \in [id : Nat, due : BOOLEAN]
    /\ NoFailure \in [stamp : Stamps, class : {"none", "transient", "permanent"}]
    /\ NoRetry \in [stamp : Stamps, due : BOOLEAN]
    /\ NoWatch.id = 0 /\ NoArmed.id = 0 /\ NoStopping.id = 0 /\ ~NoStopping.due
  BY DEF NoWatch, NoArmed, NoStopping, NoFailure, NoRetry, NoStamp, Stamps,
         Watches, ArmedRecords, Choices

(* The record of a section that runs nothing.                              *)
LEMMA EmptyRecord ==
    /\ Unmaterialized \in Records
    /\ Unmaterialized.armed = NoArmed /\ Unmaterialized.stopping = NoStopping
  BY EmptyRecords DEF Unmaterialized, Records

(* A row's stamp.                                                          *)
LEMMA RowStamp ==
    ASSUME NEW a \in Authorities, NEW s \in Sections
    PROVE  /\ Stamp(a, s) \in Stamps /\ a.rows[s].policy \in Choices
           /\ Stamp(a, s)[1] = a.generation /\ Stamp(a, s)[2] = a.rows[s].revision
           /\ a.generation \in Nat /\ a.rows[s].revision \in Nat
  <1>1. a.generation \in Nat /\ a.rows[s] \in Row
    BY DEF Authorities
  <1>2. /\ a.rows[s].revision \in Nat /\ a.rows[s].epoch \in Nat
        /\ a.rows[s].policy \in Choices
    BY <1>1 DEF Row, Choices
  <1> QED
    BY <1>1, <1>2 DEF Stamp, Stamps

(* Becoming composes.                                                      *)
LEMMA BecomesTwice ==
    ASSUME NEW c, NEW d, NEW e, NEW a, NEW s, Becomes(c, d, a, s), Becomes(d, e, a, s)
    PROVE  Becomes(c, e, a, s)
  BY Zenon DEF Becomes

(* What disarm does to the fields of a cell.                               *)
LEMMA DisarmFields ==
    ASSUME NEW cell \in Cells, NEW id \in Nat, NEW call
    PROVE  LET d == Disarm(cell, id, call)
           IN  /\ d \in Cells /\ d.m.armed = NoArmed
               /\ d.w = IF cell.w.id = id /\ call # "fails" THEN NoWatch ELSE cell.w
               /\ d.m.stopping = IF cell.w.id # id \/ call = "ok" THEN NoStopping
                                 ELSE [id |-> id, due |-> FALSE]
  <1> DEFINE S == [id : Nat, due : BOOLEAN]
             F == [stamp : Stamps, class : {"none", "transient", "permanent"}]
             R == [stamp : Stamps, due : BOOLEAN]
             stop == IF cell.w.id # id \/ call = "ok" THEN NoStopping
                     ELSE [id |-> id, due |-> FALSE]
             w == IF cell.w.id = id /\ call # "fails" THEN NoWatch ELSE cell.w
             m == [cell.m EXCEPT !.armed = NoArmed, !.blocked = FALSE, !.stopping = stop]
  <1>1. cell.m \in [armed : ArmedRecords, stopping : S, blocked : BOOLEAN,
                    failure : F, retry : R] /\ cell.w \in Watches
    BY CellFields DEF Records
  <1>2. stop \in S /\ w \in Watches /\ NoArmed \in ArmedRecords
    BY <1>1, EmptyRecords
  <1>3. Disarm(cell, id, call) = [m |-> m, w |-> w]
    BY Zenon DEF Disarm, Cell
  <1> HIDE DEF stop, w, S, F, R
  <1>4. /\ m \in [armed : ArmedRecords, stopping : S, blocked : BOOLEAN,
                  failure : F, retry : R]
        /\ m.armed = NoArmed /\ m.stopping = stop
    BY Zenon, <1>1, <1>2
  <1> HIDE DEF m
  <1>5. m \in Records
    BY <1>4 DEF Records, S, F, R
  <1> QED
    BY SMTT(60), <1>2, <1>3, <1>4, <1>5 DEF Cells, stop, w

(* Disarming the watch a record names keeps it named until it is gone.     *)
LEMMA DisarmBecomes ==
    ASSUME NEW cell, Naming(cell), NEW id \in Nat \ {0}, id = cell.w.id,
           NEW call \in Calls, NEW a, NEW s
    PROVE  Becomes(cell, Disarm(cell, id, call), a, s)
  <1> DEFINE d == Disarm(cell, id, call)
  <1>1. cell \in Cells
    BY DEF Naming
  <1>2. /\ d \in Cells /\ d.m.armed = NoArmed
        /\ d.w = IF cell.w.id = id /\ call # "fails" THEN NoWatch ELSE cell.w
        /\ d.m.stopping = IF cell.w.id # id \/ call = "ok" THEN NoStopping
                          ELSE [id |-> id, due |-> FALSE]
    BY SMTT(60), <1>1, DisarmFields
  <1> HIDE DEF d
  <1>3. Naming(d)
    BY <1>2, EmptyRecords DEF Naming, Calls
  <1>4. Armature(d).id = 0
    BY <1>2, EmptyRecords DEF Armature
  <1>5. d.w.id # 0 => cell.w.id # 0
    BY SMTT(60), <1>2, EmptyRecords
  <1> QED
    BY SMTT(60), <1>3, <1>4, <1>5 DEF Becomes, d

(* A step that leaves the watch, the armed record and the teardown alone.  *)
Same(c, d) ==
    /\ d \in Cells /\ d.w = c.w
    /\ d.m.armed = c.m.armed /\ d.m.stopping = c.m.stopping

(* Such a step is one a pass may take.                                     *)
LEMMA SameBecomes ==
    ASSUME NEW c, Naming(c), Armature(c).id \in {0, c.w.id}, NEW d, Same(c, d),
           NEW a, NEW s
    PROVE  Becomes(c, d, a, s)
  BY DEF Same, Becomes, Naming, Armature

(* A cell whose record is changed beside the watch.                        *)
LEMMA RecordChanged ==
    ASSUME NEW c \in Cells, NEW m \in Records
    PROVE  /\ [c EXCEPT !.m = m] \in Cells
           /\ [c EXCEPT !.m = m].m = m /\ [c EXCEPT !.m = m].w = c.w
  BY DEF Cells

(* A recorded failure.                                                     *)
LEMMA FailedRecord ==
    ASSUME NEW m \in Records, NEW stamp \in Stamps, NEW class \in {"transient", "permanent"}
    PROVE  LET f == Failed(m, stamp, class)
           IN  f \in Records /\ f.armed = m.armed /\ f.stopping = m.stopping
  <1> DEFINE x == [stamp |-> stamp, class |-> class]
             y == IF class = "transient" THEN [stamp |-> stamp, due |-> FALSE] ELSE NoRetry
             S == [id : Nat, due : BOOLEAN]
             F == [stamp : Stamps, class : {"none", "transient", "permanent"}]
             R == [stamp : Stamps, due : BOOLEAN]
             f == [m EXCEPT !.failure = x, !.retry = y]
  <1>1. x \in F /\ y \in R
    BY EmptyRecords
  <1>2. Failed(m, stamp, class) = f
    BY Zenon DEF Failed
  <1>3. m \in [armed : ArmedRecords, stopping : S, blocked : BOOLEAN, failure : F, retry : R]
    BY DEF Records
  <1> HIDE DEF x, y, S, F, R
  <1>4. /\ f \in [armed : ArmedRecords, stopping : S, blocked : BOOLEAN, failure : F, retry : R]
        /\ f.armed = m.armed /\ f.stopping = m.stopping
    BY Zenon, <1>1, <1>3
  <1> HIDE DEF f
  <1>5. f \in Records
    BY <1>4 DEF Records, S, F, R
  <1> QED
    BY <1>2, <1>4, <1>5

(* The record is cleaned of watches the owner does not hold.               *)
LEMMA DropStaleBecomes ==
    ASSUME NEW c, Naming(c), NEW a, NEW s
    PROVE  LET d == DropStale(c)
           IN  Becomes(c, d, a, s) /\ d.m.stopping.id \in {0, d.w.id}
  <1> DEFINE x == IF c.m.armed.id = c.w.id THEN c.m.armed ELSE NoArmed
             y == c.m.blocked /\ c.m.armed.id \in {0, c.w.id}
             z == IF c.m.stopping.id = c.w.id THEN c.m.stopping ELSE NoStopping
             d == DropStale(c)
  <1>1. /\ c \in Cells
        /\ c.w.id # 0 => c.w.id \in {c.m.armed.id, c.m.stopping.id}
        /\ c.m.stopping.id = 0 => ~c.m.stopping.due
        /\ c.m.armed.id # 0 /\ c.m.armed.id = c.w.id => c.m.armed.policy = c.w.policy
    BY DEF Naming
  <1>2. d \in Cells
    BY ZenonT(60), <1>1 DEF DropStale, Cells, Records, ArmedRecords, Watches, NoArmed, NoStopping,
                NoStamp, Stamps, Choices
  <1>3. d.w = c.w /\ d.m.armed = x /\ d.m.stopping = z
    BY Zenon, <1>1 DEF DropStale, Cells, Records
  <1> HIDE DEF d
  <1>4. /\ c.m.armed.id \in Nat /\ c.m.stopping.id \in Nat /\ c.w.id \in Nat
    BY <1>1, CellFields
  <1>5. /\ x.id \in {0, c.w.id} /\ z.id \in {0, c.w.id}
        /\ c.w.id # 0 => c.w.id \in {x.id, z.id}
        /\ z.id = 0 => ~z.due
        /\ x.id # 0 => x = c.m.armed /\ x.policy = c.w.policy
    BY <1>1, <1>4, EmptyRecords
  <1> HIDE DEF x, z
  <1>6. Naming(d)
    BY <1>2, <1>3, <1>5 DEF Naming
  <1> QED
    BY SMTT(60), <1>3, <1>5, <1>6 DEF Becomes, Armature, d

(* An unfinished teardown is tried again.                                  *)
LEMMA RetryTeardownBecomes ==
    ASSUME NEW c, Naming(c), Armature(c).id \in {0, c.w.id}, c.m.stopping.id \in {0, c.w.id},
           NEW call \in Calls, NEW a, NEW s
    PROVE  Becomes(c, RetryTeardown(c, call), a, s)
  <1>1. c \in Cells /\ c.m.stopping.id \in Nat /\ (c.m.stopping.id = 0 => ~c.m.stopping.due)
    BY CellFields DEF Naming
  <1>2. CASE c.m.stopping.due
    <2>1. c.m.stopping.id \in Nat \ {0} /\ c.m.stopping.id = c.w.id
      BY <1>1, <1>2
    <2> QED
      BY SMTT(60), <1>2, <2>1, DisarmBecomes DEF RetryTeardown
  <1>3. CASE ~c.m.stopping.due
    <2>1. RetryTeardown(c, call) = c
      BY <1>3 DEF RetryTeardown
    <2> QED
      BY SMTT(60), <1>1, <2>1, SameBecomes DEF Same
  <1> QED
    BY SMTT(60), <1>2, <1>3

(* A section no longer admitted loses its watch.                           *)
LEMMA RevalidateBecomes ==
    ASSUME NEW c, Naming(c), Armature(c).id \in {0, c.w.id}, NEW stamp \in Stamps,
           NEW admission, NEW call \in Calls, NEW a, NEW s
    PROVE  Becomes(c, Revalidate(c, stamp, admission, call), a, s)
  <1>1. c \in Cells /\ c.m.armed.id \in Nat
    BY CellFields DEF Naming
  <1>2. CASE c.m.armed.id = 0 \/ admission = "admitted"
    <2>1. Revalidate(c, stamp, admission, call) = c
      BY <1>2 DEF Revalidate
    <2> QED
      BY <1>1, <2>1, SameBecomes DEF Same
  <1>3. CASE ~(c.m.armed.id = 0 \/ admission = "admitted")
    <2> DEFINE n == Disarm(c, c.m.armed.id, call)
               class == IF admission = "refused" THEN "permanent" ELSE "transient"
               m == Failed(n.m, stamp, class)
               d == [n EXCEPT !.m = m]
    <2>1. Revalidate(c, stamp, admission, call) = d
      BY <1>3, Zenon DEF Revalidate
    <2>2. c.m.armed.id \in Nat \ {0} /\ c.m.armed.id = c.w.id
      BY <1>1, <1>3 DEF Armature
    <2>3. Becomes(c, n, a, s)
      BY <2>2, DisarmBecomes
    <2>4. class \in {"transient", "permanent"}
      BY SMTT(60)
    <2> HIDE DEF n, class
    <2>5. Naming(n) /\ n \in Cells /\ Armature(n).id \in {0, n.w.id} /\ n.m \in Records
      BY <2>3, CellFields DEF Becomes, Naming
    <2>6. m \in Records /\ m.armed = n.m.armed /\ m.stopping = n.m.stopping
      BY <2>4, <2>5, FailedRecord
    <2> HIDE DEF m
    <2>7. Same(n, d)
      BY <2>5, <2>6, RecordChanged DEF Same
    <2> HIDE DEF d
    <2>8. Becomes(n, d, a, s)
      BY <2>5, <2>7, SameBecomes
    <2> QED
      BY SMTT(60), <2>1, <2>3, <2>8, BecomesTwice
  <1> QED
    BY <1>2, <1>3

(* Forgetting a failure leaves the watch and its names alone.              *)
LEMMA ClearedFailure ==
    ASSUME NEW c \in Cells
    PROVE  Same(c, [c EXCEPT !.m.failure = NoFailure, !.m.retry = NoRetry])
  <1> DEFINE S == [id : Nat, due : BOOLEAN]
             F == [stamp : Stamps, class : {"none", "transient", "permanent"}]
             R == [stamp : Stamps, due : BOOLEAN]
             d == [c EXCEPT !.m.failure = NoFailure, !.m.retry = NoRetry]
  <1>1. /\ NoFailure \in F /\ NoRetry \in R
        /\ c \in [m : [armed : ArmedRecords, stopping : S, blocked : BOOLEAN,
                       failure : F, retry : R], w : Watches]
    BY EmptyRecords DEF Cells, Records
  <1> HIDE DEF F, R, S
  <1>2. /\ d \in [m : [armed : ArmedRecords, stopping : S, blocked : BOOLEAN,
                       failure : F, retry : R], w : Watches]
        /\ d.w = c.w /\ d.m.armed = c.m.armed /\ d.m.stopping = c.m.stopping
    BY Zenon, <1>1
  <1> HIDE DEF d
  <1>3. d \in Cells
    BY <1>2 DEF Cells, Records, S, F, R
  <1> QED
    BY <1>2, <1>3 DEF Same, d

(* retire: the watch of a section nobody wants is stopped.                 *)
LEMMA RetireBecomes ==
    ASSUME NEW c, Naming(c), Armature(c).id \in {0, c.w.id}, NEW call \in Calls, NEW a, NEW s
    PROVE  Becomes(c, Retire(c, call), a, s)
  <1>1. c \in Cells /\ c.m.armed.id \in Nat
    BY CellFields DEF Naming
  <1>2. CASE c.m.armed.id = 0
    <2>1. Retire(c, call) = c
      BY <1>2 DEF Retire
    <2> QED
      BY <1>1, <2>1, SameBecomes DEF Same
  <1>3. CASE c.m.armed.id # 0
    <2> DEFINE n == Disarm(c, c.m.armed.id, call)
               d == [n EXCEPT !.m.failure = NoFailure, !.m.retry = NoRetry]
    <2>1. Retire(c, call) \in {n, d}
      BY <1>3, Zenon DEF Retire
    <2>2. c.m.armed.id \in Nat \ {0} /\ c.m.armed.id = c.w.id
      BY <1>1, <1>3 DEF Armature
    <2>3. Becomes(c, n, a, s)
      BY SMTT(60), <2>2, DisarmBecomes
    <2> HIDE DEF n
    <2>4. Naming(n) /\ n \in Cells /\ Armature(n).id \in {0, n.w.id}
      BY <2>3 DEF Becomes, Naming
    <2>5. Same(n, d)
      BY Zenon, <2>4, ClearedFailure
    <2> HIDE DEF d
    <2>6. Becomes(c, d, a, s)
      BY ZenonT(60), <2>3, <2>4, <2>5, SameBecomes, BecomesTwice
    <2> QED
      BY <2>1, <2>3, <2>6
  <1> QED
    BY SMTT(60), <1>2, <1>3

(* A running watch is adopted under the current stamp and policy.          *)
LEMMA AdoptBecomes ==
    ASSUME NEW c, Naming(c), Armature(c).id \in {0, c.w.id}, NEW call \in Calls,
           NEW a \in Authorities, NEW s \in Sections
    PROVE  Becomes(c, Adopt(c, Stamp(a, s), a.rows[s].policy, call), a, s)
  <1> DEFINE stamp == Stamp(a, s)
             policy == a.rows[s].policy
             d == Adopt(c, stamp, policy, call)
             S == [id : Nat, due : BOOLEAN]
             F == [stamp : Stamps, class : {"none", "transient", "permanent"}]
             R == [stamp : Stamps, due : BOOLEAN]
             M == [armed : ArmedRecords, stopping : S, blocked : BOOLEAN, failure : F, retry : R]
  <1>1. /\ c \in Cells /\ c.m.armed \in ArmedRecords /\ c.m.armed.id \in Nat /\ c.m \in Records
        /\ c.w \in Watches
        /\ c.w.id # 0 => c.w.id \in {c.m.armed.id, c.m.stopping.id}
        /\ c.m.stopping.id = 0 => ~c.m.stopping.due
        /\ c.m.armed.id # 0 /\ c.m.armed.id = c.w.id => c.m.armed.policy = c.w.policy
    BY CellFields DEF Naming
  <1>2. stamp \in Stamps /\ policy \in Choices
    BY RowStamp
  <1> HIDE DEF stamp, policy
  <1>3. CASE c.m.armed.id = 0
    <2>1. d = c
      BY SMTT(60), <1>3 DEF Adopt
    <2> HIDE DEF d
    <2>2. Becomes(c, d, a, s)
      BY SMTT(60), <1>1, <2>1, SameBecomes DEF Same
    <2> QED
      BY <2>2 DEF d, stamp, policy
  <1>4. ASSUME c.m.armed.id # 0, d \in Cells, d.w.id = c.w.id, d.w.policy = policy,
               d.m.armed.id = c.m.armed.id, d.m.armed.stamp = stamp,
               d.m.armed.policy = policy, d.m.stopping = c.m.stopping
        PROVE  Becomes(c, d, a, s)
    <2> HIDE DEF d
    <2>1. Naming(d)
      BY SMTT(60), <1>1, <1>4 DEF Naming
    <2> QED
      BY SMTT(60), <1>1, <1>4, <2>1 DEF Becomes, Armature, stamp, policy
  <1>a. /\ NoFailure \in F /\ NoRetry \in R
        /\ c \in [m : M, w : Watches]
    BY SMTT(60), <1>1, EmptyRecords DEF Cells, Records
  <1>5. CASE c.m.armed.id # 0 /\ c.m.armed.policy = policy
    <2> DEFINE e == [c EXCEPT !.m.armed.stamp = stamp, !.m.failure = NoFailure,
                              !.m.retry = NoRetry, !.m.blocked = FALSE]
               x == [c.m.armed EXCEPT !.stamp = stamp]
    <2>1. d = e
      BY <1>5, Zenon DEF Adopt
    <2>2. /\ x \in ArmedRecords /\ x.id = c.m.armed.id /\ x.stamp = stamp
          /\ x.policy = c.m.armed.policy
      BY <1>1, <1>2 DEF ArmedRecords
    <2> HIDE DEF F, R, S
    <2>3. e.m.armed = x
      BY Zenon, <1>a
    <2> HIDE DEF x
    <2>4. e.w = c.w /\ e.m.stopping = c.m.stopping
      BY Zenon, <1>a
    <2>5. e \in [m : M, w : Watches]
      BY ZenonT(60), <1>2, <1>a DEF ArmedRecords
    <2> HIDE DEF e
    <2>6. e \in Cells
      BY SMTT(60), <2>5 DEF Cells, Records, S, F, R
    <2>7. c.w.policy = policy
      BY SMTT(60), <1>1, <1>5 DEF Armature
    <2>8. Becomes(c, d, a, s)
      BY SMTT(60), <1>4, <1>5, <2>1, <2>2, <2>3, <2>4, <2>6, <2>7
    <2> QED
      BY <2>8 DEF d, stamp, policy
  <1>6. CASE c.m.armed.id # 0 /\ c.m.armed.policy # policy /\ call = "ok"
    <2> DEFINE e == [c EXCEPT !.m.armed = [@ EXCEPT !.stamp = stamp, !.policy = policy],
                              !.m.failure = NoFailure, !.m.retry = NoRetry,
                              !.w.policy = policy]
               x == [c.m.armed EXCEPT !.stamp = stamp, !.policy = policy]
               v == [c.w EXCEPT !.policy = policy]
    <2>1. d = e
      BY <1>6, Zenon DEF Adopt
    <2>2. /\ x \in ArmedRecords /\ x.id = c.m.armed.id /\ x.stamp = stamp /\ x.policy = policy
          /\ v \in Watches /\ v.id = c.w.id /\ v.policy = policy
      BY Zenon, <1>1, <1>2 DEF ArmedRecords, Watches
    <2> HIDE DEF F, R, S
    <2>3. e.m.armed = x /\ e.w = v /\ e.m.stopping = c.m.stopping
      BY Zenon, <1>a
    <2>5. e \in [m : M, w : Watches]
      BY ZenonT(60), <1>2, <1>a DEF ArmedRecords, Watches
    <2> HIDE DEF e, x, v
    <2>6. e \in Cells
      BY <2>5 DEF Cells, Records, S, F, R
    <2>8. Becomes(c, d, a, s)
      BY SMTT(60), <1>4, <1>6, <2>1, <2>2, <2>3, <2>6
    <2> QED
      BY <2>8 DEF d, stamp, policy
  <1>7. CASE c.m.armed.id # 0 /\ c.m.armed.policy # policy /\ call # "ok"
    <2> DEFINE m == Failed(c.m, stamp, "transient")
               e == [c EXCEPT !.m = m]
    <2>1. d = e
      BY <1>7, Zenon DEF Adopt
    <2>2. m \in Records /\ m.armed = c.m.armed /\ m.stopping = c.m.stopping
      BY SMTT(60), <1>1, <1>2, FailedRecord
    <2> HIDE DEF m
    <2>3. Same(c, e)
      BY SMTT(60), <1>1, <2>2, RecordChanged DEF Same
    <2> HIDE DEF e, d
    <2>4. Becomes(c, d, a, s)
      BY SMTT(60), <2>1, <2>3, SameBecomes
    <2> QED
      BY <2>4 DEF d, stamp, policy
  <1> QED
    BY SMTT(60), <1>3, <1>5, <1>6, <1>7

(* A record without a watch and without a teardown may be dropped.         *)
LEMMA RetainedBecomes ==
    ASSUME NEW c, Naming(c), Armature(c).id \in {0, c.w.id}, NEW keep, NEW a, NEW s
    PROVE  Becomes(c, Retained(c, keep), a, s)
  <1>1. c \in Cells /\ c.w \in Watches
    BY SMTT(60), CellFields DEF Naming
  <1>2. CASE Retained(c, keep) = c
    BY SMTT(60), <1>1, <1>2, SameBecomes DEF Same
  <1>3. CASE Retained(c, keep) # c
    <2> DEFINE d == [m |-> Unmaterialized, w |-> c.w]
    <2>1. /\ Retained(c, keep) = d /\ c.m.armed.id = 0 /\ c.m.stopping.id = 0
      BY SMTT(60), <1>3 DEF Retained, Cell
    <2>2. c.w.id = 0
      BY <2>1 DEF Naming
    <2>3. /\ d \in Cells /\ d.w = c.w /\ d.m.armed = NoArmed /\ d.m.stopping = NoStopping
      BY SMTT(60), <1>1, EmptyRecord DEF Cells
    <2> HIDE DEF d
    <2>4. Naming(d)
      BY SMTT(60), <2>2, <2>3, EmptyRecords DEF Naming
    <2>5. Becomes(c, d, a, s)
      BY SMTT(60), <2>2, <2>3, <2>4, EmptyRecords DEF Becomes, Armature
    <2> QED
      BY <2>1, <2>5
  <1> QED
    BY SMTT(60), <1>2, <1>3

(* What a pass makes of one section before the arming.                     *)
LEMMA SettledBecomes ==
    ASSUME NEW a \in Authorities, NEW revalidate, NEW s \in Sections, NEW c, Naming(c),
           NEW call \in Calls
    PROVE  Becomes(c, Settled(a, revalidate, s, c, call), a, s)
  <1> DEFINE e == DropStale(c)
             clean == RetryTeardown(e, call)
             valid == IF revalidate /\ Desired(a.rows[s])
                      THEN Revalidate(clean, Stamp(a, s), world[s], call) ELSE clean
             d == Settled(a, revalidate, s, c, call)
             left(x) == Retained(Retire(x, call), FALSE)
             adopted == Adopt(valid, Stamp(a, s), a.rows[s].policy, call)
  <1>1. d \in {left(clean), adopted, left(valid)}
    BY Zenon DEF Settled
  <1>2. Stamp(a, s) \in Stamps
    BY SMTT(60), RowStamp
  <1>3. Becomes(c, e, a, s) /\ e.m.stopping.id \in {0, e.w.id}
    BY SMTT(60), DropStaleBecomes
  <1> HIDE DEF e
  <1>4. Naming(e) /\ Armature(e).id \in {0, e.w.id}
    BY <1>3 DEF Becomes
  <1>5. Becomes(c, clean, a, s)
    BY Zenon, <1>3, <1>4, RetryTeardownBecomes, BecomesTwice
  <1> HIDE DEF clean
  <1>6. Naming(clean) /\ Armature(clean).id \in {0, clean.w.id}
    BY SMTT(60), <1>5 DEF Becomes
  <1>7. Becomes(c, valid, a, s)
    BY SMTT(60), <1>2, <1>5, <1>6, RevalidateBecomes, BecomesTwice
  <1> HIDE DEF valid
  <1>8. ASSUME NEW x, Becomes(c, x, a, s) PROVE Becomes(c, left(x), a, s)
    <2> DEFINE y == Retire(x, call)
    <2>1. Naming(x) /\ Armature(x).id \in {0, x.w.id}
      BY <1>8 DEF Becomes
    <2>2. Becomes(c, y, a, s)
      BY Zenon, <1>8, <2>1, RetireBecomes, BecomesTwice
    <2> HIDE DEF y
    <2>3. Naming(y) /\ Armature(y).id \in {0, y.w.id}
      BY <2>2 DEF Becomes
    <2>4. Becomes(c, Retained(y, FALSE), a, s)
      BY Zenon, <2>2, <2>3, RetainedBecomes, BecomesTwice
    <2> QED
      BY Zenon, <2>4 DEF y
  <1>9. Becomes(c, adopted, a, s)
    <2>1. Naming(valid) /\ Armature(valid).id \in {0, valid.w.id}
      BY <1>7 DEF Becomes
    <2> QED
      BY SMTT(60), <1>7, <2>1, AdoptBecomes, BecomesTwice
  <1> HIDE DEF left, adopted, d
  <1>10. Becomes(c, d, a, s)
    BY SMTT(60), <1>1, <1>5, <1>7, <1>8, <1>9
  <1> QED
    BY <1>10 DEF d

(* A section that may be armed runs nothing.                               *)
LEMMA ArmableIdle ==
    ASSUME NEW c, Naming(c), NEW a, NEW s, MayArm(a, s, c)
    PROVE  /\ c.w.id = 0 /\ c.m.armed.id = 0 /\ c.m.stopping.id = 0 /\ Desired(a.rows[s])
  BY DEF Naming, MayArm

(* What the start call makes of one section.                               *)
LEMMA ArmedBecomes ==
    ASSUME NEW a \in Authorities, NEW s \in Sections, NEW c, Naming(c), MayArm(a, s, c),
           NEW slots
    PROVE  Becomes(c, Armed(a, s, c, slots), a, s)
  <1> DEFINE stamp == Stamp(a, s)
             policy == a.rows[s].policy
             id == FreshId(c)
             d == Armed(a, s, c, slots)
             noted(class, b) == [c EXCEPT !.m = [Failed(c.m, stamp, class) EXCEPT !.blocked = b]]
             x == [id |-> id, policy |-> policy, stamp |-> stamp]
             m == [Unmaterialized EXCEPT !.armed = x]
             w == [id |-> id, policy |-> policy]
             started == [m |-> m, w |-> w]
  <1>1. /\ c \in Cells /\ c.m \in Records
        /\ c.w.id = 0 /\ c.m.armed.id = 0 /\ c.m.stopping.id = 0 /\ Desired(a.rows[s])
    BY ArmableIdle, CellFields DEF Naming
  <1>2. stamp \in Stamps /\ policy \in Choices
    BY RowStamp
  <1>3. id \in Nat
    <2>1. \E i \in 1..2 : i # c.w.id /\ i # c.m.stopping.id
      <3>1. 1 \in 1..2 /\ 1 # c.w.id /\ 1 # c.m.stopping.id
        BY <1>1
      <3> QED
        BY <3>1
    <2>2. id \in 1..2
      BY <2>1, Zenon DEF FreshId
    <2> QED
      BY <2>2
  <1>4. d \in {noted("transient", FALSE), noted("permanent", FALSE), noted("transient", TRUE),
               started}
    BY Zenon DEF Armed, Cell
  <1>5. ASSUME NEW class \in {"transient", "permanent"}, NEW b \in BOOLEAN
        PROVE  Becomes(c, noted(class, b), a, s)
    <2> DEFINE f == Failed(c.m, stamp, class)
               g == [f EXCEPT !.blocked = b]
               e == [c EXCEPT !.m = g]
    <2>1. f \in Records /\ f.armed = c.m.armed /\ f.stopping = c.m.stopping
      BY SMTT(60), <1>1, <1>2, FailedRecord
    <2> HIDE DEF f
    <2>2. g \in Records /\ g.armed = f.armed /\ g.stopping = f.stopping
      BY <2>1 DEF Records
    <2> HIDE DEF g
    <2>3. Same(c, e)
      BY SMTT(60), <1>1, <2>1, <2>2, RecordChanged DEF Same
    <2>4. Becomes(c, e, a, s)
      BY SMTT(60), <1>1, <2>3, SameBecomes DEF Armature
    <2> QED
      BY SMTT(60), <2>4 DEF e, g, f
  <1>6. Becomes(c, started, a, s)
    <2> HIDE DEF id, stamp, policy
    <2>1. /\ x \in ArmedRecords /\ w \in Watches /\ x.id = id /\ w.id = id
          /\ x.policy = policy /\ w.policy = policy /\ x.stamp = stamp
      BY <1>2, <1>3 DEF ArmedRecords, Watches
    <2> HIDE DEF x, w
    <2>2. m \in Records /\ m.armed = x /\ m.stopping = NoStopping
      BY SMTT(60), <2>1, EmptyRecord DEF Records
    <2> HIDE DEF m
    <2>3. started \in Cells /\ started.m = m /\ started.w = w
      BY SMTT(60), <2>1, <2>2 DEF Cells
    <2> HIDE DEF started
    <2>4. Naming(started)
      BY SMTT(60), <2>1, <2>2, <2>3, EmptyRecords DEF Naming
    <2> QED
      BY SMTT(60), <1>1, <2>1, <2>2, <2>3, <2>4 DEF Becomes, Armature, stamp, policy
  <1> HIDE DEF noted, started, d
  <1>7. Becomes(c, d, a, s)
    BY Zenon, <1>4, <1>5, <1>6
  <1> QED
    BY SMTT(60), <1>7 DEF d

(* A fault of a pass is an answer of the owner.                            *)
LEMMA FaultCalls ==
    ASSUME NEW fault \in Faults, NEW s \in Sections
    PROVE  CallTo(fault, s) \in Calls
  <1>1. CASE fault = NoFault
    BY <1>1 DEF NoFault, CallTo, Calls
  <1>2. CASE fault \in [section : Sections, call : Calls \ {"ok"}, start : {"ok"}]
    BY <1>2 DEF CallTo, Calls
  <1>3. CASE fault = [NoFault EXCEPT !.start = "fails"]
    BY SMTT(60), <1>3 DEF NoFault, CallTo, Calls
  <1> QED
    BY SMTT(60), <1>1, <1>2, <1>3 DEF Faults

(* Every section goes through a pass this way.                             *)
LEMMA PassBecomes ==
    ASSUME NEW a \in Authorities, NEW revalidate, NEW fault \in Faults,
           NEW s \in Sections, Naming(Cell(mat[s], live[s]))
    PROVE  Becomes(Cell(mat[s], live[s]), Pass(a, revalidate, fault)[s], a, s)
  <1> DEFINE c(t) == Cell(mat[t], live[t])
             cells == [t \in Sections |-> Settled(a, revalidate, t, c(t), CallTo(fault, t))]
             arming == {t \in Sections : MayArm(a, t, cells[t])}
             held == Cardinality({t \in Sections : cells[t].w.id # 0})
             ahead(t) == Cardinality({r \in arming : r < t /\ world[r] = "admitted"
                                                     /\ cells[r].w.id = 0})
             stamp == Stamp(a, s)
             unstarted == [cells[s] EXCEPT !.m = Failed(cells[s].m, stamp, "transient")]
             started == Armed(a, s, cells[s], held + ahead(s) < MaxDesired)
             d == Pass(a, revalidate, fault)[s]
  <1>1. /\ s \notin arming => d = cells[s]
        /\ s \in arming => d \in {unstarted, started}
    BY Zenon DEF Pass
  <1>2. cells[s] = Settled(a, revalidate, s, c(s), CallTo(fault, s))
    BY Zenon
  <1>3. s \in arming => MayArm(a, s, cells[s])
    BY SMTT(60)
  <1> DEFINE x == cells[s]
  <1> HIDE DEF cells, arming, held, ahead, c
  <1>4. Becomes(c(s), x, a, s)
    BY SMTT(60), <1>2, FaultCalls, SettledBecomes DEF c
  <1>5. Naming(x) /\ x \in Cells /\ x.m \in Records /\ Armature(x).id \in {0, x.w.id}
    BY Zenon, <1>4, CellFields DEF Becomes, Naming
  <1>6. CASE s \notin arming
    BY SMTT(60), <1>1, <1>4, <1>6 DEF c
  <1>7. CASE s \in arming
    <2>1. Becomes(x, started, a, s)
      BY SMTT(60), <1>3, <1>5, <1>7, ArmedBecomes
    <2>2. Becomes(x, unstarted, a, s)
      <3> DEFINE m == Failed(x.m, stamp, "transient")
                 e == [x EXCEPT !.m = m]
      <3>1. stamp \in Stamps
        BY SMTT(60), RowStamp
      <3>2. m \in Records /\ m.armed = x.m.armed /\ m.stopping = x.m.stopping
        BY SMTT(60), <1>5, <3>1, FailedRecord
      <3> HIDE DEF m, x
      <3>3. Same(x, e)
        BY SMTT(60), <1>5, <3>2, RecordChanged DEF Same
      <3>4. Becomes(x, e, a, s)
        BY SMTT(60), <1>5, <3>3, SameBecomes
      <3> QED
        BY SMTT(60), <3>4 DEF e, m, x
    <2>3. Becomes(c(s), started, a, s) /\ Becomes(c(s), unstarted, a, s)
      BY SMTT(60), <1>4, <2>1, <2>2, BecomesTwice
    <2> HIDE DEF started, unstarted, d
    <2>4. Becomes(c(s), d, a, s)
      BY SMTT(60), <1>1, <1>7, <2>3
    <2> QED
      BY SMTT(60), <2>4 DEF c, d
  <1> QED
    BY <1>6, <1>7

(* A cell built from a record and a watch.                                 *)
LEMMA CellParts ==
    ASSUME NEW m, NEW w
    PROVE  Cell(m, w).m = m /\ Cell(m, w).w = w
  BY SMTT(60) DEF Cell

(* What the record of a section says of its watch.                         *)
Named(m, w) ==
    /\ w.id # 0 => w.id \in {m.armed.id, m.stopping.id}
    /\ m.stopping.id = 0 => ~m.stopping.due
    /\ m.armed.id # 0 /\ m.armed.id = w.id => m.armed.policy = w.policy

(* Naming of a cell, from its record and its watch.                        *)
LEMMA NamingParts ==
    ASSUME NEW m \in Records, NEW w \in Watches
    PROVE  Naming(Cell(m, w)) <=> Named(m, w)
  <1>1. Cell(m, w) \in Cells
    BY SMTT(60) DEF Cell, Cells
  <1>2. Cell(m, w).m = m /\ Cell(m, w).w = w
    BY Zenon, CellParts
  <1> QED
    BY Zenon, <1>1, <1>2 DEF Naming, Named

(* Nothing armed and nothing running is named.                             *)
LEMMA EmptyNamed ==
    ASSUME NEW m, NEW w, w.id = 0, m.armed.id = 0, m.stopping.id = 0, ~m.stopping.due
    PROVE  Named(m, w)
  BY Zenon DEF Named

(* A section nobody watches.                                               *)
LEMMA EmptyNaming == Naming(Cell(Unmaterialized, NoWatch))
  <1>1. Named(Unmaterialized, NoWatch)
    BY Zenon, EmptyRecord, EmptyRecords, EmptyNamed
  <1> QED
    BY Zenon, <1>1, EmptyRecord, EmptyRecords, NamingParts

(* reconcile_locked: behind the barrier nothing moves; otherwise every     *)
(* section goes through the pass.                                          *)
LEMMA ReconcileKeeps ==
    ASSUME PassOK, mat \in [Sections -> Records], live \in [Sections -> Watches],
           \A s \in Sections : Naming(Cell(mat[s], live[s])),
           NEW a \in Authorities, ReconcileLocked(a)
    PROVE  /\ mat' \in [Sections -> Records] /\ live' \in [Sections -> Watches]
           /\ \A s \in Sections : Naming(Cell(mat'[s], live'[s]))
           /\ pass' \in [audience : Nat, resetting : BOOLEAN, incomplete : BOOLEAN]
           /\ pass'.resetting = pass.resetting /\ pass'.incomplete = pass.incomplete
           /\ pass.resetting => live' = live
           /\ \A s \in Sections : live'[s].id # 0 => live[s].id # 0 \/ Desired(a.rows[s])
           /\ \A s \in Sections :
                 \/ mat'[s].armed.id = 0
                 \/ mat'[s].armed = mat[s].armed
                 \/ /\ mat'[s].armed.stamp = Stamp(a, s)
                    /\ mat'[s].armed.policy = a.rows[s].policy
  <1>1. CASE pass.resetting
    <2>1. mat' = mat /\ live' = live /\ pass' = pass
      BY SMTT(60), <1>1 DEF ReconcileLocked
    <2> QED
      BY <2>1 DEF PassOK
  <1>2. CASE ~pass.resetting
    <2>1. PICK revalidate \in Revalidations, fault \in Faults :
             /\ mat' = [s \in Sections |-> Pass(a, revalidate, fault)[s].m]
             /\ live' = [s \in Sections |-> Pass(a, revalidate, fault)[s].w]
             /\ pass' = [pass EXCEPT !.audience = pages]
      BY <1>2, Zenon DEF ReconcileLocked
    <2>2. /\ pass' \in [audience : Nat, resetting : BOOLEAN, incomplete : BOOLEAN]
          /\ pass'.resetting = pass.resetting /\ pass'.incomplete = pass.incomplete
      BY <2>1 DEF PassOK
    <2> DEFINE d(s) == Pass(a, revalidate, fault)[s]
    <2>3. \A s \in Sections : mat'[s] = d(s).m /\ live'[s] = d(s).w
      BY SMTT(60), <2>1
    <2>4. \A s \in Sections : Becomes(Cell(mat[s], live[s]), d(s), a, s)
      BY SMTT(60), PassBecomes
    <2> HIDE DEF d
    <2>5. ASSUME NEW s \in Sections
          PROVE  /\ d(s) \in Cells /\ d(s).m \in Records /\ d(s).w \in Watches
                 /\ d(s) = Cell(d(s).m, d(s).w)
      <3>1. d(s) \in Cells
        BY Zenon, <2>4 DEF Becomes, Naming
      <3> QED
        BY SMTT(60), <3>1, CellFields DEF Cells, Cell
    <2>6. mat' \in [Sections -> Records] /\ live' \in [Sections -> Watches]
      <3>1. /\ mat' = [s \in Sections |-> d(s).m] /\ live' = [s \in Sections |-> d(s).w]
        BY SMTT(60), <2>1 DEF d
      <3> QED
        BY SMTT(60), <2>5, <3>1
    <2>7. ASSUME NEW s \in Sections
          PROVE  /\ Naming(Cell(mat'[s], live'[s]))
                 /\ live'[s].id # 0 => live[s].id # 0 \/ Desired(a.rows[s])
                 /\ \/ mat'[s].armed.id = 0
                    \/ mat'[s].armed = mat[s].armed
                    \/ /\ mat'[s].armed.stamp = Stamp(a, s)
                       /\ mat'[s].armed.policy = a.rows[s].policy
      <3>1. Cell(mat'[s], live'[s]) = d(s)
        BY SMTT(60), <2>3, <2>5
      <3>2. /\ Naming(d(s))
            /\ d(s).w.id # 0 => Cell(mat[s], live[s]).w.id # 0 \/ Desired(a.rows[s])
            /\ \/ d(s).m.armed.id = 0
               \/ d(s).m.armed = Cell(mat[s], live[s]).m.armed
               \/ d(s).m.armed.stamp = Stamp(a, s) /\ d(s).m.armed.policy = a.rows[s].policy
        BY <2>4, Zenon DEF Becomes, Armature
      <3> QED
        BY SMTT(60), <2>3, <3>1, <3>2, CellParts
    <2> QED
      BY SMTT(60), <1>2, <2>2, <2>6, <2>7
  <1> QED
    BY SMTT(60), <1>1, <1>2 DEF PassOK

-----------------------------------------------------------------------------
(* The store moves forward                                                 *)

Forward ==
    /\ AuthorityOK(store')
    /\ \/ /\ store'.generation = store.generation /\ store'.revisions >= store.revisions
          /\ \A s \in Sections : store'.rows[s] = store.rows[s]
                                    \/ store'.rows[s].revision > store.revisions
       \/ store'.generation > store.generation

(* The same about the next state, for numbers read before it.              *)
KnownNext(generation, revision, policy, s) ==
    /\ generation <= store'.generation
    /\ generation = store'.generation =>
           /\ revision <= store'.revisions
           /\ revision = store'.rows[s].revision => policy = store'.rows[s].policy

(* What was known stays known.                                             *)
LEMMA KnownForward ==
    ASSUME AuthorityOK(store), Forward, NEW g \in Nat, NEW n \in Nat, NEW p,
           NEW s \in Sections, Known(g, n, p, s)
    PROVE  KnownNext(g, n, p, s)
  <1>1. /\ store.generation \in Nat /\ store'.generation \in Nat
        /\ store.revisions \in Nat /\ store'.revisions \in Nat
        /\ store'.rows[s].revision \in Nat
    BY SMTT(60) DEF AuthorityOK, Authorities, Row, Forward
  <1>2. /\ g <= store.generation
        /\ g = store.generation =>
              /\ n <= store.revisions
              /\ n = store.rows[s].revision => p = store.rows[s].policy
    BY SMTT(60) DEF Known
  <1>3. CASE store'.generation > store.generation
    BY SMTT(60), <1>1, <1>2, <1>3 DEF KnownNext
  <1>4. CASE /\ store'.generation = store.generation /\ store'.revisions >= store.revisions
             /\ \/ store'.rows[s] = store.rows[s]
                \/ store'.rows[s].revision > store.revisions
    BY SMTT(60), <1>1, <1>2, <1>4 DEF KnownNext
  <1> QED
    BY SMTT(60), <1>3, <1>4 DEF Forward

(* A step keeps the grounds of running watches and of passes in flight:    *)
(* the barrier stays up, or no row goes away.                              *)
Grounds ==
    /\ pass.resetting => pass'.resetting
    /\ pass'.resetting \/ \A s \in Sections : store.rows[s].revision > 0
                                                => store'.rows[s].revision > 0

(* The same about the next state.                                          *)
ReaderNext(a) ==
    /\ a \in Authorities
    /\ \A s \in Sections :
          /\ KnownNext(a.generation, a.rows[s].revision, a.rows[s].policy, s)
          /\ Desired(a.rows[s]) => pass'.resetting \/ store'.rows[s].revision > 0

(* A pass in flight survives a step of someone else.                       *)
LEMMA ReaderKept ==
    ASSUME AuthorityOK(store), Forward, Grounds, NEW a, Reader(a)
    PROVE  ReaderNext(a)
  <1>1. a \in Authorities
    BY SMTT(60) DEF Reader, KnownAuthority
  <1>2. ASSUME NEW s \in Sections
        PROVE  KnownNext(a.generation, a.rows[s].revision, a.rows[s].policy, s)
    <2>1. a.generation \in Nat /\ a.rows[s].revision \in Nat
      BY SMTT(60), <1>1, RowStamp
    <2>2. Known(a.generation, a.rows[s].revision, a.rows[s].policy, s)
      BY SMTT(60) DEF Reader, KnownAuthority
    <2> QED
      BY SMTT(60), <2>1, <2>2, KnownForward
  <1> QED
    BY SMTT(60), <1>1, <1>2 DEF Reader, ReaderNext, Grounds

(* CellsOK of the next state, section by section.                          *)
CellNext(s) ==
    /\ Naming(Cell(mat'[s], live'[s]))
    /\ mat'[s].armed.id # 0 =>
          KnownNext(mat'[s].armed.stamp[1], mat'[s].armed.stamp[2], mat'[s].armed.policy, s)
    /\ live'[s].id # 0 => pass'.resetting \/ store'.rows[s].revision > 0

(* Every section in order makes the records in order.                      *)
LEMMA CellsNext ==
    ASSUME mat' \in [Sections -> Records], live' \in [Sections -> Watches],
           \A s \in Sections : CellNext(s)
    PROVE  CellsOK'
  BY DEF CellsOK, CellNext, Known, KnownNext, Running

(* An armed record that a step leaves alone.                               *)
LEMMA StampKept ==
    ASSUME AuthorityOK(store), CellsOK, Forward, NEW s \in Sections, mat[s].armed.id # 0
    PROVE  KnownNext(mat[s].armed.stamp[1], mat[s].armed.stamp[2], mat[s].armed.policy, s)
  <1> DEFINE g == mat[s].armed.stamp[1]
             n == mat[s].armed.stamp[2]
             p == mat[s].armed.policy
  <1>1. Known(g, n, p, s)
    BY SMTT(60) DEF CellsOK
  <1>2. g \in Nat /\ n \in Nat
    <2>1. mat[s].armed \in ArmedRecords
      BY SMTT(60) DEF CellsOK, Records
    <2> QED
      BY SMTT(60), <2>1 DEF ArmedRecords, Stamps
  <1> HIDE DEF g, n, p
  <1>3. KnownNext(g, n, p, s)
    BY SMTT(60), <1>1, <1>2, KnownForward
  <1> QED
    BY SMTT(60), <1>3 DEF g, n, p

(* Watches that nobody starts, with their names kept.                      *)
LEMMA WatchesKept ==
    ASSUME AuthorityOK(store), CellsOK, Forward, Grounds,
           mat' \in [Sections -> Records], live' \in [Sections -> Watches],
           \A s \in Sections :
              /\ live'[s] \in {live[s], NoWatch}
              /\ mat'[s].armed = mat[s].armed /\ mat'[s].stopping.id = mat[s].stopping.id
              /\ mat'[s].stopping.id = 0 => mat'[s].stopping.due = mat[s].stopping.due
    PROVE  CellsOK'
  <1>1. ASSUME NEW s \in Sections PROVE CellNext(s)
    <2>1. Naming(Cell(mat[s], live[s]))
      BY SMTT(60) DEF CellsOK
    <2>2. /\ mat[s] \in Records /\ live[s] \in Watches
          /\ mat'[s] \in Records /\ live'[s] \in Watches
      BY Zenon DEF CellsOK
    <2>3. Named(mat[s], live[s])
      BY ZenonT(60), <2>1, <2>2, NamingParts
    <2>4. Naming(Cell(mat'[s], live'[s]))
      <3>1. /\ live'[s] \in {live[s], NoWatch}
            /\ mat'[s].armed = mat[s].armed /\ mat'[s].stopping.id = mat[s].stopping.id
            /\ mat'[s].stopping.id = 0 => mat'[s].stopping.due = mat[s].stopping.due
        OBVIOUS
      <3>2. ASSUME live'[s] = live[s] PROVE Named(mat'[s], live'[s])
        BY ZenonT(60), <2>3, <3>1, <3>2 DEF Named
      <3>3. ASSUME live'[s] = NoWatch PROVE Named(mat'[s], live'[s])
        BY ZenonT(60), <2>3, <3>1, <3>3, EmptyRecords DEF Named
      <3>4. Named(mat'[s], live'[s])
        BY Zenon, <3>1, <3>2, <3>3
      <3> QED
        BY ZenonT(60), <2>2, <3>4, NamingParts
    <2>5. mat'[s].armed.id # 0 =>
             KnownNext(mat'[s].armed.stamp[1], mat'[s].armed.stamp[2], mat'[s].armed.policy, s)
      BY StampKept
    <2>6. live'[s].id # 0 => pass'.resetting \/ store'.rows[s].revision > 0
      BY Zenon, EmptyRecords DEF CellsOK, Running, Grounds
    <2> QED
      BY SMTT(60), <2>4, <2>5, <2>6 DEF CellNext
  <1> QED
    BY SMTT(60), <1>1, CellsNext
=============================================================================
