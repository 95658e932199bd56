------------------------- MODULE DesiredPassProofs --------------------------
(***************************************************************************)
(* The threads of the coordinator of desired watches: the steps of an      *)
(* audience change, a tick, a pass and a Full Reset, the reads and the     *)
(* restart keep PInv.                                                      *)
(***************************************************************************)
EXTENDS DesiredSectionProofs

-----------------------------------------------------------------------------
(* Threads                                                                 *)

(* Thread w moves to x and the others stay.                                *)
Moves(w, x) ==
    /\ x \in Works /\ Stage(x) /\ work' = [work EXCEPT ![w] = x]

(* An empty authority.                                                     *)
LEMMA EmptyTyped == EmptyAuthority \in Authorities
  BY DEF EmptyAuthority, Authorities, AbsentRow, Row

(* An idle thread.                                                         *)
LEMMA IdleWork == Idle \in Works /\ Stage(Idle) /\ Idle.pc = "idle" /\ Idle.op = "none"
  <1>1. EmptyAuthority \in Authorities
    BY EmptyTyped
  <1>2. Idle.pc = "idle" /\ Idle.op = "none"
    BY DEF Idle
  <1>3. Idle \in Works
    BY SMTT(60), <1>1 DEF Idle, Works, Pcs, Ops
  <1> HIDE DEF Idle
  <1>4. Stage(Idle)
    BY SMTT(60), <1>2 DEF Stage, Stages, Resets, Passes, Pcs, Ops
  <1> QED
    BY SMTT(60), <1>2, <1>3, <1>4

(* The stages an operation goes through.                                   *)
LEMMA StageTable ==
    /\ \A op \in {"submit", "audience", "tick"}, pc \in Passes : Stages(op, pc)
    /\ "reconcile" \in Passes /\ "rotate" \in Passes /\ "apply" \in Passes
    /\ "rotating" \in Passes
    /\ Stages("submit", "reconcile") /\ Stages("submit", "rotate")
    /\ Stages("audience", "rotate") /\ Stages("tick", "rotate") /\ Stages("tick", "check")
    /\ Stages("reset", "stop") /\ Stages("reset", "clear") /\ Stages("reset", "finish")
  BY DEF Stages, Resets, Passes, Pcs, Ops

(* Starting, going on with and finishing an operation.                     *)
LEMMA BeginMoves ==
    ASSUME NEW w \in Threads, NEW op, NEW pc, Begin(w, op, pc),
           Stages(op, pc)
    PROVE  \E x : Moves(w, x) /\ x.pc = pc /\ x.op = op
  <1> DEFINE x == [Idle EXCEPT !.pc = pc, !.op = op]
  <1>1. x \in Works /\ x.pc = pc /\ x.op = op
    BY Zenon, IdleWork DEF Works, Stages
  <1>2. work' = [work EXCEPT ![w] = x]
    BY SMTT(60) DEF Begin
  <1> HIDE DEF x
  <1>3. Stage(x)
    BY <1>1 DEF Stage, Stages
  <1> QED
    BY Zenon, <1>1, <1>2, <1>3 DEF Moves

(* An operation goes on to its next stage.                                 *)
LEMMA GotoMoves ==
    ASSUME ThreadsOK, NEW w \in Threads, NEW pc, Goto(w, pc),
           Stages(work[w].op, pc)
    PROVE  \E x : Moves(w, x) /\ x.pc = pc /\ x.op = work[w].op
  <1> DEFINE x == [work[w] EXCEPT !.pc = pc]
  <1>1. work[w] \in Works
    BY DEF ThreadsOK
  <1>2. x \in Works /\ x.pc = pc /\ x.op = work[w].op
    BY <1>1 DEF Works, Stages
  <1>3. work' = [work EXCEPT ![w] = x]
    BY SMTT(60) DEF Goto
  <1> HIDE DEF x
  <1>4. Stage(x)
    BY SMTT(60), <1>2 DEF Stage, Stages
  <1> QED
    BY ZenonT(60), <1>2, <1>3, <1>4 DEF Moves

Reread(w, pc, a) == work' = [work EXCEPT ![w].pc = pc, ![w].authority = a]

(* An operation goes on, with another reading of the authority.            *)
LEMMA RereadMoves ==
    ASSUME ThreadsOK, NEW w \in Threads, NEW pc, NEW a \in Authorities,
           Reread(w, pc, a), Stages(work[w].op, pc)
    PROVE  \E x : Moves(w, x) /\ x.pc = pc /\ x.op = work[w].op /\ x.authority = a
  <1> DEFINE x == [work[w] EXCEPT !.pc = pc, !.authority = a]
             W == [pc : Pcs, op : Ops, authority : Authorities]
  <1>1. work \in [Threads -> W] /\ work[w] \in W
    BY SMTT(60) DEF ThreadsOK, Works
  <1>2. pc \in Pcs
    BY DEF Stages
  <1>3. work' = [work EXCEPT ![w] = x]
    BY <1>1, Zenon DEF Reread
  <1>4. x \in W
    BY <1>1, <1>2, Zenon
  <1>5. x.pc = pc /\ x.op = work[w].op /\ x.authority = a
    BY <1>1, Zenon
  <1> HIDE DEF x
  <1> QED
    BY ZenonT(60), <1>3, <1>4, <1>5 DEF Moves, Stage, Works

(* An operation ends.                                                      *)
LEMMA FinishedMoves ==
    ASSUME NEW w \in Threads, Finished(w)
    PROVE  \E x : Moves(w, x) /\ x.pc = "idle" /\ x.op = "none"
  BY ZenonT(60), IdleWork DEF Finished, Moves

(* The part of ThreadsOK that depends on the stages alone.                 *)
LEMMA StagesNext ==
    ASSUME ThreadsOK, NEW w \in Threads, NEW x, Moves(w, x),
           x.op = "reset" => \A v \in Threads \ {w} : work[v].op # "reset"
    PROVE  /\ work' \in [Threads -> Works] /\ \A v \in Threads : Stage(work'[v])
           /\ \A u, v \in Threads : work'[u].op = "reset" /\ work'[v].op = "reset" => u = v
           /\ work'[w] = x /\ \A v \in Threads \ {w} : work'[v] = work[v]
  <1>1. /\ work \in [Threads -> Works] /\ x \in Works /\ Stage(x)
        /\ work' = [work EXCEPT ![w] = x]
        /\ \A v \in Threads : Stage(work[v])
        /\ \A u, v \in Threads : work[u].op = "reset" /\ work[v].op = "reset" => u = v
    BY SMTT(60) DEF ThreadsOK, Moves
  <1>2. /\ work' \in [Threads -> Works] /\ work'[w] = x
        /\ \A v \in Threads \ {w} : work'[v] = work[v]
    BY SMTT(60), <1>1
  <1>3. \A v \in Threads : Stage(work'[v])
    BY SMTT(60), <1>1, <1>2
  <1>4. ASSUME NEW u \in Threads, NEW v \in Threads,
               work'[u].op = "reset", work'[v].op = "reset"
        PROVE  u = v
    BY SMTT(60), <1>1, <1>2, <1>4
  <1> QED
    BY SMTT(60), <1>2, <1>3, <1>4

(* While the lock is free or held by w, no other thread is in its section. *)
LEMMA Alone ==
    ASSUME ThreadsOK, NEW w \in Threads, lock \in {Free, w}
    PROVE  \A v \in Threads \ {w} : work[v].pc \notin {"apply", "rotating"}
  <1>1. \A v \in Threads : v # Free
    BY DesiredAssumption DEF Threads, Free
  <1> QED
    BY SMTT(60), <1>1 DEF ThreadsOK

(* A step under the lock.                                                  *)
LEMMA ThreadsAlone ==
    ASSUME ThreadsOK, NEW w \in Threads, NEW x, Moves(w, x), lock \in {Free, w},
           x.op = "reset" => \A v \in Threads \ {w} : work[v].op # "reset",
           x.pc \in {"apply", "rotating"} => lock' = w,
           x.op = "reset" \/ (\E v \in Threads \ {w} : work[v].op = "reset")
              => pass'.resetting /\ ~pass'.incomplete,
           x.pc = "apply" => ReaderNext(x.authority)
    PROVE  ThreadsOK'
  <1>1. /\ work' \in [Threads -> Works] /\ \A v \in Threads : Stage(work'[v])
        /\ \A u, v \in Threads : work'[u].op = "reset" /\ work'[v].op = "reset" => u = v
        /\ work'[w] = x /\ \A v \in Threads \ {w} : work'[v] = work[v]
    BY SMTT(60), StagesNext
  <1>2. \A v \in Threads \ {w} : work[v].pc \notin {"apply", "rotating"}
    BY SMTT(60), Alone
  <1>3. ASSUME NEW v \in Threads
        PROVE  /\ work'[v].pc \in {"apply", "rotating"} => lock' = v
               /\ work'[v].op = "reset" => pass'.resetting /\ ~pass'.incomplete
               /\ work'[v].pc = "apply" => ReaderNext(work'[v].authority)
    <2>1. CASE v = w
      BY SMTT(60), <1>1, <2>1
    <2>2. CASE v # w
      BY SMTT(60), <1>1, <1>2, <2>2
    <2> QED
      BY SMTT(60), <2>1, <2>2
  <1> QED
    BY ZenonT(60), <1>1, <1>3 DEF ThreadsOK, Reader, ReaderNext, KnownAuthority, Known, KnownNext

(* A step beside the lock.                                                 *)
LEMMA ThreadsBeside ==
    ASSUME ThreadsOK, AuthorityOK(store), Forward, Grounds, lock' = lock,
           NEW w \in Threads, NEW x, Moves(w, x), x.pc \notin {"apply", "rotating"},
           x.op = "reset" => \A v \in Threads \ {w} : work[v].op # "reset",
           x.op = "reset" \/ (\E v \in Threads \ {w} : work[v].op = "reset")
              => pass'.resetting /\ ~pass'.incomplete
    PROVE  ThreadsOK'
  <1>1. /\ work' \in [Threads -> Works] /\ \A v \in Threads : Stage(work'[v])
        /\ \A u, v \in Threads : work'[u].op = "reset" /\ work'[v].op = "reset" => u = v
        /\ work'[w] = x /\ \A v \in Threads \ {w} : work'[v] = work[v]
    BY ZenonT(60), StagesNext
  <1>2. ASSUME NEW v \in Threads
        PROVE  /\ work'[v].pc \in {"apply", "rotating"} => lock' = v
               /\ work'[v].op = "reset" => pass'.resetting /\ ~pass'.incomplete
               /\ work'[v].pc = "apply" => ReaderNext(work'[v].authority)
    <2>1. CASE v = w
      BY SMTT(60), <1>1, <2>1
    <2>2. CASE v # w
      BY SMTT(60), <1>1, <2>2, ReaderKept DEF ThreadsOK
    <2> QED
      BY SMTT(60), <2>1, <2>2
  <1> QED
    BY ZenonT(60), <1>1, <1>2 DEF ThreadsOK, Reader, ReaderNext, KnownAuthority, Known, KnownNext

(* A step that moves no thread.                                            *)
LEMMA ThreadsStill ==
    ASSUME ThreadsOK, AuthorityOK(store), Forward, Grounds, lock' = lock, work' = work,
           pass' = pass
    PROVE  ThreadsOK'
  <1>1. \A v \in Threads : work[v].pc = "apply" => ReaderNext(work[v].authority)
    BY SMTT(60), ReaderKept DEF ThreadsOK
  <1> QED
    BY ZenonT(60), <1>1 DEF ThreadsOK, Reader, ReaderNext, KnownAuthority, Known, KnownNext

-----------------------------------------------------------------------------
(* The steps                                                               *)

(* The parts of the invariant.                                             *)
LEMMA Parts ==
    ASSUME PInv
    PROVE  /\ AInv /\ AuthorityOK(store) /\ PassOK /\ CellsOK /\ ThreadsOK
           /\ mat \in [Sections -> Records] /\ live \in [Sections -> Watches]
           /\ \A s \in Sections : Naming(Cell(mat[s], live[s]))
           /\ \A w \in Threads : work[w] \in Works /\ Stage(work[w])
           /\ pass \in [audience : Nat, resetting : BOOLEAN, incomplete : BOOLEAN]
  BY Zenon DEF PInv, AInv, CellsOK, ThreadsOK, PassOK

(* Every watch is named by its section's record.                           *)
LEMMA NamedAlways ==
    ASSUME PInv, NEW s \in Sections
    PROVE  Named(mat[s], live[s])
  <1>1. mat[s] \in Records /\ live[s] \in Watches /\ Naming(Cell(mat[s], live[s]))
    BY Zenon, Parts
  <1> QED
    BY Zenon, <1>1, NamingParts

(* A step that leaves the records alone and stops watches at most.         *)
LEMMA Quiet ==
    ASSUME PInv, Forward, Grounds, mat' = mat,
           live' \in [Sections -> Watches], \A s \in Sections : live'[s] \in {live[s], NoWatch}
    PROVE  CellsOK'
  BY ZenonT(60), Parts, WatchesKept

(* A page sends a command.                                                 *)
LEMMA SendKeeps ==
    ASSUME PInv, Forward, NEW id, NEW items, Send(id, items)
    PROVE  PassOK' /\ CellsOK' /\ ThreadsOK'
  <1>1. UNCHANGED <<store, mat, pass, lock, live, pages, world, work, spent>>
    BY Zenon DEF Send
  <1>2. Grounds
    BY SMTT(60), <1>1 DEF Grounds
  <1> QED
    BY SMTT(60), <1>1, <1>2, Parts, Quiet, ThreadsStill DEF PassOK

(* A retry or a teardown becomes due.                                      *)
LEMMA ElapseKeeps ==
    ASSUME PInv, Forward, NEW s \in Sections, Elapse(s)
    PROVE  PassOK' /\ CellsOK' /\ ThreadsOK'
  <1>1. UNCHANGED <<store, requests, pass, lock, live, pages, world, work, spent>>
    BY SMTT(60) DEF Elapse
  <1>2. Grounds
    BY SMTT(60), <1>1 DEF Grounds
  <1> DEFINE S == [id : Nat, due : BOOLEAN]
             F == [stamp : Stamps, class : {"none", "transient", "permanent"}]
             R == [stamp : Stamps, due : BOOLEAN]
             M == [armed : ArmedRecords, stopping : S, blocked : BOOLEAN, failure : F, retry : R]
             retry == [mat[s].retry EXCEPT !.due = TRUE]
             stopping == [mat[s].stopping EXCEPT !.due = TRUE]
             x == [mat[s] EXCEPT !.retry = retry]
             y == [mat[s] EXCEPT !.stopping = stopping]
  <1>3. mat[s] \in M /\ mat \in [Sections -> Records]
    BY SMTT(60), Parts DEF Records
  <1>4. \/ mat' = [mat EXCEPT ![s] = x]
        \/ mat[s].stopping.id # 0 /\ mat' = [mat EXCEPT ![s] = y]
    BY SMTT(60) DEF Elapse
  <1>5. /\ x \in Records /\ x.armed = mat[s].armed /\ x.stopping = mat[s].stopping
    <2>1. retry \in R
      BY Zenon, <1>3
    <2> HIDE DEF retry, R, F, S
    <2>2. x \in M /\ x.armed = mat[s].armed /\ x.stopping = mat[s].stopping
      BY SMTT(60), <1>3, <2>1
    <2> HIDE DEF x
    <2> QED
      BY <2>2 DEF Records, R, F, S
  <1>6. /\ y \in Records /\ y.armed = mat[s].armed /\ y.stopping.id = mat[s].stopping.id
    <2>1. stopping \in S /\ stopping.id = mat[s].stopping.id
      BY Zenon, <1>3
    <2> HIDE DEF stopping, R, F, S
    <2>2. y \in M /\ y.armed = mat[s].armed /\ y.stopping = stopping
      BY SMTT(60), <1>3, <2>1
    <2> HIDE DEF y
    <2>3. y \in Records
      BY SMTT(60), <2>2 DEF Records, R, F, S
    <2> QED
      BY SMTT(60), <2>1, <2>2, <2>3
  <1> HIDE DEF x, y
  <1>7. mat' \in [Sections -> Records]
    BY SMTT(60), <1>3, <1>4, <1>5, <1>6
  <1>8. ASSUME NEW t \in Sections
        PROVE  /\ mat'[t].armed = mat[t].armed /\ mat'[t].stopping.id = mat[t].stopping.id
               /\ mat'[t].stopping.id = 0 => mat'[t].stopping.due = mat[t].stopping.due
    <2>1. CASE t # s
      BY SMTT(60), <1>3, <1>4, <2>1
    <2>2. CASE t = s
      BY SMTT(60), <1>3, <1>4, <1>5, <1>6, <2>2
    <2> QED
      BY SMTT(60), <2>1, <2>2
  <1>9. CellsOK'
    BY SMTT(60), <1>1, <1>2, <1>7, <1>8, Parts, WatchesKept
  <1> QED
    BY SMTT(60), <1>1, <1>2, <1>9, Parts, ThreadsStill DEF PassOK

(* A page attaches or leaves, and the callback starts.                     *)
LEMMA AudienceKeeps ==
    ASSUME PInv, Forward, NEW w \in Workers, NEW count \in 0..MaxPages,
           AudienceChanged(w, count)
    PROVE  PassOK' /\ CellsOK' /\ ThreadsOK'
  <1>1. /\ UNCHANGED <<store, requests, mat, pass, lock, live, world>>
        /\ pages' = count /\ Begin(w, "audience", "rotate")
    BY SMTT(60) DEF AudienceChanged
  <1>2. Grounds /\ w \in Threads
    BY SMTT(60), <1>1 DEF Grounds, Threads
  <1>3. PICK x : Moves(w, x) /\ x.pc = "rotate" /\ x.op = "audience"
    BY SMTT(60), <1>1, <1>2, BeginMoves, StageTable
  <1>4. ThreadsOK'
    BY SMTT(60), <1>1, <1>2, <1>3, Parts, ThreadsBeside DEF ThreadsOK
  <1>5. CellsOK'
    BY SMTT(60), <1>1, <1>2, Parts, Quiet
  <1> QED
    BY SMTT(60), <1>1, <1>4, <1>5, Parts DEF PassOK

(* The route's tick: pages and watches may go.                             *)
LEMMA TickKeeps ==
    ASSUME PInv, Forward, Tick
    PROVE  PassOK' /\ CellsOK' /\ ThreadsOK'
  <1>1. /\ UNCHANGED <<store, requests, mat, pass, lock, world, spent>>
        /\ pages' \in 0..pages /\ Begin(Cadence, "tick", "rotate")
    BY SMTT(60) DEF Tick
  <1>2. PICK gone \in SUBSET Sections :
           live' = [s \in Sections |-> IF s \in gone THEN NoWatch ELSE live[s]]
    BY SMTT(60) DEF Tick
  <1>3. /\ live' \in [Sections -> Watches]
        /\ \A s \in Sections : live'[s] \in {live[s], NoWatch}
    BY SMTT(60), <1>2, Parts, EmptyRecords
  <1>4. Grounds /\ Cadence \in Threads
    BY SMTT(60), <1>1 DEF Grounds, Threads
  <1>5. PICK x : Moves(Cadence, x) /\ x.pc = "rotate" /\ x.op = "tick"
    BY SMTT(60), <1>1, <1>4, BeginMoves, StageTable
  <1>6. ThreadsOK'
    BY SMTT(60), <1>1, <1>4, <1>5, Parts, ThreadsBeside DEF ThreadsOK
  <1>7. CellsOK'
    BY SMTT(60), <1>1, <1>3, <1>4, Quiet
  <1> QED
    BY SMTT(60), <1>1, <1>6, <1>7, Parts DEF PassOK

(* The barrier goes up.                                                    *)
LEMMA BeginResetKeeps ==
    ASSUME PInv, Forward, NEW w \in Workers, BeginReset(w)
    PROVE  PassOK' /\ CellsOK' /\ ThreadsOK'
  <1>1. /\ UNCHANGED <<store, requests, mat, lock, live, pages, world>>
        /\ lock = Free /\ \A v \in Threads : work[v].op # "reset"
        /\ Begin(w, "reset", "stop")
        /\ pass' = [pass EXCEPT !.resetting = TRUE, !.incomplete = FALSE]
    BY DEF BeginReset
  <1>2. /\ pass' \in [audience : Nat, resetting : BOOLEAN, incomplete : BOOLEAN]
        /\ pass'.resetting /\ ~pass'.incomplete
    <2>1. pass \in [audience : Nat, resetting : BOOLEAN, incomplete : BOOLEAN]
      BY Parts
    <2>2. pass' \in [audience : Nat, resetting : BOOLEAN, incomplete : BOOLEAN]
      BY <1>1, <2>1, Zenon
    <2>3. pass'.resetting = TRUE /\ pass'.incomplete = FALSE
      BY <1>1, <2>1, Zenon
    <2> QED
      BY <2>2, <2>3, Zenon
  <1>3. Grounds /\ w \in Threads
    BY SMTT(60), <1>2 DEF Grounds, Threads
  <1>4. PICK x : Moves(w, x) /\ x.pc = "stop" /\ x.op = "reset"
    BY SMTT(60), <1>1, <1>3, BeginMoves, StageTable
  <1>5. ThreadsOK'
    BY SMTT(60), <1>1, <1>2, <1>3, <1>4, Parts, ThreadsAlone
  <1>6. CellsOK'
    BY SMTT(60), <1>1, <1>3, Parts, Quiet
  <1> QED
    BY SMTT(60), <1>1, <1>2, <1>5, <1>6, Parts DEF PassOK

(* A pass takes the lock and reads the authority.                          *)
LEMMA ReadAuthorityKeeps ==
    ASSUME PInv, Forward, NEW w \in Threads, ReadAuthority(w)
    PROVE  PassOK' /\ CellsOK' /\ ThreadsOK'
  <1>1. /\ UNCHANGED <<store, requests, mat, pass, live, pages, world, spent>>
        /\ work[w].pc = "reconcile" /\ lock = Free /\ lock' = w
        /\ work' = [work EXCEPT ![w].pc = "apply", ![w].authority = store]
    BY DEF ReadAuthority
  <1>2. Grounds /\ store \in Authorities
    BY SMTT(60), <1>1, Parts DEF Grounds, AuthorityOK
  <1>3. Stages(work[w].op, "reconcile")
    BY SMTT(60), <1>1, Parts DEF Stage
  <1>4. Stages(work[w].op, "apply") /\ work[w].op # "reset"
    BY SMTT(60), <1>3 DEF Stages, Resets, Passes, Pcs, Ops
  <1>5. PICK x : /\ Moves(w, x) /\ x.pc = "apply" /\ x.op = work[w].op
                 /\ x.authority = store
    <2>1. ThreadsOK /\ store \in Authorities
      BY SMTT(60), <1>2, Parts
    <2>2. Reread(w, "apply", store)
      BY SMTT(60), <1>1 DEF Reread
    <2> QED
      BY SMTT(60), <1>4, <2>1, <2>2, RereadMoves
  <1>6. x.op # "reset"
    BY SMTT(60), <1>4, <1>5
  <1>7. ReaderNext(x.authority)
    <2>1. ASSUME NEW s \in Sections
          PROVE  /\ KnownNext(store.generation, store.rows[s].revision,
                              store.rows[s].policy, s)
                 /\ Desired(store.rows[s]) => store'.rows[s].revision > 0
      <3>1. /\ store.generation \in Nat /\ store.revisions \in Nat
            /\ store.rows[s].revision \in Nat
            /\ store.rows[s].revision <= store.revisions
            /\ store.rows[s].revision = 0 => store.rows[s].policy = NoPolicy
        BY SMTT(60), Parts DEF AuthorityOK, Authorities, Row
      <3> QED
        BY SMTT(60), <1>1, <3>1 DEF KnownNext, Desired
    <2> QED
      BY SMTT(60), <1>2, <1>5, <2>1 DEF ReaderNext
  <1>8. \A v \in Threads \ {w} : work[v].op = "reset" => pass'.resetting /\ ~pass'.incomplete
    BY SMTT(60), <1>1, Parts DEF ThreadsOK
  <1>9. ThreadsOK'
    BY SMTT(60), <1>1, <1>5, <1>6, <1>7, <1>8, Parts, ThreadsAlone
  <1>10. CellsOK'
    BY SMTT(60), <1>1, <1>2, Parts, Quiet
  <1> QED
    BY SMTT(60), <1>1, <1>9, <1>10, Parts DEF PassOK

(* A section's admissibility changes.                                      *)
LEMMA WorldKeeps ==
    ASSUME PInv, Forward, NEW s, NEW admission, WorldMoves(s, admission)
    PROVE  PassOK' /\ CellsOK' /\ ThreadsOK'
  <1>1. UNCHANGED <<store, requests, mat, pass, lock, live, pages, work>>
    BY SMTT(60) DEF WorldMoves
  <1>2. Grounds
    BY SMTT(60), <1>1 DEF Grounds
  <1> QED
    BY SMTT(60), <1>1, <1>2, Parts, Quiet, ThreadsStill DEF PassOK

(* The process dies and starts again.                                      *)
LEMMA RestartKeeps ==
    ASSUME PInv, Forward, Restart
    PROVE  PassOK' /\ CellsOK' /\ ThreadsOK'
  <1>1. /\ mat' = [s \in Sections |-> Unmaterialized] /\ live' = [s \in Sections |-> NoWatch]
        /\ pass' = [audience |-> 0, resetting |-> FALSE, incomplete |-> FALSE]
        /\ pages' = 0 /\ work' = [w \in Threads |-> Idle]
    BY SMTT(60) DEF Restart
  <1>2. PassOK'
    BY SMTT(60), <1>1 DEF PassOK
  <1>3. ThreadsOK'
    <2>1. /\ work' \in [Threads -> Works]
          /\ \A w \in Threads : /\ Stage(work'[w]) /\ work'[w].pc = "idle"
                                /\ work'[w].op = "none"
      BY SMTT(60), <1>1, IdleWork
    <2> QED
      BY SMTT(60), <2>1 DEF ThreadsOK
  <1>4. CellsOK'
    <2>1. mat' \in [Sections -> Records] /\ live' \in [Sections -> Watches]
      BY SMTT(60), <1>1, EmptyRecord, EmptyRecords
    <2>2. ASSUME NEW s \in Sections PROVE CellNext(s)
      <3>1. mat'[s] = Unmaterialized /\ live'[s] = NoWatch
        BY Zenon, <1>1
      <3>2. Naming(Cell(mat'[s], live'[s]))
        BY ZenonT(60), <3>1, EmptyNaming
      <3> QED
        BY SMTT(60), <3>1, <3>2, EmptyRecord, EmptyRecords DEF CellNext
    <2> QED
      BY SMTT(60), <2>1, <2>2, CellsNext
  <1> QED
    BY SMTT(60), <1>2, <1>3, <1>4

(* A pass under the lock, with an authority that is known.                 *)
LEMMA PassCells ==
    ASSUME PInv, Forward, NEW a, ReaderNext(a), ReconcileLocked(a), pages' = pages,
           pass.resetting \/ \A s \in Sections : Running(s) /\ store.rows[s].revision > 0
                                                   => store'.rows[s].revision > 0
    PROVE  /\ PassOK' /\ CellsOK'
           /\ pass'.resetting = pass.resetting /\ pass'.incomplete = pass.incomplete
  <1>1. a \in Authorities
    BY Zenon DEF ReaderNext
  <1>2. /\ mat' \in [Sections -> Records] /\ live' \in [Sections -> Watches]
        /\ \A s \in Sections : Naming(Cell(mat'[s], live'[s]))
        /\ pass' \in [audience : Nat, resetting : BOOLEAN, incomplete : BOOLEAN]
        /\ pass'.resetting = pass.resetting /\ pass'.incomplete = pass.incomplete
        /\ \A s \in Sections : live'[s].id # 0 => live[s].id # 0 \/ Desired(a.rows[s])
        /\ \A s \in Sections :
              \/ mat'[s].armed.id = 0
              \/ mat'[s].armed = mat[s].armed
              \/ /\ mat'[s].armed.stamp = Stamp(a, s)
                 /\ mat'[s].armed.policy = a.rows[s].policy
    BY Zenon, <1>1, Parts, ReconcileKeeps
  <1>3. ASSUME NEW s \in Sections PROVE CellNext(s)
    <2>1. mat'[s].armed.id # 0 =>
             KnownNext(mat'[s].armed.stamp[1], mat'[s].armed.stamp[2], mat'[s].armed.policy, s)
      <3>1. CASE mat'[s].armed = mat[s].armed
        BY Zenon, <3>1, Parts, StampKept
      <3>2. CASE /\ mat'[s].armed.stamp = Stamp(a, s)
                 /\ mat'[s].armed.policy = a.rows[s].policy
        <4>1. KnownNext(a.generation, a.rows[s].revision, a.rows[s].policy, s)
          BY DEF ReaderNext
        <4> QED
          BY ZenonT(60), <1>1, <3>2, <4>1, RowStamp
      <3> QED
        BY Zenon, <1>2, <3>1, <3>2
    <2>2. live'[s].id # 0 => pass'.resetting \/ store'.rows[s].revision > 0
      <3>1. live[s].id # 0 => pass.resetting \/ store.rows[s].revision > 0
        BY ZenonT(60), Parts DEF CellsOK, Running
      <3>2. Desired(a.rows[s]) => pass'.resetting \/ store'.rows[s].revision > 0
        BY Zenon DEF ReaderNext
      <3> QED
        BY ZenonT(60), <1>2, <3>1, <3>2 DEF Running
    <2> QED
      BY Zenon, <1>2, <2>1, <2>2 DEF CellNext
  <1>4. CellsOK'
    BY Zenon, <1>2, <1>3, CellsNext
  <1>5. PassOK'
    BY ZenonT(60), <1>2, Parts DEF PassOK
  <1> QED
    BY Zenon, <1>2, <1>4, <1>5

(* Where a thread goes after a pass and after a rotation.                  *)
LEMMA AfterReconcileMoves ==
    ASSUME ThreadsOK, NEW w \in Threads, work[w].pc = "apply", AfterReconcile(w)
    PROVE  \E x : Moves(w, x) /\ x.op # "reset" /\ x.pc \notin {"apply", "rotating"}
  <1>1. CASE work[w].op # "submit"
    <2>1. Finished(w)
      BY SMTT(60), <1>1 DEF AfterReconcile
    <2>2. PICK x : Moves(w, x) /\ x.pc = "idle" /\ x.op = "none"
      BY SMTT(60), <2>1, FinishedMoves
    <2> QED
      BY <2>2
  <1>2. CASE work[w].op = "submit"
    <2>1. Reread(w, "rotate", EmptyAuthority)
      BY SMTT(60), <1>2 DEF AfterReconcile, Reread
    <2>2. EmptyAuthority \in Authorities /\ Stages(work[w].op, "rotate")
      BY SMTT(60), <1>2, EmptyTyped, StageTable
    <2>3. PICK x : /\ Moves(w, x) /\ x.pc = "rotate" /\ x.op = work[w].op
      BY SMTT(60), <2>1, <2>2, RereadMoves
    <2> QED
      BY SMTT(60), <1>2, <2>3
  <1> QED
    BY SMTT(60), <1>1, <1>2

(* After a rotation, or when none is due.                                  *)
LEMMA AfterRotationMoves ==
    ASSUME ThreadsOK, NEW w \in Threads, work[w].pc \in {"rotate", "rotating"},
           AfterRotation(w)
    PROVE  \E x : Moves(w, x) /\ x.op # "reset" /\ x.pc \notin {"apply", "rotating"}
  <1>1. work[w].op \in {"submit", "audience", "tick"}
    BY SMTT(60) DEF ThreadsOK, Stage, Stages, Passes
  <1>2. CASE work[w].op = "submit"
    <2>1. Finished(w)
      BY SMTT(60), <1>2 DEF AfterRotation
    <2>2. PICK x : Moves(w, x) /\ x.pc = "idle" /\ x.op = "none"
      BY SMTT(60), <2>1, FinishedMoves
    <2> QED
      BY SMTT(60), <2>2
  <1>3. CASE work[w].op = "audience"
    <2>1. Goto(w, "reconcile") /\ Stages(work[w].op, "reconcile")
      BY SMTT(60), <1>3, StageTable DEF AfterRotation
    <2>2. PICK x : Moves(w, x) /\ x.pc = "reconcile" /\ x.op = work[w].op
      BY SMTT(60), <2>1, GotoMoves
    <2> QED
      BY SMTT(60), <1>3, <2>2
  <1>4. CASE work[w].op = "tick"
    <2>1. Goto(w, "check") /\ Stages(work[w].op, "check")
      BY SMTT(60), <1>4, StageTable DEF AfterRotation
    <2>2. PICK x : Moves(w, x) /\ x.pc = "check" /\ x.op = work[w].op
      BY SMTT(60), <2>1, GotoMoves
    <2> QED
      BY SMTT(60), <1>4, <2>2
  <1> QED
    BY SMTT(60), <1>1, <1>2, <1>3, <1>4

(* The lock is released by a thread that moves on.                         *)
LEMMA ReleaseKeeps ==
    ASSUME PInv, NEW w \in Threads, lock \in {Free, w},
           \E x : Moves(w, x) /\ x.op # "reset" /\ x.pc \notin {"apply", "rotating"},
           pass'.resetting = pass.resetting, pass'.incomplete = pass.incomplete
    PROVE  ThreadsOK'
  <1>1. PICK x : Moves(w, x) /\ x.op # "reset" /\ x.pc \notin {"apply", "rotating"}
    BY SMTT(60)
  <1>2. \A v \in Threads \ {w} : work[v].op = "reset" => pass'.resetting /\ ~pass'.incomplete
    BY SMTT(60), Parts DEF ThreadsOK
  <1> QED
    BY ZenonT(60), <1>1, <1>2, Parts, ThreadsAlone

(* A pass applies what it has read.                                        *)
LEMMA ReconcileStepKeeps ==
    ASSUME PInv, Forward, NEW w \in Threads, Reconcile(w)
    PROVE  PassOK' /\ CellsOK' /\ ThreadsOK'
  <1> DEFINE a == work[w].authority
  <1>1. /\ work[w].pc = "apply" /\ lock = w /\ ReconcileLocked(a)
        /\ AfterReconcile(w) /\ UNCHANGED <<store, requests, pages, world>>
    BY SMTT(60) DEF Reconcile, Holds
  <1>2. Reader(a)
    BY SMTT(60), <1>1, Parts DEF ThreadsOK
  <1> HIDE DEF a
  <1>3. ReaderNext(a)
    <2>1. pass.resetting => pass'.resetting
      BY SMTT(60), <1>1 DEF ReconcileLocked
    <2>2. Grounds
      BY SMTT(60), <1>1, <2>1 DEF Grounds
    <2> QED
      BY SMTT(60), <1>2, <2>2, Parts, ReaderKept
  <1>4. /\ PassOK' /\ CellsOK'
        /\ pass'.resetting = pass.resetting /\ pass'.incomplete = pass.incomplete
    BY SMTT(60), <1>1, <1>3, PassCells
  <1>5. ThreadsOK'
    BY ZenonT(60), <1>1, <1>4, Parts, AfterReconcileMoves, ReleaseKeeps
  <1> QED
    BY SMTT(60), <1>4, <1>5

(* The budget is read, and the rotation decided.                           *)
LEMMA CheckRotationKeeps ==
    ASSUME PInv, Forward, NEW w \in Threads, CheckRotation(w)
    PROVE  PassOK' /\ CellsOK' /\ ThreadsOK'
  <1>1. /\ UNCHANGED <<store, requests, mat, pass, live, pages, world, spent>>
        /\ work[w].pc = "rotate" /\ lock = Free
        /\ (lock' = w /\ Goto(w, "rotating")) \/ AfterRotation(w)
    BY Zenon DEF CheckRotation
  <1>2. Grounds
    BY SMTT(60), <1>1 DEF Grounds
  <1>3. PassOK' /\ CellsOK'
    BY ZenonT(60), <1>1, <1>2, Parts, Quiet DEF PassOK
  <1>4. CASE AfterRotation(w)
    BY ZenonT(60), <1>1, <1>3, <1>4, Parts, AfterRotationMoves, ReleaseKeeps
  <1>5. CASE lock' = w /\ Goto(w, "rotating")
    <2>1. Stages(work[w].op, "rotate")
      BY ZenonT(60), <1>1, Parts DEF Stage
    <2>2. Stages(work[w].op, "rotating") /\ work[w].op # "reset"
      BY SMTT(60), <2>1 DEF Stages, Resets, Passes, Pcs, Ops
    <2>3. PICK x : Moves(w, x) /\ x.pc = "rotating" /\ x.op = work[w].op
      BY ZenonT(60), <1>5, <2>2, Parts, GotoMoves
    <2>4. \A v \in Threads \ {w} : work[v].op = "reset" => pass'.resetting /\ ~pass'.incomplete
      BY SMTT(60), <1>1, Parts DEF ThreadsOK
    <2>5. ThreadsOK'
      BY ZenonT(60), <1>1, <1>5, <2>2, <2>3, <2>4, Parts, ThreadsAlone
    <2> QED
      BY SMTT(60), <1>3, <2>5
  <1> QED
    BY SMTT(60), <1>1, <1>4, <1>5

(* finish_authority_reset_locked: what is left is named, and the barrier   *)
(* comes down on an empty process only.                                    *)
LEMMA FinishResetCells ==
    ASSUME PInv, pass.resetting, NEW fault \in Faults, FinishReset(fault), pages' = pages
    PROVE  /\ PassOK' /\ CellsOK'
           /\ \A s \in Sections : live'[s] \in {live[s], NoWatch}
           /\ ~pass'.resetting => \A s \in Sections : live'[s] = NoWatch
  <1> DEFINE left == {s \in Sections : Running(s) /\ CallTo(fault, s) = "fails"}
             stop(s) == [id |-> live[s].id, due |-> FALSE]
             m(s) == [Unmaterialized EXCEPT !.stopping = stop(s)]
             down == [audience |-> pages, resetting |-> FALSE, incomplete |-> FALSE]
             up == [pass EXCEPT !.incomplete = TRUE]
  <1>1. /\ live' = [s \in Sections |-> IF s \in left THEN live[s] ELSE NoWatch]
        /\ mat' = [s \in Sections |-> IF s \in left THEN m(s) ELSE Unmaterialized]
        /\ pass' = IF left # {} THEN up ELSE down
    BY DEF FinishReset
  <1> HIDE DEF left
  <1>2. /\ up \in [audience : Nat, resetting : BOOLEAN, incomplete : BOOLEAN] /\ up.resetting
    <2>1. pass \in [audience : Nat, resetting : BOOLEAN, incomplete : BOOLEAN]
      BY SMTT(60), Parts
    <2>2. up \in [audience : Nat, resetting : BOOLEAN, incomplete : BOOLEAN]
      BY <2>1, Zenon
    <2>3. up.resetting = pass.resetting
      BY <2>1, ZenonT(60)
    <2> QED
      BY <2>2, <2>3, ZenonT(60)
  <1>3. down \in [audience : Nat, resetting : BOOLEAN, incomplete : BOOLEAN] /\ ~down.resetting
    BY SMTT(60), Parts DEF PassOK
  <1> HIDE DEF up, down
  <1>4. PassOK'
    BY SMTT(60), <1>1, <1>2, <1>3, Parts DEF PassOK
  <1>5. ~pass'.resetting => left = {}
    BY SMTT(60), <1>1, <1>2
  <1>6. ASSUME NEW s \in Sections
        PROVE  m(s) \in Records /\ m(s).armed = NoArmed /\ m(s).stopping = stop(s)
    <2>1. stop(s) \in [id : Nat, due : BOOLEAN]
      BY Parts DEF Watches
    <2> HIDE DEF stop
    <2> QED
      BY SMTT(60), <2>1, EmptyRecord DEF Records
  <1> HIDE DEF m
  <1>7. mat' \in [Sections -> Records] /\ live' \in [Sections -> Watches]
    BY ZenonT(60), <1>1, <1>6, Parts, EmptyRecord, EmptyRecords
  <1>8. ASSUME NEW s \in Sections PROVE CellNext(s)
    <2>1. mat'[s] \in Records /\ live'[s] \in Watches
      BY Zenon, <1>7
    <2>2. CASE s \in left
      <3>1. /\ live'[s] = live[s] /\ mat'[s].armed = NoArmed
            /\ mat'[s].stopping.id = live[s].id /\ ~mat'[s].stopping.due
        <4>1. live'[s] = live[s] /\ mat'[s] = m(s)
          BY SMTT(60), <1>1, <2>2
        <4>2. stop(s).id = live[s].id /\ ~stop(s).due
          BY SMTT(60)
        <4> HIDE DEF stop
        <4> QED
          BY <1>6, <4>1, <4>2, ZenonT(60)
      <3>2. Naming(Cell(mat'[s], live'[s]))
        <4>1. Named(mat'[s], live'[s])
          BY ZenonT(60), <3>1, EmptyRecords DEF Named
        <4> QED
          BY Zenon, <2>1, <4>1, NamingParts
      <3>3. pass'.resetting
        BY <1>1, <1>2, <2>2
      <3> QED
        BY ZenonT(60), <3>1, <3>2, <3>3, EmptyRecords DEF CellNext
    <2>3. CASE s \notin left
      <3>1. live'[s] = NoWatch /\ mat'[s].armed = NoArmed /\ mat'[s].stopping = NoStopping
        BY SMTT(60), <1>1, <2>3, EmptyRecord
      <3>2. Naming(Cell(mat'[s], live'[s]))
        <4>1. Named(mat'[s], live'[s])
          BY ZenonT(60), <3>1, EmptyRecords, EmptyNamed
        <4> QED
          BY Zenon, <2>1, <4>1, NamingParts
      <3> QED
        BY SMTT(60), <3>1, <3>2, EmptyRecords DEF CellNext
    <2> QED
      BY SMTT(60), <2>2, <2>3
  <1>9. CellsOK'
    BY <1>7, <1>8, CellsNext
  <1> QED
    BY SMTT(60), <1>1, <1>4, <1>5, <1>9

(* The tick looks for work, and finishes a reset left incomplete.          *)
LEMMA TickCheckKeeps ==
    ASSUME PInv, Forward, NEW w \in Threads, TickCheck(w)
    PROVE  PassOK' /\ CellsOK' /\ ThreadsOK'
  <1>1. /\ work[w].pc = "check" /\ lock = Free
        /\ UNCHANGED <<store, requests, lock, pages, world>>
    BY SMTT(60) DEF TickCheck
  <1>2. CASE pass.resetting /\ pass.incomplete
    <2>1. PICK fault \in Faults : FinishReset(fault)
      BY SMTT(60), <1>2 DEF TickCheck
    <2>2. Finished(w)
      BY SMTT(60), <1>2 DEF TickCheck
    <2>3. PassOK' /\ CellsOK'
      BY SMTT(60), <1>1, <1>2, <2>1, FinishResetCells
    <2>4. \A v \in Threads : work[v].op # "reset"
      BY SMTT(60), <1>2, Parts DEF ThreadsOK
    <2>5. PICK x : Moves(w, x) /\ x.pc = "idle" /\ x.op = "none"
      BY SMTT(60), <2>2, FinishedMoves
    <2>6. ThreadsOK'
      BY ZenonT(60), <1>1, <2>4, <2>5, Parts, ThreadsAlone
    <2> QED
      BY SMTT(60), <2>3, <2>6
  <1>3. CASE ~(pass.resetting /\ pass.incomplete)
    <2>1. /\ UNCHANGED <<mat, pass, live, spent>>
          /\ Finished(w) \/ Goto(w, "reconcile")
      BY ZenonT(60), <1>3 DEF TickCheck
    <2>2. Grounds
      BY SMTT(60), <1>1, <2>1 DEF Grounds
    <2>3. PassOK' /\ CellsOK'
      BY SMTT(60), <1>1, <2>1, <2>2, Parts, Quiet DEF PassOK
    <2>4. \E x : Moves(w, x) /\ x.op # "reset" /\ x.pc \notin {"apply", "rotating"}
      <3>1. CASE Finished(w)
        <4>1. PICK x : Moves(w, x) /\ x.pc = "idle" /\ x.op = "none"
          BY SMTT(60), <3>1, FinishedMoves
        <4> QED
          BY SMTT(60), <4>1
      <3>2. CASE Goto(w, "reconcile")
        <4>1. work[w].op = "tick" /\ Stages("tick", "reconcile")
          BY ZenonT(60), <1>1, Parts, StageTable DEF Stage, Stages
        <4>2. PICK x : Moves(w, x) /\ x.pc = "reconcile" /\ x.op = work[w].op
          BY SMTT(60), <3>2, <4>1, Parts, GotoMoves
        <4> QED
          BY SMTT(60), <4>1, <4>2
      <3> QED
        BY SMTT(60), <2>1, <3>1, <3>2
    <2>5. ThreadsOK'
      BY Zenon, <1>1, <2>1, <2>4, ReleaseKeeps
    <2> QED
      BY <2>3, <2>5
  <1> QED
    BY <1>2, <1>3

(* The socket stops, behind the barrier.                                   *)
LEMMA StopSocketKeeps ==
    ASSUME PInv, Forward, NEW w \in Threads, StopSocket(w)
    PROVE  PassOK' /\ CellsOK' /\ ThreadsOK'
  <1>1. /\ work[w].pc = "stop" /\ pages' = 0 /\ Goto(w, "clear")
        /\ live' \in {live, [s \in Sections |-> NoWatch]}
        /\ UNCHANGED <<store, requests, mat, pass, lock, world, spent>>
    BY Zenon DEF StopSocket
  <1>2. Grounds
    BY ZenonT(60), <1>1 DEF Grounds
  <1>3. /\ live' \in [Sections -> Watches]
        /\ \A s \in Sections : live'[s] \in {live[s], NoWatch}
    BY SMTT(60), <1>1, Parts, EmptyRecords
  <1>4. work[w].op = "reset" /\ Stages("reset", "clear")
    BY ZenonT(60), <1>1, Parts, StageTable DEF Stage, Stages, Resets
  <1>5. PICK x : Moves(w, x) /\ x.pc = "clear" /\ x.op = work[w].op
    <2>1. ThreadsOK /\ Goto(w, "clear") /\ Stages(work[w].op, "clear")
      BY Zenon, <1>1, <1>4, Parts
    <2> QED
      BY <2>1, GotoMoves
  <1>6. pass'.resetting /\ ~pass'.incomplete
    BY <1>1, <1>4, Parts DEF ThreadsOK
  <1>7. \A v \in Threads \ {w} : work[v].op # "reset"
    BY <1>4, Parts DEF ThreadsOK
  <1>8. ThreadsOK'
    BY ZenonT(60), <1>1, <1>2, <1>5, <1>6, <1>7, Parts, ThreadsBeside
  <1>9. CellsOK'
    BY ZenonT(60), <1>1, <1>2, <1>3, Quiet
  <1> QED
    BY ZenonT(60), <1>1, <1>8, <1>9, Parts DEF PassOK

(* The personal data is cleared, or the clear is refused.                  *)
LEMMA ClearKeeps ==
    ASSUME PInv, Forward, NEW w \in Threads, ClearPersonalData(w)
    PROVE  PassOK' /\ CellsOK' /\ ThreadsOK'
  <1>1. /\ work[w].pc = "clear" /\ Goto(w, "finish")
        /\ UNCHANGED <<requests, mat, pass, lock, live, pages, world, spent>>
    BY DEF ClearPersonalData
  <1>2. work[w].op = "reset" /\ Stages("reset", "finish")
    BY ZenonT(60), <1>1, Parts, StageTable DEF Stage, Stages, Resets
  <1>3. PICK x : Moves(w, x) /\ x.pc = "finish" /\ x.op = work[w].op
    BY SMTT(60), <1>1, <1>2, Parts, GotoMoves
  <1>4. pass'.resetting /\ ~pass'.incomplete
    BY <1>1, <1>2, Parts DEF ThreadsOK
  <1>5. Grounds
    BY SMTT(60), <1>4 DEF Grounds
  <1>6. \A v \in Threads \ {w} : work[v].op # "reset"
    BY SMTT(60), <1>2, Parts DEF ThreadsOK
  <1>7. ThreadsOK'
    BY ZenonT(60), <1>1, <1>3, <1>4, <1>5, <1>6, Parts, ThreadsBeside
  <1>8. CellsOK'
    BY ZenonT(60), <1>1, <1>5, Parts, Quiet
  <1> QED
    BY SMTT(60), <1>1, <1>7, <1>8, Parts DEF PassOK

(* A Full Reset tears down what still runs.                                *)
LEMMA EndResetKeeps ==
    ASSUME PInv, Forward, NEW w \in Threads, EndReset(w)
    PROVE  PassOK' /\ CellsOK' /\ ThreadsOK'
  <1>1. /\ work[w].pc = "finish" /\ lock = Free /\ Finished(w)
        /\ UNCHANGED <<store, requests, lock, pages, world>>
        /\ \E fault \in Faults : FinishReset(fault)
    BY DEF EndReset
  <1>2. work[w].op = "reset"
    BY ZenonT(60), <1>1, Parts DEF Stage, Stages, Resets
  <1>3. pass.resetting /\ \A v \in Threads \ {w} : work[v].op # "reset"
    BY SMTT(60), <1>2, Parts DEF ThreadsOK
  <1>4. PassOK' /\ CellsOK'
    BY ZenonT(60), <1>1, <1>3, FinishResetCells
  <1>5. PICK x : Moves(w, x) /\ x.pc = "idle" /\ x.op = "none"
    BY ZenonT(60), <1>1, FinishedMoves
  <1>6. ThreadsOK'
    BY ZenonT(60), <1>1, <1>3, <1>5, Parts, ThreadsAlone
  <1> QED
    BY <1>4, <1>6
=============================================================================
