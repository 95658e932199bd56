----------------------------- MODULE MCOpenPull -----------------------------
(***************************************************************************)
(* Small instances of OpenPull for TLC.  The thresholds are scaled down:   *)
(* a drop of half is suspect and two or three samples confirm a shrink.    *)
(* One instance takes its constants from the configuration; the others     *)
(* take turns with it (module Turns).                                      *)
(***************************************************************************)
EXTENDS OpenPull, Turns

CONSTANT Parts     \* the instances of the run

Cat(name, sections) == [name |-> name, sections |-> sections]

OneCatalog == {Cat("a", 1..4)}
Shrinks == {1..4, {1}, {2}}

Racing == {Cat("a", {1, 2}), Cat("b", {1, 2, 3})}
RacingResponses == {{1, 2, 3}, {1}}

Losing == {Cat("a", {1, 2, 3}), Cat("b", {1, 2})}
LosingResponses == {{1, 2, 3}, {1}, {}}

(* Five attempts over a retention of one, with a restart.                  *)
Prune == INSTANCE OpenPull WITH
    ConfirmMin <- 2, MinSpan <- 1, Retain <- 1, PruneLimit <- 1, MaxControls <- 1, MaxRollbacks <- 0,
    MaxCrashes <- 1, MaxTime <- 0, MaxAttempts <- 5, MaxRefreshes <- 2, Index <- 1..3,
    Catalogs <- {Cat("a", {1, 2})}, Responses <- {{1, 2}, {1, 3}, {3}}, Watchable <- {},
    db <- v1, now <- v2, rollbacks <- v3, crashes <- v4, watched <- v5, registered <- v6, removed <- v7,
    pool <- v8, controls <- v9, conc <- v10, job <- v11, side <- v12, phase <- v13, openGate <- v14,
    gates <- v15, cand <- v16, pull <- v17, handed <- v18

(* A catalog that gains a section, and the empty one, with a page that     *)
(* watches.                                                                *)
Serve == INSTANCE OpenPull WITH
    ConfirmMin <- 2, MinSpan <- 1, Retain <- 20, PruneLimit <- 5, MaxControls <- 1, MaxRollbacks <- 0,
    MaxCrashes <- 0, MaxTime <- 0, MaxAttempts <- 3, MaxRefreshes <- 2, Index <- 1..3,
    Catalogs <- {Cat("a", {1, 2}), Cat("b", {1, 2, 3}), Cat("empty", {})},
    Responses <- {{1, 2, 3}, {1}, {}}, Watchable <- {1},
    db <- v1, now <- v2, rollbacks <- v3, crashes <- v4, watched <- v5, registered <- v6, removed <- v7,
    pool <- v8, controls <- v9, conc <- v10, job <- v11, side <- v12, phase <- v13, openGate <- v14,
    gates <- v15, cand <- v16, pull <- v17, handed <- v18

TurnInit ==
    /\ Init
    /\ part \in Parts
    /\ \/ part = "own" /\ Off0
       \/ part = "prune" /\ Prune!Init /\ Off18
       \/ part = "serve" /\ Serve!Init /\ Off18

OwnTurn == part = "own" /\ Next /\ UNCHANGED <<part, after0>>
PruneTurn == part = "prune" /\ Prune!Next /\ UNCHANGED <<vars, part, after18>>
ServeTurn == part = "serve" /\ Serve!Next /\ UNCHANGED <<vars, part, after18>>

TurnSpec == TurnInit /\ [][OwnTurn \/ PruneTurn \/ ServeTurn]_<<vars, turns>>

-----------------------------------------------------------------------------

(* The record of the pulls: counters balance, a catalog is served with an  *)
(* open snapshot of its own, the log stays bounded and every STARTED row   *)
(* has a pull that will settle it, through failures, pruning and restarts  *)
(* (open.rs begin_open_pull_attempt to prune_open_diagnostics_transaction). *)
RecordSound ==
    part = "prune" => Prune!CountersBalance /\ Prune!CompleteSnapshot /\ Prune!LogBounded /\ Prune!StartedOwned

(* Two controls of one target: a gate decision that commits was computed   *)
(* from the runtime it advances, and the catalog does not move under a     *)
(* serving pull, though the target is removed and registered again and the *)
(* clock set back (service.rs finish_success).                             *)
DecisionsHold == DecisionCurrent /\ CatalogStable

=============================================================================
