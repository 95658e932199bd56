---------------------------- MODULE DesiredWatch ----------------------------
(***************************************************************************)
(* The local coordinator of desired watches (bcsp-local-runtime            *)
(* desired.rs) and the authority it persists (bcsp-local-user-state        *)
(* store.rs): it commits pages' commands to the authority, arms and        *)
(* disarms the physical watches of the process to match, rotates the       *)
(* authority when a budget fills, and stands behind the barrier of a Full  *)
(* Reset (personal.rs).                                                    *)
(*                                                                         *)
(* The authority has one row per section with a revision and a             *)
(* materialization epoch, a generation over all rows, and the ledger of    *)
(* answers already given.  A row with revision 0 is absent, and a row      *)
(* without a policy is the tombstone a removal leaves.  A command is a     *)
(* sequence of items; a single mutation has one item.  Two commands have   *)
(* equal fingerprints exactly when their items are equal.                  *)
(*                                                                         *)
(* Two locks: `lock` is the materialization mutex; the store mutex is held *)
(* for one operator on the authority at a time, each one SQLite            *)
(* transaction, so a command may commit between the authority read of a    *)
(* reconcile and what it does with it.                                     *)
(* Time is abstract: a retry and an unfinished teardown are due or not and *)
(* Elapse makes one due; whether the revalidation interval has passed is a *)
(* choice of every pass.  Attempt counts only pick the length of a wait    *)
(* and are left out.  A watch id is fresh among the ids of its section     *)
(* that anyone still holds.                                                *)
(***************************************************************************)
EXTENDS Integers, FiniteSets, Sequences

CONSTANTS
    Sections,            \* section keys; their order is the key order
    Policies,            \* watch policies
    MaxDesired,          \* MAX_DESIRED_WATCHES
    MaxTombstones,       \* MAX_DESIRED_WATCH_TOMBSTONES
    TombstoneThreshold,  \* DESIRED_WATCH_TOMBSTONE_ROTATION_THRESHOLD
    MaxReceipts,         \* MAX_DESIRED_WATCH_RECEIPTS
    ReceiptThreshold,    \* DESIRED_WATCH_RECEIPT_ROTATION_THRESHOLD
    Workers,      \* threads that serve requests and callbacks
    Cadence,      \* the thread of the socket's maintenance tick
    Ids,          \* mutation ids, 1..n
    Batches,      \* whether pages also send batches
    MaxRequests,  \* bound: commands sent in one run
    MaxPages,     \* bound: pages attached at once
    MaxChurn,     \* bound: pages that attach or leave in one run
    MaxFaults,    \* bound: passes in which a call of the owner fails
    MaxWorld,     \* bound: changes of a section's admissibility
    MaxUpsets     \* bound: Full Resets, restarts and those changes together

ASSUME AuthorityAssumption ==
    /\ Sections \subseteq Nat \ {0} /\ IsFiniteSet(Sections)
    /\ {MaxDesired, MaxTombstones, MaxReceipts} \subseteq Nat \ {0}
    /\ TombstoneThreshold \in 1..MaxTombstones
    /\ ReceiptThreshold \in 1..MaxReceipts

ASSUME DesiredAssumption ==
    /\ {MaxRequests, MaxPages, MaxChurn, MaxFaults, MaxWorld, MaxUpsets} \subseteq Nat
    /\ MaxDesired < TombstoneThreshold   \* preserved tombstones alone force no rotation
    /\ Batches \in BOOLEAN /\ Cadence \notin Workers
    /\ "free" \notin Workers \cup {Cadence}   \* the mark of the free lock

VARIABLES
    store,     \* the persisted authority
    requests,  \* commands sent so far; each may arrive late, again, or never
    mat,       \* mat[s]: what the process believes it runs for section s
    pass,      \* the rest of the Materialization record
    lock,      \* the worker that holds the materialization lock
    live,      \* live[s]: the physical watch the socket's owner holds
    pages,     \* connections that can hear a watch
    world,     \* world[s]: the answer admission_for would give
    work,      \* work[w]: where worker w is
    spent      \* what is used up of each bound

vars == <<store, requests, mat, pass, lock, live, pages, world, work, spent>>

-----------------------------------------------------------------------------
(* The authority: every operator is one transaction.                       *)
NoPolicy == "none"
AbsentRow == [policy |-> NoPolicy, revision |-> 0, epoch |-> 0]

Row == [policy : Policies \cup {NoPolicy}, revision : Nat, epoch : Nat]
Desired(row) == row.policy # NoPolicy
Tombstone(row) == row.revision > 0 /\ row.policy = NoPolicy

Item(section, policy, base) == [section |-> section, policy |-> policy, base |-> base]
Receipt(kind, id, items, outcome) ==
    [kind |-> kind, id |-> id, items |-> items, outcome |-> outcome]

EmptyAuthority ==
    [generation |-> 1, revisions |-> 0, epochs |-> 0,
     rows |-> [s \in Sections |-> AbsentRow], receipts |-> {}]

DesiredSections(a) == {s \in Sections : Desired(a.rows[s])}
Tombstones(a) == {s \in Sections : Tombstone(a.rows[s])}
Answered(a, kind, id) == {r \in a.receipts : r.kind = kind /\ r.id = id}

RotationDue(a) ==
    \/ Cardinality(Tombstones(a)) >= TombstoneThreshold
    \/ Cardinality(a.receipts) >= ReceiptThreshold

-----------------------------------------------------------------------------
(* Writing a command's items: each takes the next revision, and an item    *)
(* that changes whether its section is desired takes the next epoch.       *)
EpochChanges(a, item) ==
    LET row == a.rows[item.section] IN
    row.revision = 0 \/ Desired(row) # (item.policy # NoPolicy)

Written(a, items) ==
    LET changed(n) == {i \in 1..n : EpochChanges(a, items[i])}
        row(i) == [policy |-> items[i].policy, revision |-> a.revisions + i,
                   epoch |-> IF i \in changed(i) THEN a.epochs + Cardinality(changed(i))
                             ELSE a.rows[items[i].section].epoch]
        at(s) == {i \in DOMAIN items : items[i].section = s}
    IN [a EXCEPT !.revisions = @ + Len(items),
                 !.epochs = @ + Cardinality(changed(Len(items))),
                 !.rows = [s \in Sections |-> IF at(s) = {} THEN @[s]
                                              ELSE row(CHOOSE i \in at(s) : TRUE)]]

WithReceipt(a, kind, id, items, outcome) ==
    [a EXCEPT !.receipts = @ \cup {Receipt(kind, id, items, outcome)}]

Decision(a, outcome) == [authority |-> a, outcome |-> outcome]

(* A terminal refusal leaves a receipt and nothing else.                   *)
Refused(a, kind, id, items, outcome) ==
    Decision(WithReceipt(a, kind, id, items, outcome), outcome)

Committed(a, kind, id, items) ==
    Decision(WithReceipt(Written(a, items), kind, id, items, "committed"), "committed")

StaleItems(a, items) == {i \in DOMAIN items : items[i].base # a.rows[items[i].section].revision}

-----------------------------------------------------------------------------
(* commit_desired_watch_mutation: the checks in their frozen order.        *)
AddsTombstone(row, item) == item.policy = NoPolicy /\ ~Tombstone(row)

MutCommitMutation(a, id, generation, item) ==
    LET row == a.rows[item.section]
    IN IF generation # a.generation THEN Decision(a, "stale_generation")
       ELSE IF StaleItems(a, <<item>>) # {} THEN Decision(a, "stale_revision")
       ELSE IF AddsTombstone(row, item) /\ Cardinality(Tombstones(a)) >= MaxTombstones
            THEN Decision(a, "full")
       ELSE Committed(a, "single", id, <<item>>)

CommitMutation(a, id, generation, item) ==
    LET row == a.rows[item.section]
        receipt == Answered(a, "single", id)
    IN IF generation # a.generation THEN Decision(a, "stale_generation")
       ELSE IF Answered(a, "batch", id) # {} THEN Decision(a, "id_conflict")
       ELSE IF receipt # {}
            THEN LET r == CHOOSE r \in receipt : TRUE
                 IN Decision(a, IF r.items = <<item>> THEN r.outcome ELSE "id_conflict")
       ELSE IF Cardinality(a.receipts) >= MaxReceipts THEN Decision(a, "full")
       ELSE IF StaleItems(a, <<item>>) # {}
            THEN Refused(a, "single", id, <<item>>, "stale_revision")
       ELSE IF item.policy # NoPolicy /\ ~Desired(row)
               /\ Cardinality(DesiredSections(a)) >= MaxDesired
            THEN Refused(a, "single", id, <<item>>, "limit")
       ELSE IF AddsTombstone(row, item) /\ Cardinality(Tombstones(a)) >= MaxTombstones
            THEN Decision(a, "full")
       ELSE Committed(a, "single", id, <<item>>)

(* commit_desired_watch_batch: every item against the same pre-state.      *)
DesiredAfter(a, items) == Cardinality(DesiredSections(Written(a, items)))
TombstonesAfter(a, items) == Cardinality(Tombstones(Written(a, items)))

CommitBatch(a, id, generation, items) ==
    LET receipt == Answered(a, "batch", id)
    IN IF generation # a.generation THEN Decision(a, "stale_generation")
       ELSE IF Answered(a, "single", id) # {} THEN Decision(a, "id_conflict")
       ELSE IF receipt # {}
            THEN LET r == CHOOSE r \in receipt : TRUE
                 IN Decision(a, IF r.items = items THEN r.outcome ELSE "id_conflict")
       ELSE IF Cardinality(a.receipts) >= MaxReceipts THEN Decision(a, "full")
       ELSE IF StaleItems(a, items) # {}
            THEN Refused(a, "batch", id, items, "stale_revision")
       ELSE IF DesiredAfter(a, items) > MaxDesired
            THEN Refused(a, "batch", id, items, "limit")
       ELSE IF TombstonesAfter(a, items) > MaxTombstones THEN Decision(a, "full")
       ELSE Committed(a, "batch", id, items)

-----------------------------------------------------------------------------
(* rotate_desired_watch_authority: a new generation that keeps every       *)
(* desired row and the tombstones named, renumbered in section order.      *)
MutRotated(a, preserve) ==
    LET kept == DesiredSections(a) \cup (Tombstones(a) \cap preserve) IN
    [a EXCEPT !.receipts = {}, !.rows = [s \in Sections |-> IF s \in kept THEN @[s] ELSE AbsentRow]]

Rotated(a, preserve) ==
    LET kept == DesiredSections(a) \cup (Tombstones(a) \cap preserve)
        number(s) == Cardinality({r \in kept : r <= s})
    IN [generation |-> a.generation + 1,
        revisions |-> Cardinality(kept), epochs |-> Cardinality(kept),
        rows |-> [s \in Sections |->
                    IF s \in kept
                    THEN [policy |-> a.rows[s].policy, revision |-> number(s), epoch |-> number(s)]
                    ELSE AbsentRow],
        receipts |-> {}]

(* clear_personal_data, as far as the authority is concerned.              *)
Cleared(a) == [EmptyAuthority EXCEPT !.generation = a.generation + 1]

-----------------------------------------------------------------------------
(* What the process holds.                                                 *)
NoStamp == <<0, 0, 0>>
NoWatch == [id |-> 0, policy |-> NoPolicy]
NoArmed == [id |-> 0, policy |-> NoPolicy, stamp |-> NoStamp]
NoStopping == [id |-> 0, due |-> FALSE]
NoFailure == [stamp |-> NoStamp, class |-> "none"]
NoRetry == [stamp |-> NoStamp, due |-> FALSE]
Unmaterialized ==
    [armed |-> NoArmed, stopping |-> NoStopping, blocked |-> FALSE,
     failure |-> NoFailure, retry |-> NoRetry]

Admissions == {"admitted", "unavailable", "refused"}
Idle == [pc |-> "idle", op |-> "none", authority |-> EmptyAuthority]
Free == "free"
Threads == Workers \cup {Cadence}

Init ==
    /\ store = EmptyAuthority /\ requests = {}
    /\ mat = [s \in Sections |-> Unmaterialized]
    /\ pass = [audience |-> 0, resetting |-> FALSE, incomplete |-> FALSE]
    /\ lock = Free
    /\ live = [s \in Sections |-> NoWatch] /\ pages = 0
    /\ world = [s \in Sections |-> "admitted"]
    /\ work = [w \in Threads |-> Idle]
    /\ spent = [faults |-> 0, world |-> 0, upsets |-> 0, churn |-> 0]

Stamp(authority, s) ==
    <<authority.generation, authority.rows[s].revision, authority.rows[s].epoch>>
Running(s) == live[s].id # 0

-----------------------------------------------------------------------------
(* One section's record and its physical watch, through one pass.  `call`  *)
(* is what the owner's answer to this section is: "ok", "fails" (an error  *)
(* and nothing done) or "late" (an error although the watch was stopped).  *)
Cell(m, w) == [m |-> m, w |-> w]

Calls == {"ok", "fails", "late"}

Disarm(cell, id, call) ==
    LET known == cell.w.id = id
        done == ~known \/ call = "ok"
    IN Cell([cell.m EXCEPT !.armed = NoArmed, !.blocked = FALSE,
                           !.stopping = IF done THEN NoStopping ELSE [id |-> id, due |-> FALSE]],
            IF known /\ call # "fails" THEN NoWatch ELSE cell.w)

Retire(cell, call) ==
    LET id == cell.m.armed.id
        next == Disarm(cell, id, call)
    IN IF id = 0 THEN cell
       ELSE IF next.m.stopping.id = id THEN next
       ELSE [next EXCEPT !.m.failure = NoFailure, !.m.retry = NoRetry]

(* Records that name a watch the owner does not hold are stale.            *)
DropStale(cell) ==
    [cell EXCEPT !.m.armed = IF @.id = cell.w.id THEN @ ELSE NoArmed,
                 !.m.blocked = @ /\ cell.m.armed.id \in {0, cell.w.id},
                 !.m.stopping = IF @.id = cell.w.id THEN @ ELSE NoStopping]

RetryTeardown(cell, call) ==
    IF cell.m.stopping.due THEN Disarm(cell, cell.m.stopping.id, call) ELSE cell

Failed(m, stamp, class) ==
    [m EXCEPT !.failure = [stamp |-> stamp, class |-> class],
              !.retry = IF class = "transient" THEN [stamp |-> stamp, due |-> FALSE] ELSE NoRetry]

Revalidate(cell, stamp, admission, call) ==
    IF cell.m.armed.id = 0 \/ admission = "admitted" THEN cell
    ELSE LET next == Disarm(cell, cell.m.armed.id, call)
         IN [next EXCEPT !.m = Failed(@, stamp, IF admission = "refused" THEN "permanent"
                                                 ELSE "transient")]

(* A running watch is adopted under the current stamp; a policy edit is    *)
(* applied in place, and one that fails leaves the record as it was.       *)
MutAdopt(cell, stamp, policy, call) ==
    IF cell.m.armed.id = 0 THEN cell
    ELSE [cell EXCEPT !.m.armed = [@ EXCEPT !.stamp = stamp, !.policy = policy],
                      !.m.failure = NoFailure, !.m.retry = NoRetry,
                      !.w.policy = IF call = "ok" THEN policy ELSE @]

Adopt(cell, stamp, policy, call) ==
    IF cell.m.armed.id = 0 THEN cell
    ELSE IF cell.m.armed.policy = policy
         THEN [cell EXCEPT !.m.armed.stamp = stamp, !.m.failure = NoFailure,
                           !.m.retry = NoRetry, !.m.blocked = FALSE]
    ELSE IF call = "ok"
         THEN [cell EXCEPT !.m.armed = [@ EXCEPT !.stamp = stamp, !.policy = policy],
                           !.m.failure = NoFailure, !.m.retry = NoRetry, !.w.policy = policy]
    ELSE [cell EXCEPT !.m = Failed(@, stamp, "transient")]

Retained(cell, keep) ==
    IF keep \/ cell.m.armed.id # 0 \/ cell.m.stopping.id # 0 THEN cell
    ELSE Cell(Unmaterialized, cell.w)

(* What is left of a section after every step of a pass but the arming.    *)
Settled(authority, revalidate, s, cell, call) ==
    LET row == authority.rows[s]
        clean == RetryTeardown(DropStale(cell), call)
        valid == IF revalidate /\ Desired(row)
                 THEN Revalidate(clean, Stamp(authority, s), world[s], call) ELSE clean
    IN IF pages = 0 THEN Retained(Retire(clean, call), FALSE)
       ELSE IF Desired(row) THEN Adopt(valid, Stamp(authority, s), row.policy, call)
       ELSE Retained(Retire(valid, call), FALSE)

-----------------------------------------------------------------------------
(* The arming of one pass: one start call for every desired section that   *)
(* has no watch, no unfinished teardown, no permanent verdict on this very *)
(* intent and no wait that is still running for it.                        *)
MutMayArm(authority, s, cell) ==
    /\ pages > 0 /\ Desired(authority.rows[s])
    /\ cell.m.armed.id = 0
    /\ ~(cell.m.failure.class = "permanent")
    /\ ~(cell.m.retry.stamp = Stamp(authority, s) /\ ~cell.m.retry.due)

MayArm(authority, s, cell) ==
    /\ pages > 0 /\ Desired(authority.rows[s])
    /\ cell.m.armed.id = 0 /\ cell.m.stopping.id = 0
    /\ ~(cell.m.failure.class = "permanent" /\ cell.m.failure.stamp = Stamp(authority, s))
    /\ ~(cell.m.retry.stamp = Stamp(authority, s) /\ ~cell.m.retry.due)

FreshId(cell) == CHOOSE i \in 1..2 : i # cell.w.id /\ i # cell.m.stopping.id

(* What the start call answers for one section: a section already watched  *)
(* and a full process are transient, a refused section is permanent.       *)
Armed(authority, s, cell, slots) ==
    LET stamp == Stamp(authority, s)
        policy == authority.rows[s].policy
        id == FreshId(cell)
    IN IF cell.w.id # 0 \/ world[s] = "unavailable"
       THEN [cell EXCEPT !.m = [Failed(@, stamp, "transient") EXCEPT !.blocked = FALSE]]
       ELSE IF world[s] = "refused"
       THEN [cell EXCEPT !.m = [Failed(@, stamp, "permanent") EXCEPT !.blocked = FALSE]]
       ELSE IF ~slots
       THEN [cell EXCEPT !.m = [Failed(@, stamp, "transient") EXCEPT !.blocked = TRUE]]
       ELSE Cell([Unmaterialized EXCEPT !.armed = [id |-> id, policy |-> policy, stamp |-> stamp]],
                 [id |-> id, policy |-> policy])

(* What may go wrong with the owner in one pass: a call about one section, *)
(* or the start call.                                                      *)
NoFault == [section |-> 0, call |-> "ok", start |-> "ok"]
Faults ==
    {NoFault} \cup
    IF spent.faults = MaxFaults THEN {}
    ELSE [section : Sections, call : Calls \ {"ok"}, start : {"ok"}]
         \cup {[NoFault EXCEPT !.start = "fails"]}
CallTo(fault, s) == IF fault.section = s THEN fault.call ELSE "ok"
SpendFault(fault) ==
    spent' = [spent EXCEPT !.faults = @ + (IF fault = NoFault THEN 0 ELSE 1)]

Pass(authority, revalidate, fault) ==
    LET cells == [s \in Sections |-> Settled(authority, revalidate, s, Cell(mat[s], live[s]), CallTo(fault, s))]
        arming == {s \in Sections : MayArm(authority, s, cells[s])}
        held == Cardinality({s \in Sections : cells[s].w.id # 0})
        ahead(s) == Cardinality({r \in arming : r < s /\ world[r] = "admitted" /\ cells[r].w.id = 0})
    IN [s \in Sections |->
          IF s \notin arming THEN cells[s]
          ELSE IF fault.start # "ok"
               THEN [cells[s] EXCEPT !.m = Failed(@, Stamp(authority, s), "transient")]
          ELSE Armed(authority, s, cells[s], held + ahead(s) < MaxDesired)]

(* Revalidation may be due or not; it leaves an admitted section alone.    *)
Revalidations == IF \A s \in Sections : world[s] = "admitted" THEN {FALSE} ELSE BOOLEAN

(* reconcile_locked, under the materialization lock.                       *)
ReconcileLocked(authority) ==
    IF pass.resetting THEN UNCHANGED <<mat, live, pass, spent>>
    ELSE \E revalidate \in Revalidations, fault \in Faults :
            LET cells == Pass(authority, revalidate, fault)
            IN /\ SpendFault(fault)
               /\ mat' = [s \in Sections |-> cells[s].m]
               /\ live' = [s \in Sections |-> cells[s].w]
               /\ pass' = [pass EXCEPT !.audience = pages]

-----------------------------------------------------------------------------
(* Workers.  An operation runs through its stages; the lock is held from   *)
(* "reconcile" to "apply" and from "rotate" to "rotating".                 *)
Holds(w) == lock = w
Goto(w, pc) == work' = [work EXCEPT ![w].pc = pc]
Finished(w) == work' = [work EXCEPT ![w] = Idle]
Begin(w, op, pc) ==
    /\ work[w] = Idle
    /\ work' = [work EXCEPT ![w] = [Idle EXCEPT !.pc = pc, !.op = op]]

AfterRotation(w) ==
    CASE work[w].op = "submit" -> Finished(w)
      [] work[w].op = "audience" -> Goto(w, "reconcile")
      [] work[w].op = "tick" -> Goto(w, "check")

AfterReconcile(w) ==
    IF work[w].op # "submit" THEN Finished(w)
    ELSE work' = [work EXCEPT ![w].pc = "rotate", ![w].authority = EmptyAuthority]

(* A page reads the authority and sends one command about what it read.    *)
Send(id, items) ==
    /\ Cardinality(requests) < MaxRequests
    /\ id <= 1 + Cardinality({r.id : r \in requests})   \* ids are alike
    /\ requests' = requests \cup {[id |-> id, generation |-> store.generation, items |-> items]}
    /\ requests' # requests
    /\ UNCHANGED <<store, mat, pass, lock, live, pages, world, work, spent>>

Reading(s, policy) == Item(s, policy, store.rows[s].revision)

(* submit and submit_batch: the command commits under the store lock, and  *)
(* a committed answer, replayed or not, is followed by a reconcile.        *)
Decide(r) ==
    IF Len(r.items) = 1 THEN CommitMutation(store, r.id, r.generation, r.items[1])
    ELSE CommitBatch(store, r.id, r.generation, r.items)

Submit(w, r) ==
    LET decision == Decide(r) IN
    /\ Begin(w, "submit", IF decision.outcome = "committed" THEN "reconcile" ELSE "rotate")
    /\ store' = decision.authority
    /\ UNCHANGED <<requests, mat, pass, lock, live, pages, world, spent>>

ReadAuthority(w) ==
    /\ work[w].pc = "reconcile" /\ lock = Free
    /\ lock' = w
    /\ work' = [work EXCEPT ![w].pc = "apply", ![w].authority = store]
    /\ UNCHANGED <<store, requests, mat, pass, live, pages, world, spent>>

Reconcile(w) ==
    /\ work[w].pc = "apply" /\ Holds(w)
    /\ ReconcileLocked(work[w].authority)
    /\ lock' = Free /\ AfterReconcile(w)
    /\ UNCHANGED <<store, requests, pages, world>>

(* rotate_if_due: the budget is read under the lock, and the rotation      *)
(* keeps the tombstone of every watch the process still holds.             *)
CheckRotation(w) ==
    /\ work[w].pc = "rotate" /\ lock = Free
    /\ IF RotationDue(store)
       THEN lock' = w /\ Goto(w, "rotating")
       ELSE lock' = lock /\ AfterRotation(w)
    /\ UNCHANGED <<store, requests, mat, pass, live, pages, world, spent>>

MutPreserved == {s \in Sections : mat[s].stopping.id # 0}
Preserved == {s \in Sections : Running(s) \/ mat[s].stopping.id # 0}

Rotate(w) ==
    /\ work[w].pc = "rotating" /\ Holds(w)
    /\ store' = Rotated(store, Preserved)
    /\ ReconcileLocked(store')
    /\ lock' = Free /\ AfterRotation(w)
    /\ UNCHANGED <<requests, pages, world>>

-----------------------------------------------------------------------------
(* LocalWatchRoute: a page attaches or leaves, and the callback follows.   *)
AudienceChanged(w, count) ==
    /\ count # pages /\ spent.churn < MaxChurn
    /\ Begin(w, "audience", "rotate")
    /\ pages' = count /\ spent' = [spent EXCEPT !.churn = @ + 1]
    /\ UNCHANGED <<store, requests, mat, pass, lock, live, world>>

(* The route's tick: the socket's own tick may drop silent pages and stops *)
(* watches whose term has left the window; the coordinator's tick follows. *)
Tick ==
    /\ Begin(Cadence, "tick", "rotate")
    /\ pages' \in 0..pages
    /\ live' \in {[s \in Sections |-> IF s \in gone THEN NoWatch ELSE live[s]] :
                      gone \in SUBSET {s \in Sections : Running(s) /\ world[s] = "refused"}}
    /\ UNCHANGED <<store, requests, mat, pass, lock, world, spent>>

MutPassDue ==
    \/ pass.audience # pages
    \/ \E s \in Sections : mat[s].retry.due \/ mat[s].armed.id \notin {0, live[s].id}

PassDue ==
    \/ pass.audience # pages
    \/ \E s \in Sections :
         mat[s].retry.due \/ mat[s].stopping.due \/ mat[s].armed.id \notin {0, live[s].id}

MutFinishReset(fault) ==
    LET left == {s \in Sections : Running(s) /\ CallTo(fault, s) = "fails"} IN
    /\ live' = [s \in Sections |-> IF s \in left THEN live[s] ELSE NoWatch]
    /\ mat' = [s \in Sections |-> Unmaterialized]
    /\ pass' = [audience |-> pages, resetting |-> FALSE, incomplete |-> FALSE]
    /\ SpendFault(fault)

(* finish_authority_reset_locked: the barrier comes down on an empty       *)
(* process only; what the owner still holds is all that is remembered.     *)
FinishReset(fault) ==
    LET left == {s \in Sections : Running(s) /\ CallTo(fault, s) = "fails"} IN
    /\ live' = [s \in Sections |-> IF s \in left THEN live[s] ELSE NoWatch]
    /\ mat' = [s \in Sections |->
                 IF s \in left
                 THEN [Unmaterialized EXCEPT !.stopping = [id |-> live[s].id, due |-> FALSE]]
                 ELSE Unmaterialized]
    /\ pass' = IF left # {} THEN [pass EXCEPT !.incomplete = TRUE]
               ELSE [audience |-> pages, resetting |-> FALSE, incomplete |-> FALSE]
    /\ SpendFault(fault)

TickCheck(w) ==
    /\ work[w].pc = "check" /\ lock = Free
    /\ IF pass.resetting
       THEN /\ IF pass.incomplete THEN \E fault \in Faults : FinishReset(fault) ELSE UNCHANGED <<mat, pass, live, spent>>
            /\ Finished(w)
       ELSE /\ (Goto(w, "reconcile") \/ (~PassDue /\ Finished(w)))
            /\ UNCHANGED <<mat, pass, live, spent>>
    /\ UNCHANGED <<store, requests, lock, pages, world>>

-----------------------------------------------------------------------------
(* confirm_local_user_data_reset: the barrier, the socket's stop, the      *)
(* clear, which may be refused, and the teardown, whatever the clear did.  *)
(* The socket's stop reaches the watches of an owner that is the socket    *)
(* itself; any other owner keeps them.                                     *)
BeginReset(w) ==
    /\ spent.upsets < MaxUpsets /\ lock = Free
    /\ \A v \in Threads : work[v].op # "reset"
    /\ Begin(w, "reset", "stop")
    /\ pass' = [pass EXCEPT !.resetting = TRUE, !.incomplete = FALSE]
    /\ spent' = [spent EXCEPT !.upsets = @ + 1]
    /\ UNCHANGED <<store, requests, mat, lock, live, pages, world>>

StopSocket(w) ==
    /\ work[w].pc = "stop"
    /\ live' \in {live, [s \in Sections |-> NoWatch]} /\ pages' = 0
    /\ Goto(w, "clear")
    /\ UNCHANGED <<store, requests, mat, pass, lock, world, spent>>

ClearPersonalData(w) ==
    /\ work[w].pc = "clear"
    /\ store' \in {store, Cleared(store)}
    /\ Goto(w, "finish")
    /\ UNCHANGED <<requests, mat, pass, lock, live, pages, world, spent>>

EndReset(w) ==
    /\ work[w].pc = "finish" /\ lock = Free
    /\ \E fault \in Faults : FinishReset(fault)
    /\ Finished(w)
    /\ UNCHANGED <<store, requests, lock, pages, world>>

-----------------------------------------------------------------------------
Elapse(s) ==
    /\ \/ /\ mat[s].retry.stamp # NoStamp /\ ~mat[s].retry.due
          /\ mat' = [mat EXCEPT ![s].retry.due = TRUE]
       \/ /\ mat[s].stopping.id # 0 /\ ~mat[s].stopping.due
          /\ mat' = [mat EXCEPT ![s].stopping.due = TRUE]
    /\ UNCHANGED <<store, requests, pass, lock, live, pages, world, work, spent>>

(* The catalog or the registration window moves under a section.           *)
WorldMoves(s, admission) ==
    /\ spent.world < MaxWorld /\ spent.upsets < MaxUpsets
    /\ world[s] # admission
    /\ world' = [world EXCEPT ![s] = admission]
    /\ spent' = [spent EXCEPT !.world = @ + 1, !.upsets = @ + 1]
    /\ UNCHANGED <<store, requests, mat, pass, lock, live, pages, work>>

(* The process dies anywhere and starts again: only the store survives.    *)
Restart ==
    /\ spent.upsets < MaxUpsets
    /\ spent' = [spent EXCEPT !.upsets = @ + 1]
    /\ mat' = [s \in Sections |-> Unmaterialized]
    /\ pass' = [audience |-> 0, resetting |-> FALSE, incomplete |-> FALSE]
    /\ lock' = Free /\ work' = [w \in Threads |-> Idle]
    /\ live' = [s \in Sections |-> NoWatch] /\ pages' = 0
    /\ UNCHANGED <<store, requests, world>>

Step(w) ==
    \/ ReadAuthority(w) \/ Reconcile(w) \/ CheckRotation(w) \/ Rotate(w)
    \/ TickCheck(w)
    \/ StopSocket(w) \/ ClearPersonalData(w) \/ EndReset(w)

Next ==
    \/ \E id \in Ids, s \in Sections, policy \in Policies \cup {NoPolicy} :
          Send(id, <<Reading(s, policy)>>)
    \/ /\ Batches
       /\ \E id \in Ids, r, s \in Sections, p, q \in Policies \cup {NoPolicy} :
             r < s /\ Send(id, <<Reading(r, p), Reading(s, q)>>)
    \/ \E w \in Workers, r \in requests : Submit(w, r)
    \/ \E w \in Workers, count \in 0..MaxPages : AudienceChanged(w, count)
    \/ \E w \in Workers : BeginReset(w)
    \/ Tick
    \/ \E w \in Threads : Step(w)
    \/ \E s \in Sections : Elapse(s)
    \/ \E s \in Sections, admission \in Admissions : WorldMoves(s, admission)
    \/ Restart

Spec == Init /\ [][Next]_vars

(* The maintenance cadence keeps running, every thread that has started an *)
(* operation goes on with it, and time passes.  Commands may be retried    *)
(* for ever, so the cadence is assumed to win the lock against them now    *)
(* and then.                                                               *)
FairSpec ==
    /\ Spec /\ WF_vars(Tick) /\ SF_vars(Step(Cadence))
    /\ \A w \in Workers : WF_vars(Step(w))
    /\ \A s \in Sections : WF_vars(Elapse(s))

-----------------------------------------------------------------------------
(* What `read` reports about one row: project.                             *)
Materialized(s) == mat[s].armed.id # 0 /\ mat[s].armed.id = live[s].id
PendingDisarm(s) == mat[s].stopping.id # 0
Reported(s) == mat[s].failure.class # "none" /\ mat[s].failure.stamp = Stamp(store, s)

(* Every watch that can still ring is on a page: its section has a row in  *)
(* the authority, and the row reads as materialized or as pending disarm.  *)
(* A tombstone is not purged, and a record not dropped, under a running    *)
(* watch, whatever rotates, fails or resets in between (desired.rs         *)
(* rotate_if_due, disarm, finish_authority_reset_locked).                  *)
EveryWatchAddressable ==
    \A s \in Sections : Running(s) =>
        /\ Materialized(s) \/ mat[s].stopping.id = live[s].id
        /\ pass.resetting \/ store.rows[s].revision > 0

(* A row that reads as materialized under its own current numbers is       *)
(* watched with the policy the row asks for (desired.rs project).          *)
GreenLight ==
    \A s \in Sections :
        Materialized(s) /\ mat[s].armed.stamp = Stamp(store, s)
            => live[s].policy = store.rows[s].policy

(* Neither the desired rows nor the tombstones nor the receipts pass their *)
(* cap, whatever commits, is refused, rotates or is cleared (store.rs      *)
(* commit_desired_watch_mutation, commit_desired_watch_batch).             *)
BudgetsHold ==
    /\ Cardinality(DesiredSections(store)) <= MaxDesired
    /\ Cardinality(Tombstones(store)) <= MaxTombstones
    /\ Cardinality(store.receipts) <= MaxReceipts

(* Behind the barrier of a Full Reset no watch starts, and the barrier     *)
(* comes down on an empty process only (desired.rs                         *)
(* begin_authority_reset, finish_authority_reset).                         *)
BarrierHolds ==
    [][pass.resetting =>
         /\ \A s \in Sections : live'[s] \in {live[s], NoWatch}
         /\ ~pass'.resetting => \A s \in Sections : live'[s] = NoWatch]_vars

(* The authority implements the ledger of intents: a command takes effect  *)
(* at most once, whole, and against the reading it was made on, however    *)
(* late or often it arrives and whatever rotates in between (store.rs).    *)
Ledger == INSTANCE IntentLedger WITH
    intent <- [s \in Sections |-> store.rows[s].policy],
    open <- {r \in requests : r.generation = store.generation /\ StaleItems(store, r.items) = {}},
    answers <- {[id |-> r.id, outcome |-> r.outcome] : r \in store.receipts}
IntentRefined == Ledger!Spec

(* A section that stays wanted by an audience is served: again and again   *)
(* it is watched with its policy, or the reason it is not is reported for  *)
(* the very intent the row holds (desired.rs tick, schedule_retry).        *)
ServedOrExplained ==
    \A s \in Sections :
        <>[](Desired(store.rows[s]) /\ pages > 0)
            => []<>((Running(s) /\ live[s].policy = store.rows[s].policy) \/ Reported(s))

(* A section nobody wants or nobody hears falls silent for good, and a     *)
(* Full Reset ends, also when a teardown failed or nothing announced that  *)
(* the last page left (desired.rs tick, retire).                           *)
FallsSilent ==
    /\ \A s \in Sections :
          <>[](~Desired(store.rows[s]) \/ pages = 0) => <>[]~Running(s)
    /\ []<>~pass.resetting

-----------------------------------------------------------------------------
(* What every step keeps true, for any value of the constants (modules     *)
(* DesiredWatchProofs, DesiredRunProofs).  AInv, of the authority: a row's *)
(* revision is at most the counter, an absent row asks for nothing, every  *)
(* command on its way read a revision the counter has reached and names a  *)
(* section once, and no budget is passed.                                  *)
CommandItems == [section : Sections, policy : Policies \cup {NoPolicy}, base : Nat]

(* A command names each of its sections once.                              *)
WellFormed(items) ==
    /\ items \in Seq(CommandItems)
    /\ \A i, j \in DOMAIN items : items[i].section = items[j].section => i = j

Receipts ==
    [kind : {"single", "batch"}, id : Ids, items : Seq(CommandItems),
     outcome : {"committed", "stale_revision", "limit"}]

Authorities ==
    [generation : Nat, revisions : Nat, epochs : Nat, rows : [Sections -> Row],
     receipts : SUBSET Receipts]

AuthorityOK(a) ==
    /\ a \in Authorities /\ IsFiniteSet(a.receipts)
    /\ \A s \in Sections : /\ a.rows[s].revision <= a.revisions
                           /\ a.rows[s].revision = 0 => a.rows[s].policy = NoPolicy

Budgets(a) ==
    /\ Cardinality(DesiredSections(a)) <= MaxDesired
    /\ Cardinality(Tombstones(a)) <= MaxTombstones
    /\ Cardinality(a.receipts) <= MaxReceipts

Requests == [id : Ids, generation : Nat, items : Seq(CommandItems)]

RequestOK(r) ==
    /\ r \in Requests /\ WellFormed(r.items)
    /\ r.generation <= store.generation
    /\ r.generation = store.generation =>
           \A i \in DOMAIN r.items : r.items[i].base <= store.revisions

AInv ==
    /\ AuthorityOK(store) /\ Budgets(store)
    /\ \A r \in requests : RequestOK(r)

(* PInv, of the coordinator.  Of the records: a running watch is named by  *)
(* its section's record, as armed or as being stopped, and an armed record *)
(* has the policy of the watch it names.  Of the numbers: what a record or *)
(* a pass in flight has read is known to the store, that is, of an older   *)
(* generation or a revision that still stands for the same policy or for   *)
(* none.  Of the threads: who applies a pass or rotates holds the lock,    *)
(* only one Full Reset runs, and while it runs the barrier is up.          *)
Choices == Policies \cup {NoPolicy}
Stamps == Nat \X Nat \X Nat
Watches == [id : Nat, policy : Choices]
ArmedRecords == [id : Nat, policy : Choices, stamp : Stamps]
Records ==
    [armed : ArmedRecords, stopping : [id : Nat, due : BOOLEAN], blocked : BOOLEAN,
     failure : [stamp : Stamps, class : {"none", "transient", "permanent"}],
     retry : [stamp : Stamps, due : BOOLEAN]]
Cells == [m : Records, w : Watches]

(* The record names the watch.                                             *)
Naming(cell) ==
    /\ cell \in Cells
    /\ cell.w.id # 0 => cell.w.id \in {cell.m.armed.id, cell.m.stopping.id}
    /\ cell.m.stopping.id = 0 => ~cell.m.stopping.due
    /\ cell.m.armed.id # 0 /\ cell.m.armed.id = cell.w.id => cell.m.armed.policy = cell.w.policy

(* Numbers read from the store earlier, with the policy they stood for.    *)
Known(generation, revision, policy, s) ==
    /\ generation <= store.generation
    /\ generation = store.generation =>
           /\ revision <= store.revisions
           /\ revision = store.rows[s].revision => policy = store.rows[s].policy

KnownAuthority(a) ==
    /\ a \in Authorities
    /\ \A s \in Sections : Known(a.generation, a.rows[s].revision, a.rows[s].policy, s)

(* An authority read for a pass.                                           *)
Reader(a) ==
    /\ KnownAuthority(a)
    /\ \A s \in Sections : Desired(a.rows[s]) =>
                              pass.resetting \/ store.rows[s].revision > 0

Resets == {"stop", "clear", "finish"}
Passes == {"reconcile", "rotate", "apply", "rotating"}
Pcs == Resets \cup Passes \cup {"idle", "check"}
Ops == {"none", "submit", "audience", "tick", "reset"}
Stages(op, pc) ==
    /\ op \in Ops /\ pc \in Pcs
    /\ pc = "idle" => op = "none"
    /\ pc \in Resets <=> op = "reset"
    /\ pc \in Passes => op \in {"submit", "audience", "tick"}
    /\ pc = "check" => op = "tick"
Stage(x) == Stages(x.op, x.pc)

Works == [pc : Pcs, op : Ops, authority : Authorities]

PassOK ==
    /\ pages \in Nat
    /\ pass \in [audience : Nat, resetting : BOOLEAN, incomplete : BOOLEAN]

CellsOK ==
    /\ mat \in [Sections -> Records] /\ live \in [Sections -> Watches]
    /\ \A s \in Sections :
          /\ Naming(Cell(mat[s], live[s]))
          /\ mat[s].armed.id # 0 =>
                Known(mat[s].armed.stamp[1], mat[s].armed.stamp[2], mat[s].armed.policy, s)
          /\ Running(s) => pass.resetting \/ store.rows[s].revision > 0

ThreadsOK ==
    /\ work \in [Threads -> Works] /\ \A w \in Threads : Stage(work[w])
    /\ \A w \in Threads : work[w].pc \in {"apply", "rotating"} => lock = w
    /\ \A w \in Threads : work[w].op = "reset" => pass.resetting /\ ~pass.incomplete
    /\ \A v, w \in Threads : work[v].op = "reset" /\ work[w].op = "reset" => v = w
    /\ \A w \in Threads : work[w].pc = "apply" => Reader(work[w].authority)

PInv == AInv /\ PassOK /\ CellsOK /\ ThreadsOK
=============================================================================
