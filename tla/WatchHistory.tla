---------------------------- MODULE WatchHistory ----------------------------
(***************************************************************************)
(* The local target's durable watch history: threads of the watch socket   *)
(* hand dispatches and cleanups to one worker (bcsp-local-runtime          *)
(* history.rs), which writes them through its own connection (store.rs)    *)
(* while the personal surface deletes rows and resets through another.     *)
(***************************************************************************)
EXTENDS Integers, Sequences, FiniteSets, SequencesExt

CONSTANTS
    Episodes,      \* episodes, each with its alert
    Flushers,      \* threads that wait for the worker
    Capacity,      \* ANNOUNCED_OPEN_CAPACITY
    MaxRecords     \* bound: records of one run

VARIABLES
    queue,      \* work the sink has sent
    recorded,   \* number of records accepted
    handled,    \* records the worker is done with
    worker,     \* the record in hand and the steps left, or Waiting
    order,      \* OpenAnnouncements: announced alerts in arrival order
    seen,       \*   and the set that answers for them
    summaries,  \* episode -> its summary row
    actions,    \* <<record, episode>>: action rows
    flusher     \* flusher[f]: "idle", "waiting" or "done", and what it waits for

historyVars == <<queue, recorded, handled, worker, order, seen, summaries, actions, flusher>>
tables == <<summaries, actions>>

Waiting == [id |-> 0]
HistoryInit ==
    /\ queue = <<>> /\ recorded = 0 /\ handled = {} /\ worker = Waiting
    /\ order = <<>> /\ seen = {} /\ summaries = <<>> /\ actions = {}
    /\ flusher = [f \in Flushers |-> [pc |-> "idle", after |-> 0]]

(* record_dispatch (an episode opened, updated or closed, its alert shown  *)
(* or hidden) and record_cleanup (its connection ended).                   *)
Record(e, kind) ==
    /\ recorded < MaxRecords
    /\ recorded' = recorded + 1
    /\ queue' = Append(queue, [id |-> recorded + 1, kind |-> kind, episode |-> e])
    /\ UNCHANGED <<handled, worker, order, seen, tables, flusher>>

(* flush_queue: the marker, then the wait for its answer.                  *)
CallFlush(f) ==
    /\ flusher[f].pc = "idle"
    /\ queue' = Append(queue, [id |-> 0, kind |-> "flush", episode |-> f])
    /\ flusher' = [flusher EXCEPT ![f] = [pc |-> "waiting", after |-> recorded]]
    /\ UNCHANGED <<recorded, handled, worker, order, seen, tables>>

MutFlushReturns(f) ==
    /\ worker = Waiting /\ flusher[f].pc = "waiting"
    /\ queue' = SelectSeq(queue, LAMBDA w : w.kind # "flush" \/ w.episode # f)
    /\ flusher' = [flusher EXCEPT ![f].pc = "done"]
    /\ UNCHANGED <<recorded, handled, worker, order, seen, tables>>

FlushReturns(f) ==
    /\ worker = Waiting /\ queue # <<>>
    /\ Head(queue).kind = "flush" /\ Head(queue).episode = f
    /\ queue' = Tail(queue) /\ flusher' = [flusher EXCEPT ![f].pc = "done"]
    /\ UNCHANGED <<recorded, handled, worker, order, seen, tables>>

-----------------------------------------------------------------------------
(* OpenAnnouncements.                                                      *)
Opened(e) ==
    IF e \in seen THEN UNCHANGED <<order, seen>>
    ELSE LET full == Append(order, e) IN
         IF Len(full) > Capacity
         THEN order' = Tail(full) /\ seen' = (seen \cup {e}) \ {Head(full)}
         ELSE order' = full /\ seen' = seen \cup {e}

Closed(e) == seen' = seen \ {e} /\ order' = SelectSeq(order, LAMBDA a : a # e)

(* run, persist_dispatch: announce, then the rows one statement at a time. *)
TakeRecord ==
    /\ worker = Waiting /\ queue # <<>> /\ Head(queue).kind # "flush"
    /\ queue' = Tail(queue)
    /\ worker' = [id |-> Head(queue).id, kind |-> Head(queue).kind,
                  episode |-> Head(queue).episode, pc |-> "find", found |-> FALSE]
    /\ CASE Head(queue).kind \in {"opened", "updated"} -> Opened(Head(queue).episode)
         [] Head(queue).kind = "closed" -> Closed(Head(queue).episode)
         [] OTHER -> UNCHANGED <<order, seen>>
    /\ UNCHANGED <<recorded, handled, tables, flusher>>

(* find_summary. A cleanup of an episode without one writes no summary.    *)
Find ==
    /\ worker.id > 0 /\ worker.pc = "find"
    /\ LET found == worker.episode \in DOMAIN summaries IN
       worker' = [worker EXCEPT !.found = found,
                                !.pc = IF worker.kind # "cleanup" \/ found
                                       THEN "upsert" ELSE "append"]
    /\ UNCHANGED <<queue, recorded, handled, order, seen, tables, flusher>>

Upsert ==
    /\ worker.id > 0 /\ worker.pc = "upsert"
    /\ summaries' = [e \in DOMAIN summaries \cup {worker.episode} |->
                       IF e # worker.episode THEN summaries[e]
                       ELSE IF worker.kind \in {"closed", "cleanup"} THEN "closed" ELSE "open"]
    /\ worker' = [worker EXCEPT !.pc = "append"]
    /\ UNCHANGED <<queue, recorded, handled, order, seen, actions, flusher>>

Done == worker' = Waiting /\ handled' = handled \cup {worker.id}

(* persist_action, append_episode_action: the summary is looked up again   *)
(* inside the transaction; without it nothing is written.                  *)
AppendAction ==
    /\ worker.id > 0 /\ worker.pc = "append"
    /\ actions' = IF worker.episode \in DOMAIN summaries
                  THEN actions \cup {<<worker.id, worker.episode>>} ELSE actions
    /\ Done /\ UNCHANGED <<queue, recorded, order, seen, summaries, flusher>>

(* A statement fails and the rest of the record is dropped.                *)
Fail ==
    /\ worker.id > 0 /\ Done
    /\ UNCHANGED <<queue, recorded, order, seen, tables, flusher>>

(* delete_episode_history and clear_personal_data, on another connection;  *)
(* the actions of a summary go with it.                                    *)
DeleteSummaries(gone) ==
    /\ gone # {} /\ gone \subseteq DOMAIN summaries
    /\ summaries' = [e \in DOMAIN summaries \ gone |-> summaries[e]]
    /\ actions' = {a \in actions : a[2] \notin gone}
    /\ UNCHANGED <<queue, recorded, handled, worker, order, seen, flusher>>

WorkerStep == TakeRecord \/ Find \/ Upsert \/ AppendAction \/ Fail \/ \E f \in Flushers : FlushReturns(f)

HistoryNext ==
    \/ \E e \in Episodes, kind \in {"opened", "updated", "closed", "cleanup"} : Record(e, kind)
    \/ \E f \in Flushers : CallFlush(f)
    \/ WorkerStep
    \/ \E gone \in SUBSET Episodes : DeleteSummaries(gone)

HistorySpec == HistoryInit /\ [][HistoryNext]_historyVars /\ WF_historyVars(WorkerStep)

-----------------------------------------------------------------------------
FlushWaits(f) == flusher[f].pc = "waiting"
FlushReturned(f) == flusher[f].pc = "done"
Flushed == \A f \in Flushers : flusher[f].pc = "done" => 1..flusher[f].after \subseteq handled

(* "Waits until all records accepted before this call have been            *)
(* processed" (watch_socket.rs WatchDispatchSink::flush), and returns.     *)
FlushBarrier ==
    /\ []Flushed
    /\ \A f \in Flushers : FlushWaits(f) ~> FlushReturned(f)

(* An action row never outlives its episode's summary, though summaries    *)
(* are deleted between the worker's look and its write; and the bounded    *)
(* list of announced alerts and the set that answers for it agree          *)
(* (store.rs append_episode_action, history.rs OpenAnnouncements).         *)
HistoryConsistent ==
    /\ \A a \in actions : a[2] \in DOMAIN summaries
    /\ Len(order) <= Capacity /\ seen = ToSet(order) /\ Cardinality(seen) = Len(order)
=============================================================================
