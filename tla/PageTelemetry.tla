--------------------------- MODULE PageTelemetry ---------------------------
(***************************************************************************)
(* What the page reads about the sections on its desk (the telemetry half  *)
(* of frontend LiveWatchProvider.tsx). Whole-desk passes, single retries,  *)
(* coalesced batch reads and pushed observations all write the same rows,  *)
(* and their answers land in any order. A ledger per resource orders them. *)
(*                                                                         *)
(* One batch holds all the sections. The desk is what is selected, watched *)
(* or wanted. The content of a row is the version of the server's fact it  *)
(* shows; an answer carries any version between the question and now.      *)
(***************************************************************************)
EXTENDS Integers, FiniteSets

CONSTANTS
    Sections,
    MaxPasses,     \* bound: passes over the desk
    MaxSingles,    \* bound: reads outside a pass
    MaxFacts,      \* bound: observations the server makes
    MaxMoves       \* bound: changes of the desk

VARIABLES
    combined,      \* the client has openBatchStatus: one request for the whole pass
    desk, epoch,
    ledger,        \* telemetryReads
    reads,         \* requests on their way
    rows,          \* telemetryResources
    content,       \* sectionStatuses, batchStatuses: the version shown, 0 for none
    pass, cut,     \* telemetryAbort: its pass, and whether it was aborted
    running,       \* passes that have not returned
    busy,          \* telemetryLoading
    debounce,      \* selectionTelemetryTimer
    batchTimer, followUp,
    fact, pushed,  \* server versions, and how many of them were pushed to the page
    singles, moves

telemetryVars == <<combined, desk, epoch, ledger, reads, rows, content, pass, cut, running, busy, debounce,
                   batchTimer, followUp, fact, pushed, singles, moves>>

Keys == Sections \cup {"batch"}
Wanted == IF desk = {} THEN {} ELSE desk \cup {"batch"}
NoTicket == [issued |-> 0, settled |-> 0, inFlight |-> 0]
NoTarget == [here |-> FALSE, loading |-> FALSE, ok |-> FALSE, held |-> FALSE]
NoRows == [k \in Keys |-> NoTarget]
Nothing == [k \in Keys |-> 0]

TelemetryInit ==
    /\ combined \in BOOLEAN /\ desk = {} /\ epoch = 0 /\ ledger = [k \in Keys |-> NoTicket] /\ reads = {}
    /\ rows = NoRows /\ content = Nothing /\ pass = 0 /\ cut = TRUE /\ running = {} /\ busy = FALSE
    /\ debounce = FALSE /\ batchTimer = FALSE /\ followUp = FALSE
    /\ fact = [k \in Keys |-> 1] /\ pushed = [s \in Sections |-> 1] /\ singles = 0 /\ moves = 0

(* beginTelemetryRead, for every key at once.                              *)
Begun(book, keys) ==
    [k \in Keys |-> IF k \in keys THEN [book[k] EXCEPT !.issued = @ + 1, !.inFlight = @ + 1] ELSE book[k]]
Requests(book, keys, p) ==
    {[key |-> k, revision |-> book[k].issued + 1, epoch |-> epoch, pass |-> p, low |-> fact[k]] : k \in keys}
Marked(shown, keys) ==
    [k \in Keys |-> IF k \in keys THEN [shown[k] EXCEPT !.here = TRUE, !.loading = TRUE] ELSE shown[k]]

-----------------------------------------------------------------------------
(* The telemetryKey effect: the desk changed.                              *)
Moved(now) ==
    /\ moves < MaxMoves /\ moves' = moves + 1
    /\ desk' = now /\ epoch' = epoch + 1 /\ cut' = TRUE
    /\ pushed' = [s \in Sections |-> IF s \in now THEN pushed[s] ELSE fact[s]]
    /\ IF now = {} THEN rows' = NoRows /\ content' = Nothing /\ busy' = FALSE /\ debounce' = FALSE
                   ELSE debounce' = TRUE /\ UNCHANGED <<rows, content, busy>>
    /\ UNCHANGED <<combined, ledger, reads, pass, running, batchTimer, followUp, fact, singles>>

Select(s) == s \notin desk /\ Moved(desk \cup {s})
Remove(s) == s \in desk /\ Moved(desk \ {s})

(* remove of a row the desk does not hold: the pass is cancelled all the   *)
(* same, and nothing starts another.                                       *)
RemoveElsewhere ==
    /\ moves < MaxMoves /\ moves' = moves + 1 /\ epoch' = epoch + 1 /\ cut' = TRUE
    /\ UNCHANGED <<combined, desk, ledger, reads, rows, content, pass, running, busy, debounce, batchTimer,
                   followUp, fact, pushed, singles>>

(* refreshTelemetryWith: after the debounce, by hand, or (automatic) when  *)
(* a freshness expires or the socket closes.                               *)
RefreshWith(automatic) ==
    /\ pass < MaxPasses /\ debounce' = FALSE /\ batchTimer' = FALSE /\ followUp' = FALSE
    /\ IF desk = {}
       THEN /\ rows' = NoRows /\ content' = Nothing /\ busy' = FALSE /\ cut' = TRUE
            /\ UNCHANGED <<pass, running, ledger, reads>>
       ELSE LET asked == {k \in Wanted : ~(automatic /\ rows[k].held)}
                kept == [k \in Keys |-> IF k \in Wanted THEN rows[k] ELSE NoTarget]
            IN /\ pass' = pass + 1 /\ cut' = FALSE /\ running' = running \cup {pass + 1} /\ busy' = TRUE
               /\ ledger' = Begun(ledger, asked) /\ reads' = reads \cup Requests(ledger, asked, pass + 1)
               /\ rows' = Marked(kept, asked)
               /\ content' = [k \in Keys |-> IF k \in Wanted THEN content[k] ELSE 0]
    /\ UNCHANGED <<combined, desk, epoch, fact, pushed, singles, moves>>

Debounced == debounce /\ RefreshWith(FALSE)
Refresh == RefreshWith(FALSE)
Expires == desk # {} /\ RefreshWith(TRUE)

-----------------------------------------------------------------------------
Cancelled(r) == r.pass # 0 /\ (r.pass # pass \/ cut)

(* applySectionRead, applyBatchRead. The ledger settles first; the answer  *)
(* counts unless the row left, a newer answer is on it, the desk was       *)
(* reset, or the failure is the cancellation's own.                        *)
Usable(r, failed) ==
    /\ r.key \in Wanted /\ r.epoch = epoch /\ r.revision > ledger[r.key].settled
    /\ ~(Cancelled(r) /\ failed)

Newest(r) == r.revision = ledger[r.key].issued

SettledRow(r, outcome) ==
    LET row == rows[r.key]
        loading == ledger[r.key].inFlight > 1
    IN IF ~Usable(r, outcome # "ok") THEN [row EXCEPT !.loading = row.here /\ loading]
       ELSE [here |-> TRUE, loading |-> loading, ok |-> row.ok \/ outcome = "ok", held |-> outcome = "refused"]

SettledTicket(r, outcome) ==
    [ledger[r.key] EXCEPT !.inFlight = @ - 1,
                          !.settled = IF Usable(r, outcome # "ok") THEN r.revision ELSE @]

(* What follows a batch read: loadBatchStatus asks once more when someone  *)
(* asked meanwhile. A cancelled pass leaves the mark alone.                *)
Settle(answered, outcome, version, after) ==
    LET of(k) == CHOOSE r \in answered : r.key = k
        keys == {r.key : r \in answered}
        book == [k \in Keys |-> IF k \in keys THEN SettledTicket(of(k), outcome[k]) ELSE ledger[k]]
        shown == [k \in Keys |-> IF k \in keys THEN SettledRow(of(k), outcome[k]) ELSE rows[k]]
        again == after /\ followUp /\ desk # {} /\ singles < MaxSingles
    IN /\ ledger' = IF again THEN Begun(book, {"batch"}) ELSE book
       /\ rows' = IF again THEN Marked(shown, {"batch"}) ELSE shown
       /\ reads' = (reads \ answered) \cup (IF again THEN Requests(book, {"batch"}, 0) ELSE {})
       /\ singles' = IF again THEN singles + 1 ELSE singles
       /\ followUp' = (followUp /\ ~after)
       /\ batchTimer' = (batchTimer /\ ~again)
       /\ content' = [k \in Keys |-> IF k \in keys /\ outcome[k] = "ok" /\ Usable(of(k), FALSE) /\ Newest(of(k))
                                     THEN version[k] ELSE content[k]]
       /\ UNCHANGED <<combined, desk, epoch, pass, cut, running, busy, debounce, fact, pushed, moves>>

(* A read of its own, or one of a pass without the combined request.       *)
SettleOne(r) ==
    /\ r.pass = 0 \/ ~combined
    /\ \E out \in {"ok", "failed", "refused"}, v \in r.low..fact[r.key] :
         Settle({r}, [k \in Keys |-> out], [k \in Keys |-> v],
                r.key = "batch" /\ (r.pass # 0 => ~Cancelled(r) /\ r.epoch = epoch))

(* openBatchStatus: one answer for every ticket of the pass. A section the *)
(* answer leaves out is refused.                                           *)
SettlePass(n) ==
    LET mine == {r \in reads : r.pass = n}
        sections == {r.key : r \in mine} \ {"batch"}
    IN /\ combined /\ mine # {}
       /\ \E failed, early \in BOOLEAN, left \in SUBSET sections :
            /\ failed => left = {}
            /\ Settle(mine,
                      [k \in Keys |-> IF failed THEN "failed" ELSE IF k \in left THEN "refused" ELSE "ok"],
                      [k \in Keys |-> IF early /\ k \in {r.key : r \in mine}
                                       THEN (CHOOSE r \in mine : r.key = k).low ELSE fact[k]],
                      sections # {} /\ \A r \in mine : ~Cancelled(r) /\ r.epoch = epoch)

(* The pass returns. Only the pass the desk is waiting for may say it is   *)
(* done, however it ended.                                                 *)
PassDone(n) == n = pass

PassEnds(n) ==
    /\ n \in running /\ \A r \in reads : r.pass # n
    /\ running' = running \ {n} /\ busy' = (busy /\ ~PassDone(n))
    /\ UNCHANGED <<combined, desk, epoch, ledger, reads, rows, content, pass, cut, debounce, batchTimer,
                   followUp, fact, pushed, singles, moves>>

-----------------------------------------------------------------------------
(* retryTelemetryResource, with loadSectionStatus and loadBatchStatus.     *)
ReadAlone(k) ==
    /\ singles < MaxSingles /\ singles' = singles + 1
    /\ ledger' = Begun(ledger, {k}) /\ reads' = reads \cup Requests(ledger, {k}, 0)
    /\ rows' = Marked(rows, {k})

Retry(k) ==
    /\ rows[k].here /\ ~rows[k].loading /\ ReadAlone(k)
    /\ batchTimer' = (batchTimer /\ k # "batch")
    /\ UNCHANGED <<combined, desk, epoch, content, pass, cut, running, busy, debounce, followUp, fact, pushed,
                   moves>>

(* scheduleBatchStatus, when its window closes.                            *)
BatchTimerFires ==
    /\ batchTimer /\ batchTimer' = FALSE
    /\ IF desk # {} /\ ledger["batch"].inFlight = 0
       THEN ReadAlone("batch") /\ UNCHANGED followUp
       ELSE followUp' = (followUp \/ desk # {}) /\ UNCHANGED <<singles, ledger, reads, rows>>
    /\ UNCHANGED <<combined, desk, epoch, content, pass, cut, running, busy, debounce, fact, pushed, moves>>

(* The server observes a section of the desk.                              *)
Observe(s) ==
    /\ s \in desk /\ fact["batch"] <= MaxFacts
    /\ fact' = [fact EXCEPT ![s] = @ + 1, !["batch"] = @ + 1]
    /\ UNCHANGED <<combined, desk, epoch, ledger, reads, rows, content, pass, cut, running, busy, debounce,
                   batchTimer, followUp, pushed, singles, moves>>

(* OPEN_OBSERVATION: newer than every read asked for before it arrived.    *)
Outranked(s) == [ledger EXCEPT ![s].issued = @ + 1]

ObservationArrives(s) ==
    /\ pushed[s] < fact[s] /\ pushed' = [pushed EXCEPT ![s] = @ + 1]
    /\ content' = [content EXCEPT ![s] = pushed[s] + 1]
    /\ ledger' = Outranked(s) /\ batchTimer' = TRUE
    /\ UNCHANGED <<combined, desk, epoch, reads, rows, pass, cut, running, busy, debounce, followUp, fact,
                   singles, moves>>

Answer == (\E r \in reads : SettleOne(r)) \/ (\E n \in running : SettlePass(n))

TelemetryNext ==
    \/ \E s \in Sections : Select(s) \/ Remove(s) \/ Observe(s) \/ ObservationArrives(s)
    \/ RemoveElsewhere \/ Debounced \/ Refresh \/ Expires \/ Answer \/ BatchTimerFires
    \/ \E n \in running : PassEnds(n)
    \/ \E k \in Keys : Retry(k)

TelemetrySpec == TelemetryInit /\ [][TelemetryNext]_telemetryVars

-----------------------------------------------------------------------------
(* A row says it is reading exactly while a read for it is out, and the    *)
(* desk says so only while its pass runs: no order of answers, failures,   *)
(* removals and cancelled passes leaves the mark up for ever               *)
(* (applySectionRead, applyBatchRead, refreshTelemetryWith).               *)
LoadingHonest ==
    /\ \A k \in Keys : rows[k].loading => \E r \in reads : r.key = k
    /\ busy => pass \in running

AnswerNoOlder == (\E r \in reads : r \notin reads') => \A k \in Keys : content'[k] >= content[k]

(* An answer never takes a row back: what it puts on show is at least as   *)
(* new as what was there, though answers land in any order and             *)
(* observations are pushed meanwhile (settleTelemetryRead,                 *)
(* supersedeTelemetryReads).                                               *)
AnswersNeverRegress == [][AnswerNoOlder]_telemetryVars
=============================================================================
