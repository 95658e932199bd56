--------------------------- MODULE PageAuthority ---------------------------
(***************************************************************************)
(* A page over standing intent (frontend LiveWatchProvider.tsx with an     *)
(* intent port): authority operations run one at a time in one ordered     *)
(* domain, a gesture is compared with the screen it was made on, and what  *)
(* the page saw for itself (a stopped watch, a closed socket, a request    *)
(* whose answer is unknown) outranks an older answer.                      *)
(*                                                                         *)
(* The server's authority compares and swaps revisions; it is external     *)
(* here. Requests and frames travel separately, and answers may be lost    *)
(* before or after the server acted.                                       *)
(***************************************************************************)
EXTENDS Integers, Sequences, FiniteSets

CONSTANTS
    Sections,
    MaxOps,          \* bound: authority operations of the page
    MaxWatches       \* bound: watches the server arms

Never == -1          \* cutoffReleaseAt = null
NoRow == [rev |-> 0, on |-> FALSE, watch |-> 0, stamp |-> 0]
Blank == [s \in Sections |-> NoRow]

VARIABLES
    srv,         \* the authority's rows: revision, wanted, running watch and its stamp
    frames,      \* WATCH_STOPPED frames on their way to the page
    sock,        \* "open" or "closed"
    armed,       \* watches armed so far
    selected,    \* sections the user keeps on the desk
    shown,       \* intentSnapshotRef
    status,      \* intentStatusRef: "LOADING", "READY" or "FAILED"
    disproved,   \* disprovedAt, as a set of records
    uncertain,   \* uncertainAt, as a set of records
    cutoff,      \* socketCutoffRef
    release,     \* cutoffReleaseAt
    trusted,     \* trustedIdentities
    issued,      \* authorityIssued
    ops,         \* authorityQueue: operations that have not started
    flight,      \* the operation in hand, as a set of at most one
    told,        \* watches a delivered frame said have stopped
    dropped      \* some socket of this page has closed

serverVars == <<srv, armed>>
evidence == <<disproved, uncertain, cutoff, release, trusted>>
authorityVars == <<srv, frames, sock, armed, selected, shown, status, disproved, uncertain, cutoff,
                   release, trusted, issued, ops, flight, told, dropped>>

Named(records) == {q.section : q \in records}
Operation(kind, sections, on, basis) ==
    [kind |-> kind, sections |-> sections, on |-> on, basis |-> basis, seq |-> issued + 1]
Enqueued(op) == issued' = issued + 1 /\ ops' = Append(ops, op)
Read == Operation("read", {}, FALSE, Blank)

(* The first read is asked for on mount.                                   *)
AuthorityInit ==
    /\ srv = Blank /\ frames = <<>> /\ sock = "closed" /\ armed = 0
    /\ selected = Sections /\ shown = Blank /\ status = "LOADING"
    /\ disproved = {} /\ uncertain = {} /\ cutoff = FALSE /\ release = Never /\ trusted = {}
    /\ issued = 1 /\ flight = {} /\ told = {} /\ dropped = FALSE
    /\ ops = <<[kind |-> "read", sections |-> {}, on |-> FALSE, basis |-> Blank, seq |-> 1]>>

-----------------------------------------------------------------------------
(* The server: a wanted section is armed while a page is attached; a watch *)
(* may end on its own, and ends after a stop.                              *)
Arm(s) ==
    /\ sock = "open" /\ srv[s].on /\ srv[s].watch = 0 /\ armed < MaxWatches
    /\ armed' = armed + 1
    /\ srv' = [srv EXCEPT ![s].watch = armed + 1, ![s].stamp = srv[s].rev]
    /\ UNCHANGED <<frames, sock, selected, shown, status, evidence, issued, ops, flight, told, dropped>>

Ends(s) ==
    /\ srv[s].watch # 0
    /\ srv' = [srv EXCEPT ![s].watch = 0]
    /\ frames' = IF sock = "open" THEN Append(frames, [section |-> s, watch |-> srv[s].watch]) ELSE frames
    /\ UNCHANGED <<sock, armed, selected, shown, status, evidence, issued, ops, flight, told, dropped>>

(* The request in hand reaches the server: a read copies the rows, a       *)
(* submission is applied as a whole or refused as a whole.                 *)
Reaches ==
    \E op \in flight :
      LET fits == \A s \in op.sections : srv[s].rev = op.basis[s].rev
          applied == [s \in Sections |->
                        IF s \in op.sections THEN [srv[s] EXCEPT !.rev = @ + 1, !.on = op.on] ELSE srv[s]]
      IN
      /\ op.stage = "asked"
      /\ srv' = IF op.kind = "submit" /\ fits THEN applied ELSE srv
      /\ flight' = {[op EXCEPT !.stage = "answered", !.rows = srv', !.fits = fits]}
      /\ UNCHANGED <<frames, sock, armed, selected, shown, status, evidence, issued, ops, told, dropped>>

-----------------------------------------------------------------------------
(* runAuthority: the next operation starts when the last one has settled.  *)
(* markUncertain as the submission goes out.                               *)
Marked(op) ==
    {q \in uncertain : q.section \notin op.sections}
    \cup {[section |-> s, at |-> op.seq] : s \in op.sections}

StartOperation ==
    /\ flight = {} /\ ops # <<>>
    /\ LET op == Head(ops) IN
       /\ flight' = {[kind |-> op.kind, sections |-> op.sections, on |-> op.on, basis |-> op.basis,
                      seq |-> op.seq, stage |-> "asked", rows |-> Blank, fits |-> FALSE]}
       /\ uncertain' = IF op.kind = "submit" THEN Marked(op) ELSE uncertain
    /\ ops' = Tail(ops)
    /\ UNCHANGED <<serverVars, frames, sock, selected, shown, status, disproved, cutoff, release, trusted,
                   issued, told, dropped>>

(* applyAuthority of an answer that can be read.                           *)
MutOutlives(at, seq) == seq < at
Outlives(at, seq) == seq <= at
Managed(row) == row.on \/ row.watch # 0

ApplyAuthority(op) ==
    /\ shown' = op.rows /\ status' = "READY"
    /\ disproved' = {q \in disproved : Outlives(q.at, op.seq)}
    /\ uncertain' = {q \in uncertain : op.seq < q.at}
    /\ LET lifts == op.kind = "read" /\ cutoff /\ release # Never /\ op.seq > release IN
       /\ cutoff' = (cutoff /\ ~lifts)
       /\ release' = IF lifts THEN Never ELSE release
    /\ trusted' = {s \in Sections : Managed(op.rows[s])}

(* A submission is answered with the rows it left behind, committed or     *)
(* refused; a refusal without rows is read again.                          *)
Answered ==
    \E op \in flight :
      /\ op.stage = "answered" /\ ApplyAuthority(op) /\ flight' = {}
      /\ UNCHANGED <<serverVars, frames, sock, selected, issued, ops, told, dropped>>

(* The answer is lost, or cannot be decoded.                               *)
Lost ==
    \E op \in flight :
      /\ flight' = {} /\ issued < MaxOps
      /\ IF op.kind = "read" THEN status' = "FAILED" /\ UNCHANGED <<issued, ops>>
                             ELSE UNCHANGED status /\ Enqueued(Read)
      /\ UNCHANGED <<serverVars, frames, sock, selected, shown, evidence, told, dropped>>

-----------------------------------------------------------------------------
(* refreshIntent.                                                          *)
Refresh ==
    /\ issued < MaxOps /\ Enqueued(Read)
    /\ status' = IF status = "READY" THEN "READY" ELSE "LOADING"
    /\ UNCHANGED <<serverVars, frames, sock, selected, shown, evidence, flight, told, dropped>>

(* gestureBasis, submitAgainst, runIntentBatch: what the user sees now is  *)
(* what the server will compare with.                                      *)
Submit(sections, on) ==
    /\ issued < MaxOps /\ status = "READY"
    /\ sections \cap Named(uncertain) = {}
    /\ Enqueued(Operation("submit", sections, on, shown))
    /\ UNCHANGED <<serverVars, frames, sock, selected, shown, status, evidence, flight, told, dropped>>

(* startSelected wants what the screen says nobody watches.                *)
StartSelected ==
    LET wanted == {s \in selected : ~shown[s].on} IN wanted # {} /\ Submit(wanted, TRUE)

StopSection(s) == Submit({s}, FALSE)

(* isRemovable fails closed.                                               *)
Remove(s) ==
    /\ s \in selected /\ status = "READY" /\ s \notin Named(uncertain) /\ ~Managed(shown[s])
    /\ selected' = selected \ {s}
    /\ UNCHANGED <<serverVars, frames, sock, shown, status, evidence, issued, ops, flight, told, dropped>>

-----------------------------------------------------------------------------
(* WATCH_STOPPED: disprove, then ask again.                                *)
FrameArrives ==
    /\ frames # <<>> /\ issued < MaxOps
    /\ LET f == Head(frames) IN
       /\ told' = told \cup {f.watch}
       /\ disproved' = {q \in disproved : q.section # f.section}
                       \cup {[section |-> f.section, at |-> issued]}
    /\ frames' = Tail(frames) /\ Enqueued(Read)
    /\ UNCHANGED <<serverVars, sock, selected, shown, status, uncertain, cutoff, release, trusted, flight, dropped>>

(* The socket opens: reads from here on may lift the cutoff, and one is    *)
(* asked for at once.                                                      *)
SocketOpens ==
    /\ sock = "closed" /\ issued < MaxOps /\ sock' = "open"
    /\ release' = IF cutoff THEN issued ELSE release
    /\ Enqueued(Read)
    /\ UNCHANGED <<serverVars, frames, selected, shown, status, disproved, uncertain, cutoff, trusted,
                   flight, told, dropped>>

SocketCloses ==
    /\ sock = "open" /\ sock' = "closed" /\ frames' = <<>>
    /\ cutoff' = TRUE /\ release' = Never /\ dropped' = TRUE
    /\ UNCHANGED <<serverVars, selected, shown, status, disproved, uncertain, trusted, issued, ops, flight,
                   told>>

AuthorityNext ==
    \/ \E s \in Sections : Arm(s) \/ Ends(s) \/ StopSection(s) \/ Remove(s)
    \/ Reaches \/ StartOperation \/ Answered \/ Lost \/ Refresh \/ StartSelected
    \/ FrameArrives \/ SocketOpens \/ SocketCloses

AuthoritySpec == AuthorityInit /\ [][AuthorityNext]_authorityVars

-----------------------------------------------------------------------------
(* watchIntentState = WATCHING over disprovedSnapshot.                     *)
Green(s) ==
    /\ status = "READY" /\ ~cutoff /\ s \notin Named(disproved) \cup Named(uncertain)
    /\ shown[s].on /\ shown[s].watch # 0 /\ shown[s].stamp = shown[s].rev

(* A green light never outlives what the page knows: it is not lit for a   *)
(* watch the page was told has stopped, nor over a socket that closed,     *)
(* however late an answer to an earlier question lands (applyAuthority,    *)
(* disprove, disprovedSnapshot, the state listener).                       *)
GreenIsEarned ==
    \A s \in Sections : Green(s) => /\ shown[s].watch \notin told
                                    /\ dropped => sock = "open"

(* Whatever this page asked the server to watch keeps a row on its desk,   *)
(* and with it the control that stops it, through lost answers, failed     *)
(* reads and rows the user takes off (markUncertain, isRemovable,          *)
(* trustedIdentities, intentSaved).                                        *)
ControlReachable ==
    \A s \in Sections : Managed(srv[s]) => s \in selected \cup trusted \cup Named(uncertain)
=============================================================================
