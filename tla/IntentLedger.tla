---------------------------- MODULE IntentLedger ----------------------------
(***************************************************************************)
(* What the desired-watch authority promises a page, without revisions,    *)
(* receipts or rotation.  A command is offered against what the page had   *)
(* read.  It takes effect at most once, all its items together, and only   *)
(* while nothing else has been decided about its sections since that read. *)
(* An answer stands until the ledger is renewed, and a renewal withdraws   *)
(* every command offered before it.                                        *)
(***************************************************************************)
CONSTANTS
    Sections,   \* sections a page may ask for
    NoPolicy    \* a section nobody asks for

VARIABLES
    intent,     \* intent[s]: the policy the user asked for
    open,       \* commands whose reading is still current
    answers     \* answers given since the last renewal, by command id

Items(command) == {command.items[i] : i \in DOMAIN command.items}
Touches(command) == {item.section : item \in Items(command)}
Asked(command, s) == (CHOOSE item \in Items(command) : item.section = s).policy
Unanswered(id) == \A a \in answers : a.id # id

Init == /\ intent = [s \in Sections |-> NoPolicy] /\ open = {} /\ answers = {}

(* A page reads and offers a command.                                      *)
Offer ==
    /\ \E c \in open' : open' = open \cup {c}
    /\ UNCHANGED <<intent, answers>>

Take(command) ==
    /\ Unanswered(command.id)
    /\ intent' = [s \in Sections |-> IF s \in Touches(command) THEN Asked(command, s) ELSE intent[s]]
    /\ open' = {c \in open : Touches(c) \cap Touches(command) = {}}
    /\ answers' = answers \cup {[id |-> command.id, outcome |-> "committed"]}

Refuse(answer) ==
    /\ Unanswered(answer.id) /\ answer.outcome \in {"stale_revision", "limit"}
    /\ answers' = answers \cup {answer}
    /\ UNCHANGED <<intent, open>>

Renew ==
    /\ open' = {} /\ answers' = {}
    /\ intent' \in {intent, [s \in Sections |-> NoPolicy]}

Next ==
    \/ Offer
    \/ \E c \in open : Take(c)
    \/ \E a \in answers' : Refuse(a)
    \/ Renew

Spec == Init /\ [][Next]_<<intent, open, answers>>
=============================================================================
