-------------------------- MODULE DurableDocument ---------------------------
(***************************************************************************)
(* What a Session promises its host about one document, without base file, *)
(* journal, fingerprint or save: a text with numbered versions, of which    *)
(* the last one answered survives the end of the process, and the last     *)
(* durable one a loss of power.                                             *)
(*                                                                         *)
(* The promise has two limits.  An Open may report that it found no way to *)
(* recover; and where another program wrote the file, or a file came back  *)
(* to a content it had before, what an Open recovers is not promised.       *)
(***************************************************************************)
EXTENDS Naturals

CONSTANTS
    Contents,    \* texts
    Versions,    \* numbers of versions, with 0
    NoText       \* what a closed document shows

VARIABLES
    status,      \* "open" or "closed"
    shown,       \* the text an open document shows
    text,        \* text of each version that was attempted, NoText of others
    acked,       \* the last version the host was told of
    durable,     \* the last version a loss of power preserves
    trusted      \* the promise holds

docVars == <<status, shown, text, acked, durable, trusted>>

Init ==
    /\ status = "closed" /\ shown = NoText
    /\ \E c \in Contents : text = [v \in Versions |-> IF v = 0 THEN c ELSE NoText]
    /\ acked = 0 /\ durable = 0 /\ trusted = TRUE

\* A transaction that is not answered yet, or never will be.
Attempt ==
    /\ status = "open"
    /\ \E v \in Versions, c \in Contents :
         v > acked /\ text' = [text EXCEPT ![v] = c]
    /\ UNCHANGED <<status, shown, acked, durable, trusted>>

\* An attempt that was not answered is taken back.
Withdraw ==
    /\ status = "open"
    /\ \E v \in Versions : v > acked /\ text' = [text EXCEPT ![v] = NoText]
    /\ UNCHANGED <<status, shown, acked, durable, trusted>>

\* An attempted version is shown and answered.
Answer ==
    /\ status = "open"
    /\ acked' \in Versions /\ acked' > acked
    /\ text[acked'] # NoText /\ shown' = text[acked']
    /\ UNCHANGED <<status, text, durable, trusted>>

\* Versions become durable, by a sync or by a save.
Harden ==
    /\ durable' \in durable..acked
    /\ UNCHANGED <<status, shown, text, acked, trusted>>

\* Close, or the end of the process.
Leave ==
    /\ status' = "closed" /\ shown' = NoText
    /\ durable' \in durable..acked
    /\ UNCHANGED <<text, acked, trusted>>

LosePower ==
    /\ status' = "closed" /\ shown' = NoText
    /\ acked' \in durable..acked /\ durable' = acked'
    /\ UNCHANGED <<text, trusted>>

\* Versions start again with a text.
Restart(c) ==
    /\ text' = [v \in Versions |-> IF v = 0 THEN c ELSE NoText]
    /\ acked' = 0 /\ durable' = 0

\* An Open shows the answered version, or a later one that was attempted and
\* neither taken back nor lost; never an older one.  Later attempts are gone.
\* Numbering goes on, or starts again with the text that is shown.
Reopen ==
    /\ status = "closed" /\ status' = "open"
    /\ \E v \in Versions :
         /\ v >= acked /\ text[v] # NoText /\ shown' = text[v]
         /\ \/ /\ acked' = v /\ UNCHANGED durable
               /\ text' = [w \in Versions |-> IF w > v THEN NoText ELSE text[w]]
            \/ Restart(text[v])
    /\ UNCHANGED trusted

\* An Open reports an error and gives up what it could not match; the file
\* still has the text of some version.
Refuse ==
    /\ status = "closed"
    /\ \E v \in Versions : text[v] # NoText /\ Restart(text[v])
    /\ UNCHANGED <<status, shown, trusted>>

\* Another program writes the file, or a content comes back.
Distrust ==
    /\ trusted' = FALSE
    /\ UNCHANGED <<status, shown, text, acked, durable>>

\* Without trust nothing is promised until a new beginning.
Untrusted ==
    /\ ~trusted
    /\ trusted' /\ status' = "open" => shown' = text'[acked']

Next ==
    \/ Attempt \/ Withdraw \/ Answer \/ Harden \/ Leave \/ LosePower \/ Reopen \/ Refuse
    \/ Distrust \/ Untrusted

Spec == Init /\ [][Next]_docVars
=============================================================================
