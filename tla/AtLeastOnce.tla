----------------------------- MODULE AtLeastOnce -----------------------------
(***************************************************************************)
(* What dtex promises of one incremental stream, whatever the connector,   *)
(* the destination and the interruptions: every row the source has offered *)
(* either has landed or will be asked for by the next run.  The promise is *)
(* the one of docs/05 section 5.3 ("at-least-once delivery with no silent  *)
(* data loss") and of docs/03 section 3.2 ("The persisted cursor is a      *)
(* monotonic high-water mark").  StreamLoad implements it.                 *)
(***************************************************************************)
EXTENDS Integers

CONSTANTS
    Row,        \* the rows a source may ever offer
    CursorOf,   \* the cursor value of each row
    Initial,    \* the manifest's `initial_value`
    Lookback,   \* the manifest's `lookback`
    Inclusive,  \* does the source return rows AT the start value?
    None        \* no cursor persisted

VARIABLES
    offered,    \* rows the source has
    landed,     \* rows the destination holds
    mark        \* the persisted high-water mark

vars == <<offered, landed, mark>>

\* Does a request starting at `start` return a row whose cursor value is v?
Reaches(v, start) == IF Inclusive THEN v >= start ELSE v > start

\* Where the next run starts.
Resume(m) == IF m = None THEN Initial ELSE m - Lookback

\* Every offered row is in `rows` or is returned by a run resuming from m.
Covered(off, rows, m) ==
    \A r \in off : r \in rows \/ Reaches(CursorOf[r], Resume(m))

Init ==
    /\ offered = {}
    /\ landed = {}
    /\ mark = None

\* The source grows by rows the next run will see.
Offer(r) ==
    /\ offered' = offered \cup {r}
    /\ UNCHANGED <<landed, mark>>
    /\ Covered(offered', landed, mark)

\* Rows land and the high-water mark moves up, in one step or separately.
LandAndAdvance ==
    /\ \E rows \in SUBSET offered : landed' = landed \cup rows
    /\ mark' = mark \/ (mark' \in Int /\ (mark = None \/ mark' >= mark))
    /\ Covered(offered, landed', mark')
    /\ UNCHANGED offered

\* `dtex state reset`: the next run starts from the beginning.
Forget ==
    /\ mark' = None
    /\ UNCHANGED <<offered, landed>>

Next == (\E r \in Row : Offer(r)) \/ LandAndAdvance \/ Forget

Spec == Init /\ [][Next]_vars
=============================================================================
