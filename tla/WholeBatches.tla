---------------------------- MODULE WholeBatches ----------------------------
(***************************************************************************)
(* What a destination promises of one table, whatever jobs, retries and    *)
(* staging it uses: the table only ever changes by a whole batch landing   *)
(* the way its write disposition says (docs/05 section 4), or, for         *)
(* `replace`, by being emptied.  No reader sees half a batch, and a merge  *)
(* leaves the last record of each key.  BigQueryLoad implements it.        *)
(***************************************************************************)
EXTENDS Naturals

CONSTANT Row        \* records with a key, the batch they came in, a position

VARIABLES
    disposition,    \* "append", "merge" or "replace"
    offered,        \* rows handed over for writing
    table           \* rows in the table

vars == <<disposition, offered, table>>

BatchOf(rows, n) == {r \in rows : r.batch = n}

\* docs/05 section 4: "the last occurrence wins".
LastPerKey(rows) ==
    {r \in rows : \A q \in rows : q.key = r.key => q.pos <= r.pos}

Upsert(rows, new) == {r \in rows : \A q \in new : q.key # r.key} \cup new

Init ==
    /\ disposition \in {"append", "merge", "replace"}
    /\ offered = {}
    /\ table = {}

\* The rows of a batch are handed over together.
Offer ==
    /\ offered \subseteq offered' /\ offered' \subseteq Row
    /\ \A r \in offered' \ offered : BatchOf(offered, r.batch) = {}
    /\ UNCHANGED <<disposition, table>>

Land(r) ==
    LET rows == BatchOf(offered, r.batch) IN
    /\ table' = IF disposition = "merge" THEN Upsert(table, LastPerKey(rows))
                                         ELSE table \cup rows
    /\ UNCHANGED <<disposition, offered>>

Empty ==
    /\ disposition = "replace"
    /\ table' = {}
    /\ UNCHANGED <<disposition, offered>>

Next == Offer \/ (\E r \in offered : Land(r)) \/ Empty

Spec == Init /\ [][Next]_vars
=============================================================================
