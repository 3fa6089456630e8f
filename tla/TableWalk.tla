------------------------------ MODULE TableWalk ------------------------------
(***************************************************************************)
(* A table of CockroachDB or Postgres, read page by page, by one run after *)
(* another, while transactions go on stamping its rows.                    *)
(*                                                                         *)
(* dtex/sources/cockroachdb/extract.py has two walks.  The bootstrap       *)
(* sweeps the table in primary-key order, at most bootstrap_max_pages per  *)
(* run, and keeps its position in the stream's state_blob; when it is      *)
(* through it hands the largest cursor value over to the engine.  From     *)
(* then on the keyset pages through `cursor > floor ORDER BY cursor`.      *)
(* dtex/sources/postgres/source.py has the keyset alone, as has an         *)
(* author-written query in either connector.  The walks are generators:    *)
(* the engine (_run_one_stream) holds them while it writes and flushes.    *)
(*                                                                         *)
(* Each page is one statement, hence one instant of the table; a follower  *)
(* read (AS OF SYSTEM TIME) is a page read at an earlier instant.  The     *)
(* destination merges on the primary key and each call lands by itself:    *)
(* behind one transaction (StreamLoad) an interrupted run leaves what it   *)
(* would leave here had it been interrupted before its first write.        *)
(***************************************************************************)
EXTENDS Integers, FiniteSets

CONSTANTS
    Pk,             \* primary keys, in the order of the primary index
    Lookback,       \* incremental.lookback
    Lateness,       \* how far behind the newest stamp one may be committed
    Bulk,           \* may one transaction stamp several rows alike?
    Sweeps,         \* kinds of stream: TRUE has a bootstrap, FALSE has not
    PageSize,       \* params.batch_size
    MaxPages,       \* params.bootstrap_max_pages (0: no cap)
    MinBatchRows,   \* the destination's min_batch_rows (0: no coalescing)
    MaxStamp,       \* bound: the last cursor value the source gives out
    MaxSetbacks,    \* bound: interruptions and resets
    None            \* absent value

ASSUME WalkAssumption ==
    /\ IsFiniteSet(Pk) /\ Pk \subseteq Nat
    /\ Lateness \in Nat /\ Lookback \in Nat /\ Lateness <= Lookback
    /\ Bulk \in BOOLEAN
    /\ Sweeps \subseteq BOOLEAN
    /\ PageSize \in Nat \ {0}
    /\ MaxPages \in Nat /\ MinBatchRows \in Nat
    /\ MaxStamp \in Nat /\ MaxSetbacks \in Nat
    /\ None \notin Int

VARIABLES
    table,      \* cursor value (updated_at) of each row; Absent: no such row
    newest,     \* the largest cursor value given out
    began,      \* newest when the walk under way began
    landed,     \* cursor value of the version in the destination
    cursor,     \* cursor_value of the committed _dtex_state row
    blob,       \* state_blob of that row
    pc,         \* where the run is
    refresh,    \* cursor.is_full_refresh
    walk,       \* the read path extract_stream chose
    seed,       \* cursor.start_value()
    prior,      \* cursor_floor: the cursor persisted before this run
    state,      \* the State object handed to the connector
    at,         \* last_pk of the sweep, floor of the keyset
    pages,      \* pages the sweep has recorded in this run, up to MaxPages
    generator,  \* what the connector's generator will do when resumed
    observed,   \* Cursor.observed_max
    pending,    \* rows yielded and not written yet
    setbacks,   \* the budget used so far (MaxSetbacks)
    sweeps,     \* a table stream of CockroachDB
    ordered     \* incremental.ordered

sourceVars == <<table, newest>>
stateVars == <<cursor, blob>>       \* the committed _dtex_state row
startVars == <<refresh, walk, seed, prior>>
kindVars == <<sweeps, ordered>>     \* fixed for a behaviour
vars == <<sourceVars, began, landed, stateVars, pc, startVars, state, at,
          pages, generator, observed, pending, setbacks, kindVars>>

Absent == 0
Initial == 0    \* incremental.initial_value, before every row

MaybeInt == Int \cup {None}
Blob == [swept : BOOLEAN, lastPk : Pk \cup {None}, max : MaybeInt]

\* bootstrapped, bootstrap_last_pk and bootstrap_cursor_max, never set.
NoBlob == [swept |-> FALSE, lastPk |-> None, max |-> None]

NoRows == [k \in Pk |-> Absent]

\* Rows `new` written over rows `old`.
Over(old, new) == [k \in Pk |-> IF new[k] # Absent THEN new[k] ELSE old[k]]

Larger(a, b) == IF b = None \/ (a # None /\ a >= b) THEN a ELSE b

\* _seed_value: the persisted cursor less the lookback, or initial_value.
Seed(c) == IF c = None THEN Initial ELSE c - Lookback

\* The sweep is part done, in runs before this one.
Suspended == sweeps /\ ~blob.swept /\ blob.lastPk # None
-----------------------------------------------------------------------------
Init ==
    /\ table = NoRows /\ newest = Initial /\ began = Initial
    /\ landed = NoRows
    /\ cursor = None /\ blob = NoBlob
    /\ pc = "idle"
    /\ refresh = FALSE /\ walk = "keyset" /\ seed = None /\ prior = None
    /\ state = NoBlob /\ at = None /\ pages = 0
    /\ generator = "returned"
    /\ observed = None
    /\ pending = NoRows
    /\ setbacks = 0
    /\ sweeps \in Sweeps
    /\ ordered \in BOOLEAN

\* The lookback has to span what can be stamped behind a walk's position
\* while it runs: the whole of a sweep, over all its runs (cockroachdb
\* README, "Correctness"), and a keyset run when stamps may be late.
LookbackSpans(stamp) ==
    Suspended \/ (pc # "idle" /\ (walk = "sweep" \/ Lateness > 0))
        => stamp + Lateness <= began + Lookback

\* A transaction commits: it inserted or updated the rows `keys` and gave
\* them the cursor value `stamp`.
Commit(keys, stamp) ==
    /\ keys # {} /\ (Bulk \/ Cardinality(keys) = 1)
    /\ newest < stamp + Lateness
    /\ \A k \in Pk : table[k] # stamp
    /\ \A k \in keys : table[k] < stamp
    /\ LookbackSpans(stamp)
    /\ table' = [k \in Pk |-> IF k \in keys THEN stamp ELSE table[k]]
    /\ newest' = Larger(newest, stamp)
    /\ UNCHANGED <<began, landed, stateVars, pc, startVars, state, at, pages,
                   generator, observed, pending, setbacks, kindVars>>

\* The engine seeds the cursor and the state, and extract_stream chooses the
\* walk.  A full refresh clears the progress of the sweep in its own State.
Begin(fullRefresh) ==
    /\ pc = "idle"
    /\ pc' = "paging"
    /\ refresh' = fullRefresh
    /\ seed' = IF fullRefresh THEN None ELSE Seed(cursor)
    /\ prior' = IF fullRefresh THEN None ELSE cursor
    /\ state' = IF fullRefresh THEN NoBlob ELSE blob
    /\ walk' = IF sweeps /\ ~state'.swept THEN "sweep" ELSE "keyset"
    /\ at' = IF walk' = "sweep" THEN state'.lastPk ELSE seed'
    /\ pages' = 0
    /\ generator' = "open"
    /\ began' = IF Suspended THEN began ELSE newest
    /\ UNCHANGED <<sourceVars, landed, stateVars, observed, pending, setbacks,
                   kindVars>>

\* Mutant of Return: the tail of the coalescing buffer is dropped.
ReturnAtOnce == generator' = "returned" /\ pc' = "committing"

\* The generator returns; what the coalescing buffer holds is written first.
Return ==
    /\ generator' = "returned"
    /\ pc' = IF pending = NoRows THEN "committing" ELSE "writing"

\* This run has had its share of the sweep.
Capped == walk = "sweep" /\ MaxPages > 0 /\ pages >= MaxPages

\* bootstrap_max_pages reached: the sweep goes on in the next run.
PauseSweep ==
    /\ pc = "paging"
    /\ Capped
    /\ Return
    /\ UNCHANGED <<sourceVars, began, landed, stateVars, startVars, state, at,
                   pages, observed, pending, setbacks, kindVars>>

\* Rows the next page may hold: `pk > last_pk`, all on the first page, or
\* `cursor_field > floor`, which no row satisfies when the floor is NULL.
Beyond ==
    IF walk = "sweep"
    THEN {k \in Pk : table[k] # Absent /\ (at = None \/ k > at)}
    ELSE {k \in Pk : table[k] # Absent /\ at # None /\ table[k] > at}

\* ORDER BY pk, or ORDER BY cursor_field with ties in any order (a wrapped
\* query has no key to break them).
Before(k, q) == IF walk = "sweep" THEN k <= q ELSE table[k] <= table[q]

\* `page` is what ORDER BY ... LIMIT batch_size returns.
IsPage(page) ==
    /\ Cardinality(page) = PageSize \/ page = Beyond
    /\ Cardinality(page) <= PageSize
    /\ \A k \in page, q \in Beyond \ page : Before(k, q)

\* A page is read, observed and yielded; `last` is its last row.  The engine
\* writes when the buffer is full, else it asks for the next page.
ReadPage(page, last) ==
    /\ pc = "paging"
    /\ ~Capped
    /\ IsPage(page)
    /\ last \in page /\ \A k \in page : Before(k, last)
    /\ at' = IF walk = "sweep" THEN last ELSE table[last]
    /\ \E top \in page :
           /\ \A k \in page : table[k] <= table[top]
           /\ observed' = Larger(observed, table[top])
    /\ pending' = Over(pending, [k \in Pk |-> IF k \in page THEN table[k]
                                                           ELSE Absent])
    /\ generator' = IF Cardinality(page) < PageSize THEN "short" ELSE "open"
    /\ pc' = IF Cardinality({k \in Pk : pending'[k] # Absent}) >= MinBatchRows
             THEN "writing" ELSE "resuming"
    /\ UNCHANGED <<sourceVars, began, landed, stateVars, startVars, state,
                   pages, setbacks, kindVars>>

\* The running maximum of the sweep: bootstrap_cursor_max and this run's rows.
RunningMax == Larger(observed, state.max)

\* The sweep is through: the flag is set and the largest cursor value seen in
\* any of its runs is handed to the engine.
HandOver(st) ==
    /\ state' = [st EXCEPT !.swept = TRUE, !.lastPk = None]
    /\ observed' = RunningMax

\* No row is left.
ReadNothing ==
    /\ pc = "paging"
    /\ ~Capped
    /\ Beyond = {}
    /\ IF walk = "sweep" THEN HandOver(state)
                         ELSE UNCHANGED <<state, observed>>
    /\ Return
    /\ UNCHANGED <<sourceVars, began, landed, stateVars, startVars, at, pages,
                   pending, setbacks, kindVars>>

\* Mutant of Recorded: the position is left out.
MaxRecorded == [state EXCEPT !.max = RunningMax]

\* state.set of bootstrap_last_pk and bootstrap_cursor_max.
Recorded == [state EXCEPT !.lastPk = at, !.max = RunningMax]

\* The engine resumes the generator after a yield.  Only now does the sweep
\* record its position in State.
Resume ==
    /\ pc = "resuming"
    /\ IF walk = "keyset" THEN UNCHANGED <<state, observed, pages>>
       ELSE /\ pages' = IF MaxPages = 0 THEN 0 ELSE pages + 1
            /\ IF generator = "short" THEN HandOver(Recorded)
               ELSE state' = Recorded /\ UNCHANGED observed
    /\ IF generator = "short" THEN Return
                              ELSE pc' = "paging" /\ UNCHANGED generator
    /\ UNCHANGED <<sourceVars, began, landed, stateVars, startVars, at,
                   pending, setbacks, kindVars>>
-----------------------------------------------------------------------------
\* hooks["write_batch"] returns: the rows are durable.
WriteBatch ==
    /\ pc = "writing"
    /\ landed' = Over(landed, pending)
    /\ pending' = NoRows
    /\ pc' = "written"
    /\ UNCHANGED <<sourceVars, began, stateVars, startVars, state, at, pages,
                   generator, observed, setbacks, kindVars>>

\* Mutant of SkipState: a full refresh persists its state.
NeverSkip == FALSE

\* skip_state: a full refresh of an incremental stream persists nothing.
SkipState == refresh

\* _maybe_flush_state, throttled by the clock.
FlushState(due) ==
    /\ pc = "written"
    /\ IF due /\ ~SkipState
       THEN /\ blob' = state
            /\ cursor' = Larger(IF ordered /\ observed # None
                                THEN observed ELSE seed, prior)
       ELSE UNCHANGED stateVars
    /\ pc' = IF generator = "returned" THEN "committing" ELSE "resuming"
    /\ UNCHANGED <<sourceVars, began, landed, startVars, state, at, pages,
                   generator, observed, pending, setbacks, kindVars>>

\* The locals of the run are gone.
EndRun ==
    /\ pc' = "idle"
    /\ refresh' = FALSE /\ walk' = "keyset" /\ seed' = None /\ prior' = None
    /\ state' = NoBlob /\ at' = None /\ pages' = 0
    /\ generator' = "returned"
    /\ observed' = None
    /\ pending' = NoRows

\* The final commit_state.
FinalCommit ==
    /\ pc = "committing"
    /\ IF SkipState
       THEN UNCHANGED stateVars
       ELSE /\ blob' = state
            /\ cursor' = Larger(IF observed # None THEN observed ELSE seed,
                                prior)
    /\ EndRun
    /\ UNCHANGED <<sourceVars, began, landed, setbacks, kindVars>>

\* The run is killed or fails; the write in flight may have landed.
Interrupt(inFlight) ==
    /\ pc # "idle"
    /\ inFlight => pc = "writing"
    /\ setbacks < MaxSetbacks
    /\ setbacks' = setbacks + 1
    /\ landed' = IF inFlight THEN Over(landed, pending) ELSE landed
    /\ EndRun
    /\ UNCHANGED <<sourceVars, began, stateVars, kindVars>>

\* `dtex state reset` deletes the row, on DuckDB.  There a run lands as a whole
\* or not at all; the states between runs are among those reached here.
ResetState ==
    /\ pc = "idle"
    /\ cursor # None
    /\ setbacks < MaxSetbacks
    /\ setbacks' = setbacks + 1
    /\ cursor' = None /\ blob' = NoBlob
    /\ UNCHANGED <<sourceVars, began, landed, pc, startVars, state, at, pages,
                   generator, observed, pending, kindVars>>

RunStep ==
    \/ PauseSweep
    \/ \E page \in SUBSET Beyond : \E last \in page : ReadPage(page, last)
    \/ ReadNothing
    \/ Resume
    \/ WriteBatch
    \/ \E due \in BOOLEAN : FlushState(due)
    \/ FinalCommit

Next ==
    \/ \E keys \in SUBSET Pk, stamp \in 1 .. MaxStamp : Commit(keys, stamp)
    \/ \E fullRefresh \in BOOLEAN : Begin(fullRefresh)
    \/ RunStep
    \/ \E inFlight \in BOOLEAN : Interrupt(inFlight)
    \/ ResetState

Spec == Init /\ [][Next]_vars

\* The scheduler starts an incremental run again and again, and a run that is
\* under way goes on until it ends or is interrupted.
FairSpec == Spec /\ SF_vars(Begin(FALSE)) /\ WF_vars(RunStep)
-----------------------------------------------------------------------------
TypeOK ==
    /\ table \in [Pk -> Nat] /\ landed \in [Pk -> Nat]
    /\ pending \in [Pk -> Nat]
    /\ newest \in Nat /\ began \in Nat
    /\ cursor \in MaybeInt /\ blob \in Blob
    /\ pc \in {"idle", "paging", "resuming", "writing", "written",
               "committing"}
    /\ refresh \in BOOLEAN /\ walk \in {"sweep", "keyset"}
    /\ seed \in MaybeInt /\ prior \in MaybeInt
    /\ state \in Blob /\ at \in MaybeInt
    /\ pages \in 0 .. MaxPages
    /\ generator \in {"open", "short", "returned"}
    /\ observed \in MaybeInt
    /\ setbacks \in 0 .. MaxSetbacks
    /\ sweeps \in BOOLEAN /\ ordered \in BOOLEAN

\* A row stamped behind the walk while it was under way.
Fresh(k) == table[k] > began - Lateness

\* Whatever is interrupted, updated behind the walk or resumed in a later run:
\* a row that the persisted state has passed is in the destination in its
\* current version.  Passed means a cursor value up to the resume point once
\* the sweep is through, and before that a key up to bootstrap_last_pk, unless
\* the row was stamped after the sweep began and is left to the lookback
\* (cockroachdb README, "Resumable, page-capped bootstrap").
PassedRowsLanded ==
    \A k \in Pk :
        table[k] # Absent =>
            \/ landed[k] = table[k]
            \/ IF sweeps /\ ~blob.swept
               THEN blob.lastPk = None \/ k > blob.lastPk \/ Fresh(k)
               ELSE table[k] > Seed(cursor)

\* The sweep never loses ground: no flush, commit, kill or full refresh moves
\* its persisted position back or makes a swept table start over; only
\* `dtex state reset` does.
SweepKeepsGround ==
    [][\/ ResetState
       \/ blob'.swept
       \/ /\ ~blob.swept
          /\ blob.lastPk # None => /\ blob'.lastPk # None
                                  /\ blob'.lastPk >= blob.lastPk]_blob

\* Once the source is quiet and runs are no longer interrupted, a capped sweep
\* gets through and the destination ends up with every row as it is.
CatchesUp == <>[](landed = table)
=============================================================================
