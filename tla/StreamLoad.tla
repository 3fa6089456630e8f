------------------------------ MODULE StreamLoad ------------------------------
(***************************************************************************)
(* One incremental stream, loaded by one run after another: the loop of    *)
(* dtex/engine/runner.py:_run_one_stream with the cursor it seeds          *)
(* (_seed_value), the batches it pulls from the connector's generator,     *)
(* coalesces and writes, the throttled state flush after a write, the      *)
(* clamp to the prior cursor (_floor_cursor) and the final commit, against *)
(* a destination that is transactional (DuckDB: one transaction around the *)
(* whole load) or not (BigQuery: each call lands by itself).  A run may be *)
(* interrupted, or fail, between any two calls.                            *)
(*                                                                         *)
(* Runs of the same stream do not overlap here: that is what the leases    *)
(* are for (module Leases).                                                *)
(***************************************************************************)
EXTENDS Integers, FiniteSets

CONSTANTS
    Row,            \* rows the source may ever have
    CursorOf,       \* the cursor-field value of each row
    Initial,        \* incremental.initial_value
    Lookback,       \* incremental.lookback; 0 when none is declared
    Lateness,       \* how far behind its newest row the source may add one
    Inclusive,      \* the connector's filter: `>=` the start value, or `>`
    MinBatchRows,   \* the destination's min_batch_rows (0: no coalescing)
    MaxBatch,       \* bound: rows in one batch the connector yields
    FlushInterval,  \* STATE_COMMIT_INTERVAL_SECONDS
    SinceValues,    \* `since:` values an operator may configure
    SinceAhead,     \* may a `since:` be ahead of where the run would resume?
    MaxSetbacks,    \* bound: resets and interruptions that gained nothing
    None            \* no cursor

\* Two rows with one cursor value can straddle a flush, and a source that
\* filters with `>` never returns to the second: the lookback must cover it.
TiesCovered ==
    \/ Inclusive
    \/ Lookback > 0
    \/ \A r, q \in Row : CursorOf[r] = CursorOf[q] => r = q

ASSUME StreamAssumption ==
    /\ IsFiniteSet(Row)
    /\ CursorOf \in [Row -> Int]
    /\ Initial \in Int
    /\ Lookback \in Nat
    /\ Lateness \in Nat
    /\ Inclusive \in BOOLEAN /\ SinceAhead \in BOOLEAN
    /\ MinBatchRows \in Nat
    /\ MaxBatch \in Nat \ {0}
    /\ FlushInterval \in Nat
    /\ SinceValues \subseteq Int
    /\ MaxSetbacks \in Nat
    /\ None \notin Int

\* What the author of a connector owes the engine (docs/03 section 2.2).
ASSUME ConnectorAssumption ==
    /\ Lateness <= Lookback
    /\ \A r \in Row : IF Inclusive THEN CursorOf[r] >= Initial
                                   ELSE CursorOf[r] > Initial

VARIABLES
    source,      \* rows the source has now
    target,      \* rows in the destination table, as another session sees it
    cursor,      \* the cursor_value of the stream's committed _dtex_state row
    pc,          \* where the run is
    mode,        \* the run's effective StreamMode
    seed,        \* cursor_before: the start value handed to the connector
    floor,       \* cursor_floor: the cursor persisted before this run
    snapshot,    \* the rows the connector's query sees
    unread,      \* those of them it will still yield
    pending,     \* rows yielded and not written yet (the coalescing buffer)
    observed,    \* Cursor.observed_max
    loaded,      \* target as the run's own connection sees it
    flushed,     \* cursor_value as the run's own connection sees it
    sinceFlush,  \* time since last_state_flush, up to FlushInterval
    setbacks,    \* the budget used so far (MaxSetbacks)
    ordered,     \* incremental.ordered
    transactional    \* the destination has a `transaction` hook

tableVars == <<target, cursor>>
seedVars == <<mode, seed, floor, snapshot>>
readVars == <<unread, observed>>
ownVars == <<loaded, flushed>>
kindVars == <<ordered, transactional>>    \* fixed for a behaviour
vars == <<source, tableVars, pc, seedVars, readVars, pending, ownVars,
          sinceFlush, setbacks, kindVars>>

MaybeInt == Int \cup {None}

FullRefresh == mode = "full_refresh"

\* The connector's server-side filter on the cursor field.
Reaches(v, start) == IF Inclusive THEN v >= start ELSE v > start

\* _seed_value and _apply_lookback: the persisted cursor minus the lookback,
\* or the manifest's initial value.
Seed(c) == IF c = None THEN Initial ELSE c - Lookback

\* _floor_cursor: max(value, floor), either of which may be absent.
Floor(value, floorValue) ==
    IF floorValue = None \/ (value # None /\ value >= floorValue)
    THEN value ELSE floorValue

\* Cursor.observe: the maximum of what has been reported.
Observe(seen, value) == IF seen = None \/ value > seen THEN value ELSE seen
-----------------------------------------------------------------------------
Init ==
    /\ source = {}
    /\ target = {}
    /\ cursor = None
    /\ pc = "idle"
    /\ mode = "incremental"
    /\ seed = None
    /\ floor = None
    /\ snapshot = {}
    /\ unread = {}
    /\ pending = {}
    /\ observed = None
    /\ loaded = {}
    /\ flushed = None
    /\ sinceFlush = FlushInterval
    /\ setbacks = 0
    /\ ordered \in BOOLEAN
    /\ transactional \in BOOLEAN

\* The source gains a row, at most Lateness behind the ones it has.
Arrive(r) ==
    /\ r \notin source
    /\ \A q \in source : Reaches(CursorOf[r], CursorOf[q] - Lateness)
    /\ source' = source \cup {r}
    /\ UNCHANGED <<tableVars, pc, seedVars, readVars, pending, ownVars,
                   sinceFlush, setbacks, kindVars>>

\* The run has read _dtex_state and calls the connector with the seed `start`.
\* A full-refresh run hides the seed (Cursor.start_value is None) and takes
\* no floor.
Begin(effectiveMode, start) ==
    /\ pc = "idle"
    /\ pc' = "pulling"
    /\ mode' = effectiveMode
    /\ snapshot' = source
    /\ IF effectiveMode = "full_refresh"
       THEN seed' = None /\ floor' = None /\ unread' = source
       ELSE /\ seed' = start
            /\ floor' = cursor
            /\ unread' = {r \in source : Reaches(CursorOf[r], start)}
    /\ pending' = {}
    /\ observed' = None
    /\ loaded' = target
    /\ flushed' = cursor
    /\ sinceFlush' = FlushInterval      \* last_state_flush is None: due
    /\ UNCHANGED <<source, tableVars, setbacks, kindVars>>

BeginIncremental == Begin("incremental", Seed(cursor))

BeginFullRefresh == Begin("full_refresh", Initial)

\* A one-shot `since:` replaces the seed verbatim.
BeginSince(since) ==
    /\ SinceAhead \/ since <= Seed(cursor)
    /\ Begin("incremental", since)

\* next(batches): the connector observes the rows it yields, and an ordered
\* one yields them in non-decreasing cursor order.
PullBatch(batch) ==
    /\ pc = "pulling"
    /\ batch # {} /\ Cardinality(batch) <= MaxBatch
    /\ ordered => \A r \in batch, q \in unread \ batch :
                      CursorOf[r] <= CursorOf[q]
    /\ unread' = unread \ batch
    /\ \E newest \in batch :
           /\ \A r \in batch : CursorOf[r] <= CursorOf[newest]
           /\ observed' = Observe(observed, CursorOf[newest])
    /\ pending' = pending \cup batch
    /\ pc' = IF Cardinality(pending') >= MinBatchRows
             THEN "writing" ELSE "pulling"
    /\ UNCHANGED <<source, tableVars, seedVars, ownVars, sinceFlush, setbacks,
                   kindVars>>

\* Mutant of SourceExhausted: the tail of the coalescing buffer is dropped.
TailDropped ==
    /\ pc = "pulling"
    /\ unread = {}
    /\ pc' = "committing"
    /\ UNCHANGED <<source, tableVars, seedVars, readVars, pending, ownVars,
                   sinceFlush, setbacks, kindVars>>

\* The generator returns: what the buffer still holds is written.
SourceExhausted ==
    /\ pc = "pulling"
    /\ unread = {}
    /\ pc' = IF pending = {} THEN "committing" ELSE "writing"
    /\ UNCHANGED <<source, tableVars, seedVars, readVars, pending, ownVars,
                   sinceFlush, setbacks, kindVars>>

\* Mutant of Publish: a call made inside the transaction commits it.
PublishAtOnce == target' = loaded' /\ cursor' = flushed'

\* A destination call made inside the open transaction is seen by this run
\* alone; otherwise it is there for everyone.
Publish == IF transactional THEN UNCHANGED tableVars
                            ELSE target' = loaded' /\ cursor' = flushed'

\* hooks["write_batch"] returns: the rows are durable.
WriteBatch ==
    /\ pc = "writing"
    /\ loaded' = loaded \cup pending
    /\ pending' = {}
    /\ pc' = "written"
    /\ UNCHANGED flushed
    /\ Publish
    /\ UNCHANGED <<source, seedVars, readVars, sinceFlush, setbacks, kindVars>>

\* What a flush persists: the observed maximum only for an ordered stream.
FlushCursor ==
    Floor(IF observed # None /\ ordered THEN observed ELSE seed, floor)

\* Mutant of FlushState: skip_state does not gate the mid-stream flush.
FlushInFullRefresh ==
    /\ pc = "written"
    /\ IF sinceFlush < FlushInterval
       THEN UNCHANGED <<flushed, sinceFlush>>
       ELSE flushed' = FlushCursor /\ sinceFlush' = 0
    /\ pc' = "pulling"
    /\ UNCHANGED loaded
    /\ Publish
    /\ UNCHANGED <<source, seedVars, readVars, pending, setbacks, kindVars>>

\* _maybe_flush_state, after the write: at most once per FlushInterval, and
\* never in a full-refresh run of an incremental stream (skip_state).
FlushState ==
    /\ pc = "written"
    /\ IF FullRefresh \/ sinceFlush < FlushInterval
       THEN UNCHANGED <<flushed, sinceFlush>>
       ELSE flushed' = FlushCursor /\ sinceFlush' = 0
    /\ pc' = "pulling"
    /\ UNCHANGED loaded
    /\ Publish
    /\ UNCHANGED <<source, seedVars, readVars, pending, setbacks, kindVars>>

\* cursor_after.
FinalCursor == Floor(IF observed # None THEN observed ELSE seed, floor)

\* The locals of _run_one_stream and the open transaction are gone.
EndRun ==
    /\ pc' = "idle"
    /\ mode' = "incremental"
    /\ seed' = None /\ floor' = None
    /\ snapshot' = {} /\ unread' = {} /\ pending' = {}
    /\ observed' = None
    /\ loaded' = {} /\ flushed' = None
    /\ sinceFlush' = FlushInterval

\* The terminal commit_state of a run; a transaction is still open around it.
FinalCommit ==
    /\ pc = "committing"
    /\ LET cursorAfter == IF FullRefresh THEN flushed ELSE FinalCursor
       IN  IF transactional
           THEN /\ flushed' = cursorAfter
                /\ pc' = "closing"
                /\ UNCHANGED <<tableVars, seedVars, readVars, pending, loaded,
                               sinceFlush>>
           ELSE /\ cursor' = cursorAfter
                /\ EndRun
                /\ UNCHANGED target
    /\ UNCHANGED <<source, setbacks, kindVars>>

\* The `with` block exits normally: COMMIT makes data and cursor visible.
CommitTransaction ==
    /\ pc = "closing"
    /\ target' = loaded
    /\ cursor' = flushed
    /\ EndRun
    /\ UNCHANGED <<source, setbacks, kindVars>>
-----------------------------------------------------------------------------
\* Has this run already moved the persisted cursor?
Gained == ~FullRefresh /\ cursor # floor

\* The run ends early: an error, SIGTERM, Ctrl-C, a kill.  A write in flight
\* may have landed in part outside a transaction; inside one, all is undone.
Interrupt(part) ==
    /\ pc # "idle"
    /\ part # {} => pc = "writing" /\ ~transactional
    /\ setbacks' = IF Gained THEN setbacks ELSE setbacks + 1
    /\ setbacks' <= MaxSetbacks
    /\ target' = target \cup part
    /\ EndRun
    /\ UNCHANGED <<source, cursor, kindVars>>

\* `dtex state reset` deletes the row (cli/_state.py:reset_state), where the
\* destination exposes a SQL connection: DuckDB, whose file is open to one
\* process, so not while a run is under way.
ResetState ==
    /\ pc = "idle" /\ transactional
    /\ cursor # None
    /\ setbacks < MaxSetbacks
    /\ setbacks' = setbacks + 1
    /\ cursor' = None
    /\ UNCHANGED <<source, target, pc, seedVars, readVars, pending, ownVars,
                   sinceFlush, kindVars>>

\* Time passes while a run is under way.
Tick ==
    /\ pc # "idle"
    /\ sinceFlush < FlushInterval
    /\ sinceFlush' = sinceFlush + 1
    /\ UNCHANGED <<source, tableVars, pc, seedVars, readVars, pending, ownVars,
                   setbacks, kindVars>>

RunStep ==
    \/ \E batch \in SUBSET unread : PullBatch(batch)
    \/ SourceExhausted
    \/ WriteBatch
    \/ FlushState
    \/ FinalCommit
    \/ CommitTransaction

Next ==
    \/ \E r \in Row : Arrive(r)
    \/ BeginIncremental
    \/ BeginFullRefresh
    \/ \E since \in SinceValues : BeginSince(since)
    \/ RunStep
    \/ \E part \in SUBSET pending : Interrupt(part)
    \/ ResetState
    \/ Tick

Spec == Init /\ [][Next]_vars

\* The scheduler starts an incremental run again and again, and a run that
\* is under way goes on until it ends or is interrupted.
FairSpec == Spec /\ WF_vars(BeginIncremental) /\ WF_vars(RunStep)
-----------------------------------------------------------------------------
TypeOK ==
    /\ source \subseteq Row /\ target \subseteq Row
    /\ cursor \in MaybeInt
    /\ pc \in {"idle", "pulling", "writing", "written", "committing",
               "closing"}
    /\ mode \in {"incremental", "full_refresh"}
    /\ seed \in MaybeInt /\ floor \in MaybeInt
    /\ observed \in MaybeInt /\ flushed \in MaybeInt
    /\ snapshot \subseteq Row /\ unread \subseteq Row
    /\ pending \subseteq Row /\ loaded \subseteq Row
    /\ sinceFlush \in 0 .. FlushInterval
    /\ setbacks \in 0 .. MaxSetbacks
    /\ ordered \in BOOLEAN /\ transactional \in BOOLEAN

\* Every row the source has is in the table, or at or after the point the next
\* run resumes from: no interleaving of writes, flushes, lookback re-walks,
\* interruptions and late rows makes the engine step over a row
\* (docs/05 section 5.3: "no silent data loss").
NoSkip ==
    \A r \in source : r \in target \/ Reaches(CursorOf[r], Seed(cursor))

\* The persisted cursor is a monotonic high-water mark: a re-walk of the
\* lookback window, an earlier `since:` or a full refresh never moves it back
\* (_floor_cursor); only `dtex state reset` removes it.
CursorNeverRegresses ==
    [][\/ cursor = None
       \/ cursor' # None /\ cursor' >= cursor
       \/ ResetState]_cursor

\* On a transactional destination a reader sees the rows of an incremental
\* run only when the run has written them all, and with a cursor that covers
\* them (docs/05 section 5.3: "data and cursor flip together").
DataAndCursorFlipTogether ==
    [][transactional /\ ~FullRefresh =>
         /\ unread \cup pending = {}
         /\ \A r \in target' \ target :
                cursor' # None /\ CursorOf[r] <= cursor']_target

\* Every row the source has is loaded in the end, although an ordered stream
\* may be killed any number of times as long as each run flushed once.
Delivered == \A r \in Row : r \in source ~> r \in target

\* The abstract promise this loop implements.
Promise == INSTANCE AtLeastOnce
             WITH offered <- source, landed <- target, mark <- cursor

\* Every step of the loop is a step the promise allows.
ImplementsPromise == Promise!Spec
=============================================================================
