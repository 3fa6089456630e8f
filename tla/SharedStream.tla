----------------------------- MODULE SharedStream -----------------------------
(***************************************************************************)
(* The builds of module Leases loading one and the same ordered or         *)
(* unordered incremental stream of a destination without transactions      *)
(* (BigQuery).  dtex/engine/runner.py:run reads _dtex_state before it      *)
(* reads and acquires the leases, and a run keeps that copy (`prior`) for  *)
(* its seed, its floor and its rows_total, so what it commits may rest on  *)
(* a cursor that another build has replaced since.                         *)
(*                                                                         *)
(* The lease rows, the control of a run and time are those of Leases, and  *)
(* each step here is a step of Leases or leaves its variables alone.  The  *)
(* rows of the source are 1, 2, ... in cursor order, the cursor of a row   *)
(* is its number, and there is no lookback (StreamLoad treats lookbacks,   *)
(* ties and late rows).  A flush that is throttled and one that is not are *)
(* both possible after every write.                                        *)
(***************************************************************************)
EXTENDS Leases

CONSTANTS
    Shared,     \* the stream
    MaxRow,     \* bound: rows the source may get
    NotRead     \* the run has not read _dtex_state

ASSUME SharedAssumption ==
    /\ Stream = {Shared}
    /\ MaxRow \in Nat
    /\ NotRead \notin Nat

VARIABLES
    newest,     \* the source has the rows 1 .. newest
    table,      \* the rows in the destination table
    cursor,     \* the committed cursor_value; 0 for initial_value or none
    ordered,    \* incremental.ordered
    prior,      \* the cursor each run read in stage LOAD STATE
    phase,      \* where the run's load is
    sees,       \* the rows the run's query sees are 1 .. sees
    unread,     \* those of them above its start value and not yielded yet
    observed    \* Cursor.observed_max; 0 when nothing has been observed

leaseVars == vars
loadVars == <<phase, sees, unread, observed>>
sharedVars == <<leaseVars, newest, table, cursor, ordered, prior, loadVars>>

\* max(value, floor), with 0 for an absent one.
FloorCursor(value, floor) == IF value >= floor THEN value ELSE floor

\* What a mid-stream flush of run r persists.
FlushCursor(r) ==
    FloorCursor(IF ordered THEN observed[r] ELSE prior[r], prior[r])

\* What its final commit persists.
FinalCursor(r) == FloorCursor(observed[r], prior[r])
-----------------------------------------------------------------------------
SharedInit ==
    /\ Init
    /\ newest = 0
    /\ table = {}
    /\ cursor = 0
    /\ ordered \in BOOLEAN
    /\ prior = [r \in Run |-> NotRead]
    /\ phase = [r \in Run |-> "none"]
    /\ sees = [r \in Run |-> 0]
    /\ unread = [r \in Run |-> {}]
    /\ observed = [r \in Run |-> 0]

\* The source gets a row.
Arrive ==
    /\ newest < MaxRow
    /\ newest' = newest + 1
    /\ UNCHANGED <<leaseVars, table, cursor, ordered, prior, loadVars>>

\* read_state: the stage before the leases.
ReadState(r) ==
    /\ pc[r] = "new" /\ prior[r] = NotRead
    /\ prior' = [prior EXCEPT ![r] = cursor]
    /\ UNCHANGED <<leaseVars, newest, table, cursor, ordered, loadVars>>

\* The leases are looked at only then, and acquired.
Lease(r) ==
    /\ prior[r] # NotRead
    /\ \/ \E streams \in Selections : ReadLeases(r, streams)
       \/ AcquireAll(r)
    /\ UNCHANGED <<newest, table, cursor, ordered, prior, loadVars>>

\* The stream starts from the cursor the run read.
BeginStream(r) ==
    /\ StartStream(r, Shared)
    /\ phase' = [phase EXCEPT ![r] = "pulling"]
    /\ sees' = [sees EXCEPT ![r] = newest]
    /\ unread' = [unread EXCEPT ![r] = {x \in 1 .. newest : x > prior[r]}]
    /\ observed' = [observed EXCEPT ![r] = 0]
    /\ UNCHANGED <<newest, table, cursor, ordered, prior>>

\* A batch is yielded, observed and written; then the heart beats.
WriteBatch(r, batch) ==
    /\ phase[r] = "pulling"
    /\ batch # {}
    /\ ordered => \A x \in batch, y \in unread[r] \ batch : x < y
    /\ unread' = [unread EXCEPT ![r] = @ \ batch]
    /\ \E top \in batch :
           /\ \A x \in batch : x <= top
           /\ observed' = [observed EXCEPT ![r] = IF top > @ THEN top ELSE @]
    /\ table' = table \cup batch
    /\ phase' = [phase EXCEPT ![r] = "written"]
    /\ Batch(r)
    /\ UNCHANGED <<newest, cursor, ordered, prior, sees>>

\* Mutant of FlushState: incremental.ordered is not consulted.
FlushPartial(r) ==
    /\ phase[r] = "written"
    /\ phase' = [phase EXCEPT ![r] = "pulling"]
    /\ cursor' \in {cursor, FinalCursor(r)}
    /\ UNCHANGED <<leaseVars, newest, table, ordered, prior, sees, unread,
                   observed>>

\* _maybe_flush_state: commit_state overwrites the row, or the flush is not
\* due yet.
FlushState(r) ==
    /\ phase[r] = "written"
    /\ phase' = [phase EXCEPT ![r] = "pulling"]
    /\ cursor' \in {cursor, FlushCursor(r)}
    /\ UNCHANGED <<leaseVars, newest, table, ordered, prior, sees, unread,
                   observed>>

\* The load of run r is over.
DropLoad(r) ==
    /\ phase' = [phase EXCEPT ![r] = "none"]
    /\ sees' = [sees EXCEPT ![r] = 0]
    /\ unread' = [unread EXCEPT ![r] = {}]
    /\ observed' = [observed EXCEPT ![r] = 0]

\* The generator is exhausted: the final commit, and the stream is done.
FinishStream(r) ==
    /\ phase[r] = "pulling" /\ unread[r] = {}
    /\ cursor' = FinalCursor(r)
    /\ EndStream(r, Shared, "done")
    /\ DropLoad(r)
    /\ UNCHANGED <<newest, table, ordered, prior>>

\* An exception: what has landed and what was flushed stays.
FailStream(r) ==
    /\ EndStream(r, Shared, "failed")
    /\ DropLoad(r)
    /\ UNCHANGED <<newest, table, cursor, ordered, prior>>

\* The run releases its leases, is interrupted or is killed.
Stop(r) ==
    /\ \/ AcquireLost(r) \/ ReleaseAll(r) \/ ReleaseFails(r)
       \/ Interrupt(r) \/ Crash(r)
    /\ DropLoad(r)
    /\ UNCHANGED <<newest, table, cursor, ordered, prior>>

\* `dtex state set`, with a value "you already know is correct": what lies
\* below it is loaded.  It takes no lease, whatever builds are under way.
SetState(value) ==
    /\ 1 .. value \subseteq table
    /\ cursor' = value
    /\ UNCHANGED <<leaseVars, newest, table, ordered, prior, loadVars>>

TimePasses ==
    /\ Tick
    /\ UNCHANGED <<newest, table, cursor, ordered, prior, loadVars>>

SharedNext ==
    \/ Arrive
    \/ \E r \in Run :
          \/ ReadState(r)
          \/ Lease(r)
          \/ BeginStream(r)
          \/ \E batch \in SUBSET unread[r] : WriteBatch(r, batch)
          \/ FlushState(r)
          \/ FinishStream(r)
          \/ FailStream(r)
          \/ Stop(r)
    \/ \E value \in 0 .. newest : SetState(value)
    \/ TimePasses

SharedSpec == SharedInit /\ [][SharedNext]_sharedVars
-----------------------------------------------------------------------------
SharedTypeOK ==
    /\ TypeOK
    /\ newest \in 0 .. MaxRow
    /\ table \subseteq 1 .. newest
    /\ cursor \in 0 .. newest
    /\ ordered \in BOOLEAN
    /\ prior \in [Run -> (0 .. newest) \cup {NotRead}]
    /\ phase \in [Run -> {"none", "pulling", "written"}]
    /\ sees \in [Run -> 0 .. newest]
    /\ unread \in [Run -> SUBSET (1 .. newest)]
    /\ observed \in [Run -> 0 .. newest]

\* Whatever builds do at the same time, also when a stale lease was taken
\* over, when a beat or a release came late, and when one build commits what
\* it derived from a cursor another build, or an operator, has replaced: no row
\* is stepped over
\* (docs/05 section 5.3: "no silent data loss").
NothingSkipped == \A x \in 1 .. newest : x \in table \/ x > cursor

\* The loads follow the lease protocol: no stream is executed that its run
\* has not leased, and everything the lease rows do is a step of Leases.
FollowsLeases == Spec
=============================================================================
