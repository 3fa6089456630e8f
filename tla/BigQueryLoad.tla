---------------------------- MODULE BigQueryLoad ----------------------------
(***************************************************************************)
(* One stream's batches written to one BigQuery table, run after run:      *)
(* dtex/destinations/bigquery/destination.py:write_batch.  A batch is      *)
(* uploaded to GCS as a Parquet object, a LOAD job appends it to the table *)
(* (append, replace) or to a staging table of its own (merge), from which  *)
(* a MERGE job upserts it; a `replace` run empties the table before its    *)
(* first batch.  Every job is submitted and awaited under                  *)
(* run_with_retries, which submits a NEW job after a transient error: the  *)
(* request may have been lost, or the job may still run, later, although   *)
(* nobody waits for it.  The process may die at any point, and the next    *)
(* run may find jobs of this one still queued.                             *)
(*                                                                         *)
(* A job takes effect atomically, as BigQuery documents for LOAD and DML.  *)
(***************************************************************************)
EXTENDS Naturals, FiniteSets, Sequences

CONSTANTS
    Key,            \* values of the primary key
    Payload,        \* batches the engine may hand over: sequences of keys
    MaxAttempts,    \* retry_max_attempts
    MaxBatch,       \* bound: batches in a behaviour
    MaxRun,         \* bound: runs in a behaviour
    MaxFault,       \* bound: failures of the network and the services
    None            \* no job awaited

ASSUME LoadAssumption ==
    /\ Payload \subseteq Seq(Key)
    /\ MaxAttempts \in Nat \ {0}
    /\ MaxBatch \in Nat /\ MaxRun \in Nat /\ MaxFault \in Nat

\* The n-th batch's record at position i, and a copy of it in a table, by the
\* attempt whose LOAD job wrote the copy.
Row == [key : Key, batch : Nat, pos : Nat]
Copy == [row : Row, by : Nat]
Job == [kind : {"truncate", "load", "merge"}, batch : Nat, try : Nat]

ASSUME NoneAssumption == None \notin Job

VARIABLES
    disposition,    \* the stream's write_disposition
    target,         \* copies in the stream's table
    stagings,       \* batches whose staging table exists
    staged,         \* copies in the staging tables
    blobs,          \* batches whose Parquet object is in GCS
    jobs,           \* jobs BigQuery has accepted and not run yet
    pc,             \* where write_batch is
    batch,          \* the number of the batch being written, or written last
    sent,           \* every row handed to write_batch
    job,            \* the job the client waits for
    outcome,        \* how that job ended
    attempt,        \* attempts run_with_retries has made
    truncated,      \* the table is in conn.replace_truncated
    run,            \* number of this run
    before,         \* the last batch of the runs before it
    acked,          \* rows of the batches write_batch has returned for
    lost,           \* jobs the client stopped waiting for
    straggled,      \* a MERGE was queued while its staging table had survived
                    \* its write_batch
    faults          \* the budget used so far (MaxFault)

service == <<target, stagings, staged, blobs, jobs>>
client == <<pc, batch, sent, job, outcome, attempt, truncated>>
runVars == <<run, before>>
vars == <<disposition, service, client, runVars, acked, lost, straggled,
          faults>>

Awaiting == {"truncate", "load", "merge"}
Dropping == {"drop", "drop_failed"}
Writing == {"upload"} \cup Awaiting \cup Dropping

Rows(n) == {r \in sent : r.batch = n}

\* Mutant of Deduped: the engine does not collapse duplicate keys.
AsYielded(rows) == rows

\* _dedupe_merge_batch: the last record per key, for a merge stream.
Deduped(rows) ==
    IF disposition # "merge" THEN rows
    ELSE {r \in rows : \A q \in rows : q.key = r.key => q.pos <= r.pos}

\* What batch n's Parquet object holds.
Parquet(n) == Deduped(Rows(n))

\* merge_sql's QUALIFY ROW_NUMBER() OVER (PARTITION BY pk ...) = 1: one copy
\* per key; the copies of one batch tie, so it may be any.
OnePerKey(copies) ==
    {some \in SUBSET copies :
        /\ \A x, y \in some : x.row.key = y.row.key => x = y
        /\ \A x \in copies : \E y \in some : x.row.key = y.row.key}

\* merge_sql: WHEN MATCHED THEN UPDATE, WHEN NOT MATCHED THEN INSERT.
Merged(copies, new) ==
    {x \in copies : \A y \in new : y.row.key # x.row.key}
    \cup {[row |-> p[2].row, by |-> p[1].by] :
            p \in {q \in copies \X new : q[1].row.key = q[2].row.key}}
    \cup {y \in new : \A x \in copies : x.row.key # y.row.key}
-----------------------------------------------------------------------------
Init ==
    /\ disposition \in {"append", "merge", "replace"}
    /\ target = {} /\ stagings = {} /\ staged = {} /\ blobs = {} /\ jobs = {}
    /\ pc = "idle"
    /\ batch = 0
    /\ sent = {}
    /\ job = None
    /\ outcome = "none"
    /\ attempt = 0
    /\ truncated = FALSE
    /\ run = 1
    /\ before = 0
    /\ acked = {}
    /\ lost = {}
    /\ straggled = FALSE
    /\ faults = 0

Fault == faults < MaxFault /\ faults' = faults + 1

\* Mutant of Return: the table is not added to replace_truncated.
ReturnForgetful ==
    /\ pc' = "idle"
    /\ acked' = acked \cup Parquet(batch)
    /\ UNCHANGED truncated

\* write_batch returns.
Return ==
    /\ pc' = "idle"
    /\ acked' = acked \cup Parquet(batch)
    /\ truncated' = (truncated \/ disposition = "replace")

\* write_batch is called with a batch; an empty one only empties a `replace`
\* table, once per run.
WriteBatch(p) ==
    /\ pc = "idle"
    /\ batch < MaxBatch
    /\ batch' = batch + 1
    /\ sent' = sent \cup {[key |-> p[i], batch |-> batch', pos |-> i] :
                            i \in DOMAIN p}
    /\ pc' = IF disposition = "replace" /\ ~truncated THEN "truncate"
             ELSE IF p = <<>> THEN "idle" ELSE "upload"
    /\ UNCHANGED <<disposition, service, job, outcome, attempt, truncated,
                   runVars, acked, lost, faults>>

\* _ensure_load_target for the staging table, then _upload_blob; either may
\* fail, and the staging table of a failed one stays.
Upload ==
    LET created == IF disposition = "merge" THEN stagings \cup {batch}
                                            ELSE stagings
    IN
    /\ pc = "upload"
    /\ \/ /\ pc' = "load"
          /\ stagings' = created
          /\ blobs' = blobs \cup {batch}
          /\ UNCHANGED faults
       \/ /\ Fault
          /\ pc' = "failed"
          /\ stagings' \in {stagings, created}
          /\ UNCHANGED blobs
    /\ UNCHANGED <<disposition, target, staged, jobs, batch, sent, job,
                   outcome, attempt, truncated, runVars, acked, lost>>

ThisJob == [kind |-> pc, batch |-> batch, try |-> attempt + 1]

\* Mutant of Submit: a second attempt does not wait for the first to fail.
SubmitHedged ==
    /\ pc \in Awaiting /\ attempt < MaxAttempts
    /\ job' = ThisJob
    /\ jobs' = jobs \cup {ThisJob}
    /\ outcome' = "none"
    /\ attempt' = attempt + 1
    /\ UNCHANGED <<disposition, target, stagings, staged, blobs, pc, batch,
                   sent, truncated, runVars, acked, lost, faults>>

\* load_table_from_uri, or query: the job is accepted and awaited.
Submit ==
    /\ pc \in Awaiting /\ job = None
    /\ job' = ThisJob
    /\ jobs' = jobs \cup {ThisJob}
    /\ outcome' = "none"
    /\ attempt' = attempt + 1
    /\ UNCHANGED <<disposition, target, stagings, staged, blobs, pc, batch,
                   sent, truncated, runVars, acked, lost, faults>>

\* The exception leaves write_batch; only a failed MERGE drops its staging
\* table on the way out.
Raise ==
    /\ pc' = IF pc = "merge" THEN "drop_failed" ELSE "failed"
    /\ attempt' = 0

\* run_with_retries after a transient error of its `tries`-th attempt.
RetryOrRaise(tries) ==
    /\ job' = None
    /\ \/ tries < MaxAttempts /\ attempt' = tries /\ pc' = pc
       \/ tries >= MaxAttempts /\ Raise

\* The request fails on the network, before or after BigQuery accepted it.
RequestFails ==
    /\ pc \in Awaiting /\ job = None
    /\ Fault
    /\ \/ UNCHANGED <<jobs, lost>>
       \/ jobs' = jobs \cup {ThisJob} /\ lost' = lost \cup {ThisJob}
    /\ RetryOrRaise(attempt + 1)
    /\ UNCHANGED <<disposition, target, stagings, staged, blobs, batch, sent,
                   outcome, truncated, runVars, acked>>

\* Waiting fails on the network: the job may have run, or may still run.
PollFails ==
    /\ job # None
    /\ Fault
    /\ lost' = lost \cup {job}
    /\ RetryOrRaise(attempt)
    /\ UNCHANGED <<disposition, service, batch, sent, outcome, truncated,
                   runVars, acked>>

\* job_timeout_seconds pass: the TimeoutError is not retried.
PollTimesOut ==
    /\ job # None /\ outcome = "none"
    /\ Fault
    /\ lost' = lost \cup {job}
    /\ job' = None
    /\ Raise
    /\ UNCHANGED <<disposition, service, batch, sent, outcome, truncated,
                   runVars, acked>>

\* Mutant of JobFailed: a failed job is polled for ever.
JobFailedUnseen ==
    /\ job # None /\ outcome = "error"
    /\ UNCHANGED vars

\* The job has ended in an error: a transient one is retried, others are not.
JobFailed ==
    /\ job # None /\ outcome = "error"
    /\ \/ RetryOrRaise(attempt)
       \/ job' = None /\ Raise
    /\ UNCHANGED <<disposition, service, batch, sent, outcome, truncated,
                   runVars, acked, lost, faults>>

\* Mutant of Succeeded: the job is submitted and its result not awaited.
SucceededUnawaited(kind) ==
    /\ pc = kind
    /\ job # None
    /\ job' = None
    /\ attempt' = 0
    /\ UNCHANGED <<disposition, target, stagings, staged, jobs, batch, sent,
                   outcome, runVars, lost>>

\* job.result() returns.
Succeeded(kind) ==
    /\ pc = kind
    /\ job # None /\ outcome = "done"
    /\ job' = None
    /\ attempt' = 0
    /\ UNCHANGED <<disposition, target, stagings, staged, jobs, batch, sent,
                   outcome, runVars, lost>>

TruncateDone ==
    /\ Succeeded("truncate")
    /\ IF Rows(batch) = {} THEN Return
       ELSE pc' = "upload" /\ UNCHANGED <<acked, truncated>>
    /\ UNCHANGED <<blobs, faults>>

\* The staged object is deleted; a failure to delete it is only logged.
LoadDone ==
    /\ Succeeded("load")
    /\ \/ blobs' = blobs \ {batch} /\ UNCHANGED faults
       \/ Fault /\ UNCHANGED blobs
    /\ IF disposition = "merge" THEN pc' = "merge" /\ UNCHANGED <<acked, truncated>>
       ELSE Return

MergeDone ==
    /\ Succeeded("merge")
    /\ pc' = "drop"
    /\ UNCHANGED <<blobs, acked, truncated, faults>>

DropTable(n) ==
    /\ stagings' = stagings \ {n}
    /\ staged' = {x \in staged : x.row.batch # n}

\* The `finally` of _merge_via_staging; a failure to drop is only logged.
DropStaging ==
    /\ pc \in Dropping
    /\ \/ DropTable(batch) /\ UNCHANGED faults
       \/ Fault /\ UNCHANGED <<stagings, staged>>
    /\ IF pc = "drop" THEN Return
       ELSE pc' = "failed" /\ UNCHANGED <<acked, truncated>>
    /\ UNCHANGED <<disposition, target, blobs, jobs, batch, sent, job, outcome,
                   attempt, runVars, lost>>
-----------------------------------------------------------------------------
\* BigQuery runs an accepted job.  A LOAD whose object is gone fails, and so
\* does a MERGE whose staging table is gone; a LOAD creates a missing table.
Load(j) ==
    LET copies == {[row |-> r, by |-> j.try] : r \in Parquet(j.batch)} IN
    /\ j.batch \in blobs
    /\ IF disposition = "merge"
       THEN /\ stagings' = stagings \cup {j.batch}
            /\ staged' = staged \cup copies
            /\ UNCHANGED target
       ELSE target' = target \cup copies /\ UNCHANGED <<stagings, staged>>

Merge(j) ==
    /\ j.batch \in stagings
    /\ \E new \in OnePerKey({x \in staged : x.row.batch = j.batch}) :
            target' = Merged(target, new)
    /\ UNCHANGED <<stagings, staged>>

Truncate == target' = {} /\ UNCHANGED <<stagings, staged>>

RunJob(j) ==
    /\ jobs' = jobs \ {j}
    /\ \/ j.kind = "load" /\ Load(j)
       \/ j.kind = "merge" /\ Merge(j)
       \/ j.kind = "truncate" /\ Truncate
    /\ outcome' = IF j = job THEN "done" ELSE outcome
    /\ UNCHANGED <<disposition, blobs, pc, batch, sent, job, attempt,
                   truncated, runVars, acked, lost, faults>>

Gone(j) == \/ j.kind = "load" /\ j.batch \notin blobs
           \/ j.kind = "merge" /\ j.batch \notin stagings

\* A job fails, having changed nothing.
FailJob(j) ==
    /\ jobs' = jobs \ {j}
    /\ \/ Gone(j) /\ UNCHANGED faults
       \/ ~Gone(j) /\ Fault
    /\ outcome' = IF j = job THEN "error" ELSE outcome
    /\ UNCHANGED <<disposition, target, stagings, staged, blobs, pc, batch,
                   sent, job, attempt, truncated, runVars, acked, lost>>

\* A staging table carries an expiration of _STAGING_TABLE_TTL_HOURS.
Expire(n) ==
    /\ ~(n = batch /\ pc \in Writing)
    /\ DropTable(n)
    /\ UNCHANGED <<disposition, target, blobs, jobs, client, runVars, acked,
                   lost, faults>>
-----------------------------------------------------------------------------
\* The stream ends: the connector's generator has no more batches, or never
\* had one, in which case write_batch has not been called at all.
EndRun ==
    /\ pc = "idle"
    /\ pc' = "ended"
    /\ UNCHANGED <<disposition, service, batch, sent, job, outcome, attempt,
                   truncated, runVars, acked, lost, faults>>

\* The process dies.
Crash ==
    /\ pc \in Writing
    /\ Fault
    /\ pc' = "dead"
    /\ job' = None
    /\ attempt' = 0
    /\ lost' = IF job = None THEN lost ELSE lost \cup {job}
    /\ UNCHANGED <<disposition, service, batch, sent, outcome, truncated,
                   runVars, acked>>

\* The next run opens a connection of its own.
NextRun ==
    /\ pc \in {"ended", "failed", "dead"}
    /\ run < MaxRun
    /\ run' = run + 1
    /\ before' = batch
    /\ pc' = "idle"
    /\ truncated' = FALSE
    /\ UNCHANGED <<disposition, service, batch, sent, job, outcome, attempt,
                   acked, lost, faults>>

Attempt == Submit \/ RequestFails \/ PollFails \/ PollTimesOut \/ JobFailed

ClientStep ==
    \/ Upload
    \/ Attempt
    \/ TruncateDone
    \/ LoadDone
    \/ MergeDone
    \/ DropStaging

ServiceStep ==
    \/ \E j \in jobs : RunJob(j) \/ FailJob(j)
    \/ \E n \in stagings : Expire(n)

RunStep == (\E p \in Payload : WriteBatch(p)) \/ EndRun \/ Crash \/ NextRun

Straggler == \E j \in jobs : /\ j.kind = "merge" /\ j.batch \in stagings
                             /\ ~(j.batch = batch /\ pc \in Writing)

Next ==
    /\ ClientStep \/ ServiceStep \/ RunStep
    /\ straggled' = (straggled \/ Straggler')

Spec == Init /\ [][Next]_vars

\* The client's thread runs, and BigQuery runs the job a client waits for.
Fairness ==
    /\ WF_vars(ClientStep /\ Next)
    /\ WF_vars((\E j \in jobs : j = job /\ (RunJob(j) \/ FailJob(j))) /\ Next)

FairSpec == Spec /\ Fairness
-----------------------------------------------------------------------------
LoadTypeOK ==
    /\ disposition \in {"append", "merge", "replace"}
    /\ target \subseteq Copy /\ staged \subseteq Copy /\ sent \subseteq Row
    /\ stagings \subseteq Nat /\ blobs \subseteq Nat
    /\ jobs \subseteq Job /\ lost \subseteq Job
    /\ pc \in Writing \cup {"idle", "ended", "failed", "dead"}
    /\ batch \in Nat /\ run \in Nat /\ before \in Nat
    /\ job \in Job \cup {None}
    /\ outcome \in {"none", "done", "error"}
    /\ attempt \in 0 .. MaxAttempts
    /\ acked \subseteq Row
    /\ truncated \in BOOLEAN /\ straggled \in BOOLEAN
    /\ faults \in 0 .. MaxFault

\* A merge table never holds two rows with one key, however often a LOAD or a
\* MERGE was submitted again and whichever of the jobs run late.
OneRowPerKey ==
    disposition = "merge" =>
        \A x, y \in target : x.row.key = y.row.key => x = y

\* What write_batch has returned for stays: an appended row is in the table,
\* and a merged key has the acknowledged record or one of a later batch --
\* the latter unless a MERGE was still queued when its staging table survived
\* the write_batch that submitted it (a kill, or a drop that failed).
AckedRowsStay ==
    /\ disposition = "append" =>
            \A r \in acked : \E x \in target : x.row = r
    /\ disposition = "merge" /\ ~straggled =>
            \A r \in acked : \E x \in target :
                /\ x.row.key = r.key
                /\ x.row.batch > r.batch \/ x.row = r

\* Outside a merge, a row is in the table more than once only by the LOAD
\* jobs of its batch that the client stopped waiting for.
CopiesComeFromLostJobs ==
    disposition # "merge" =>
        \A x \in target :
            Cardinality({y \in target : y.row = x.row}) <=
                1 + Cardinality({j \in lost : /\ j.kind = "load"
                                             /\ j.batch = x.row.batch})

\* No row is there more often than the service's lost answers account for.
NoSpareCopies == OneRowPerKey /\ CopiesComeFromLostJobs

\* When no job was left behind, a `replace` run that wrote at least one batch
\* and ended well leaves exactly its own rows, each once.
ReplaceIsSnapshot ==
    disposition = "replace" /\ pc = "ended" /\ lost = {} /\ batch > before =>
        /\ {x.row : x \in target} = {r \in sent : r.batch > before}
        /\ \A x, y \in target : x.row = y.row => x = y

Promise == INSTANCE WholeBatches WITH
    offered <- sent, table <- {x.row : x \in target}

\* Every change of the table is a whole batch landing, or the emptying of a
\* `replace` table.
ImplementsWholeBatches == Promise!Spec

\* write_batch returns or raises.
WriteEnds == pc \in Writing ~> pc \notin Writing
=============================================================================
