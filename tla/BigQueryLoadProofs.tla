-------------------------- MODULE BigQueryLoadProofs --------------------------
(***************************************************************************)
(* Proofs about BigQueryLoad for any keys, batches, attempts and failures: *)
(* a merge table keeps one row per key, every change of the table is a     *)
(* whole batch landing, what write_batch has returned for stays, a         *)
(* `replace` run leaves its own rows, and a row is there more than once    *)
(* only by jobs the client stopped waiting for.                            *)
(*                                                                         *)
(* OneRowPerKey is inductive as it stands.  The other two rest on what a   *)
(* staging table holds: Provenance says that the copies in it are copies   *)
(* of its batch's Parquet object, all of it or nothing.                    *)
(***************************************************************************)
EXTENDS BigQueryLoad, TLAPS, FiniteSetTheorems

\* A step that is not straggled's.
Step == ClientStep \/ ServiceStep \/ RunStep

UniqueKeys(copies) == \A x, y \in copies : x.row.key = y.row.key => x = y

\* A MERGE keeps a table free of duplicate keys if its source is.
LEMMA MergedUnique ==
    ASSUME NEW copies, NEW new, UniqueKeys(copies), UniqueKeys(new)
    PROVE  UniqueKeys(Merged(copies, new))
  <1> DEFINE kept == {x \in copies : \A y \in new : y.row.key # x.row.key}
             pairs == {q \in copies \X new : q[1].row.key = q[2].row.key}
             updated == {[row |-> p[2].row, by |-> p[1].by] : p \in pairs}
             inserted == {y \in new : \A x \in copies : x.row.key # y.row.key}
  <1>1. Merged(copies, new) = kept \cup updated \cup inserted
    BY DEF Merged
  <1>2. \A u \in updated : \E x \in copies, y \in new :
            x.row.key = y.row.key /\ u = [row |-> y.row, by |-> x.by]
    OBVIOUS
  <1>3. ASSUME NEW u \in updated, NEW v \in updated, u.row.key = v.row.key
        PROVE  u = v
    BY <1>2, <1>3 DEF UniqueKeys
  <1>4. ASSUME NEW u \in updated, NEW v \in kept \cup inserted
        PROVE  u.row.key # v.row.key
    BY <1>2
  <1>5. ASSUME NEW u \in kept \cup inserted, NEW v \in kept \cup inserted,
               u.row.key = v.row.key
        PROVE  u = v
    BY <1>5 DEF UniqueKeys
  <1> QED
    BY <1>1, <1>3, <1>4, <1>5 DEF UniqueKeys

\* Only a job that BigQuery runs changes the table.
LEMMA OnlyJobsWrite ==
    ASSUME Step, \A j \in jobs : ~RunJob(j)
    PROVE  target' = target
  BY DEF Step, ClientStep, ServiceStep, RunStep, Attempt, Upload, Submit,
         RequestFails, PollFails, PollTimesOut, JobFailed, TruncateDone,
         LoadDone, MergeDone, DropStaging, Succeeded, FailJob, Expire,
         WriteBatch, EndRun, Crash, NextRun, service

LEMMA DispositionFixed == ASSUME Step PROVE disposition' = disposition
  BY DEF Step, ClientStep, ServiceStep, RunStep, Attempt, Upload, Submit,
         RequestFails, PollFails, PollTimesOut, JobFailed, TruncateDone,
         LoadDone, MergeDone, DropStaging, Succeeded, FailJob, Expire,
         WriteBatch, EndRun, Crash, NextRun, RunJob

\* A merge table never holds two rows with one key.
THEOREM OneRowPerKeyAlways == Spec => []OneRowPerKey
  <1>1. Init => OneRowPerKey
    BY DEF Init, OneRowPerKey
  <1>2. OneRowPerKey /\ [Next]_vars => OneRowPerKey'
    <2> SUFFICES ASSUME OneRowPerKey, [Next]_vars, disposition' = "merge"
                 PROVE  UniqueKeys(target')
      BY DEF OneRowPerKey, UniqueKeys
    <2>1. CASE UNCHANGED vars
      BY <2>1 DEF vars, service, OneRowPerKey, UniqueKeys
    <2>2. CASE Next
      <3>1. Step
        BY <2>2 DEF Next, Step
      <3>2. UniqueKeys(target)
        BY <3>1, DispositionFixed DEF OneRowPerKey, UniqueKeys
      <3>3. ASSUME NEW j \in jobs, RunJob(j) PROVE UniqueKeys(target')
        <4>1. CASE Load(j)
          BY <4>1, <3>1, <3>2, DispositionFixed DEF Load
        <4>2. CASE Merge(j)
          <5>1. PICK new : UniqueKeys(new) /\ target' = Merged(target, new)
            BY <4>2 DEF Merge, OnePerKey, UniqueKeys
          <5> QED
            BY <5>1, <3>2, MergedUnique
        <4>3. CASE Truncate
          BY <4>3 DEF Truncate, UniqueKeys
        <4> QED
          BY <3>3, <4>1, <4>2, <4>3 DEF RunJob
      <3> QED
        BY <3>1, <3>2, <3>3, OnlyJobsWrite
    <2> QED
      BY <2>1, <2>2
  <1> QED
    BY <1>1, <1>2, PTL DEF Spec
-----------------------------------------------------------------------------
\* Where the client is, and the job it waits for.
AttemptInv ==
    /\ pc \notin Awaiting => job = None /\ attempt = 0
    /\ job = None => attempt < MaxAttempts
    /\ job # None => job.batch = batch /\ job.kind = pc

TypeInv == LoadTypeOK /\ AttemptInv

LEMMA Bounds == MaxAttempts \in Nat \ {0} /\ MaxFault \in Nat
  BY LoadAssumption DEF LoadAssumption

LEMMA TypeInit == Init => TypeInv
  <1>1. Init => LoadTypeOK
    <2>1. Init => truncated \in BOOLEAN /\ straggled \in BOOLEAN
      BY DEF Init
    <2>2. Init => attempt \in 0 .. MaxAttempts /\ faults \in 0 .. MaxFault
      BY Bounds DEF Init
    <2> QED
      BY <2>1, <2>2 DEF Init, LoadTypeOK
  <1>2. Init => AttemptInv
    BY Bounds DEF Init, AttemptInv, Awaiting
  <1> QED
    BY <1>1, <1>2 DEF TypeInv

LEMMA CopiesOfRows ==
    ASSUME LoadTypeOK, NEW n
    PROVE  Parquet(n) \subseteq Row
  BY DEF LoadTypeOK, Parquet, Deduped, Rows

LEMMA MergedCopies ==
    ASSUME NEW copies \in SUBSET Copy, NEW new \in SUBSET Copy
    PROVE  Merged(copies, new) \subseteq Copy
  BY DEF Merged, Copy

\* Steps of the client that wait for a job, retry or give up.
LEMMA AttemptType ==
    ASSUME TypeInv, Attempt, straggled' \in BOOLEAN
    PROVE  TypeInv'
  <1> USE Bounds, NoneAssumption
      DEF TypeInv, LoadTypeOK, AttemptInv, Awaiting, Writing, Dropping, runVars
  <1>1. pc \in Awaiting => ThisJob \in Job
    BY DEF ThisJob, Job
  <1>2. CASE Submit
    BY <1>1, <1>2 DEF Submit, ThisJob
  <1>3. CASE RequestFails
    BY <1>1, <1>3 DEF RequestFails, RetryOrRaise, Raise, Fault
  <1>4. CASE PollFails
    BY <1>4 DEF PollFails, RetryOrRaise, Raise, Fault, service
  <1>5. CASE PollTimesOut
    BY <1>5 DEF PollTimesOut, Raise, Fault, service
  <1>6. CASE JobFailed
    BY <1>6 DEF JobFailed, RetryOrRaise, Raise, service
  <1> QED
    BY <1>2, <1>3, <1>4, <1>5, <1>6 DEF Attempt

\* The other steps of the client.
LEMMA ClientType ==
    ASSUME TypeInv, ClientStep, straggled' \in BOOLEAN
    PROVE  TypeInv'
  <1> USE Bounds
      DEF TypeInv, LoadTypeOK, AttemptInv, Awaiting, Writing, Dropping, runVars
  <1>1. CASE Upload
    <2>1. stagings' \subseteq Nat /\ blobs' \subseteq Nat
      BY <1>1 DEF Upload
    <2>2. faults' \in 0 .. MaxFault
      BY <1>1 DEF Upload, Fault
    <2> QED
      BY <1>1, <2>1, <2>2 DEF Upload
  <1>2. Parquet(batch) \subseteq Row
    BY CopiesOfRows
  <1>3. CASE TruncateDone
    <2>1. truncated' \in BOOLEAN
      BY <1>3 DEF TruncateDone, Return
    <2> QED
      BY <1>2, <1>3, <2>1 DEF TruncateDone, Succeeded, Return
  <1>4. CASE LoadDone
    <2>1. truncated' \in BOOLEAN
      BY <1>4 DEF LoadDone, Return
    <2>2. faults' \in 0 .. MaxFault
      BY <1>4 DEF LoadDone, Fault
    <2>3. blobs' \subseteq Nat
      BY <1>4 DEF LoadDone
    <2> QED
      BY <1>2, <1>4, <2>1, <2>2, <2>3 DEF LoadDone, Succeeded, Return
  <1>5. CASE MergeDone
    BY <1>5 DEF MergeDone, Succeeded
  <1>6. CASE DropStaging
    <2>1. truncated' \in BOOLEAN
      BY <1>6 DEF DropStaging, Return
    <2>2. faults' \in 0 .. MaxFault
      BY <1>6 DEF DropStaging, Fault
    <2>3. stagings' \subseteq Nat /\ staged' \subseteq Copy
      BY <1>6 DEF DropStaging, DropTable
    <2> QED
      BY <1>2, <1>6, <2>1, <2>2, <2>3 DEF DropStaging, Return
  <1> QED
    BY <1>1, <1>3, <1>4, <1>5, <1>6, AttemptType DEF ClientStep

LEMMA ServiceType ==
    ASSUME TypeInv, ServiceStep, straggled' \in BOOLEAN
    PROVE  TypeInv'
  <1> USE Bounds
      DEF TypeInv, LoadTypeOK, AttemptInv, Awaiting, Writing, Dropping, runVars
  <1>1. ASSUME NEW j \in jobs, RunJob(j) PROVE TypeInv'
    <2>1. (target \cup staged)' \subseteq Copy /\ stagings' \subseteq Nat
      <3>1. CASE Load(j)
        <4>1. Parquet(j.batch) \subseteq Row /\ j \in Job
          BY CopiesOfRows
        <4>2. {[row |-> r, by |-> j.try] : r \in Parquet(j.batch)}
                \subseteq Copy
          BY <4>1 DEF Copy, Job
        <4> QED
          BY <3>1, <4>1, <4>2 DEF Load, Job
      <3>2. CASE Merge(j)
        <4>1. PICK new \in SUBSET Copy : target' = Merged(target, new)
          BY <3>2 DEF Merge, OnePerKey
        <4> QED
          BY <3>2, <4>1, MergedCopies DEF Merge
      <3>3. CASE Truncate
        BY <3>3 DEF Truncate
      <3> QED
        BY <1>1, <3>1, <3>2, <3>3 DEF RunJob
    <2> QED
      BY <1>1, <2>1 DEF RunJob
  <1>2. ASSUME NEW j \in jobs, FailJob(j) PROVE TypeInv'
    BY <1>2 DEF FailJob, Fault
  <1>3. ASSUME NEW n \in stagings, Expire(n) PROVE TypeInv'
    BY <1>3 DEF Expire, DropTable, client
  <1> QED
    BY <1>1, <1>2, <1>3 DEF ServiceStep

LEMMA RunType ==
    ASSUME TypeInv, RunStep, straggled' \in BOOLEAN
    PROVE  TypeInv'
  <1> USE Bounds
      DEF TypeInv, LoadTypeOK, AttemptInv, Awaiting, Writing, Dropping, runVars,
          service
  <1>1. ASSUME NEW p \in Payload, WriteBatch(p) PROVE TypeInv'
    <2>1. \A i \in DOMAIN p : i \in Nat /\ p[i] \in Key
      BY LoadAssumption DEF LoadAssumption
    <2>2. {[key |-> p[i], batch |-> batch', pos |-> i] : i \in DOMAIN p}
            \subseteq Row
      BY <1>1, <2>1 DEF WriteBatch, Row
    <2> QED
      BY <1>1, <2>2 DEF WriteBatch
  <1>2. CASE EndRun
    BY <1>2 DEF EndRun
  <1>3. CASE Crash
    BY <1>3 DEF Crash, Fault
  <1>4. CASE NextRun
    <2>1. truncated' \in BOOLEAN
      BY <1>4 DEF NextRun
    <2> QED
      BY <1>4, <2>1 DEF NextRun
  <1> QED
    BY <1>1, <1>2, <1>3, <1>4 DEF RunStep

LEMMA TypeStep == TypeInv /\ [Next]_vars => TypeInv'
  <1> SUFFICES ASSUME TypeInv, [Next]_vars PROVE TypeInv'
    OBVIOUS
  <1>1. CASE UNCHANGED vars
    BY <1>1 DEF TypeInv, LoadTypeOK, AttemptInv, vars, service, client, runVars
  <1>2. CASE Next
    <2>1. straggled' \in BOOLEAN
      BY <1>2 DEF Next
    <2> QED
      BY <1>2, <2>1, ClientType, ServiceType, RunType DEF Next
  <1> QED
    BY <1>1, <1>2

\* Every variable stays in its set, whatever the failures and the late jobs;
\* run_with_retries makes at most max_attempts attempts.
THEOREM LoadTyping == Spec => []LoadTypeOK
  BY TypeInit, TypeStep, PTL DEF Spec, TypeInv
-----------------------------------------------------------------------------
\* The rows of a batch are fixed when it is handed over.
SentInv == \A r \in sent : r.batch <= batch

\* A staging table holds copies of its batch's Parquet object, all of it or
\* nothing.
StagedInv ==
    \A x \in staged :
        /\ x.row \in Parquet(x.row.batch)
        /\ \A r \in Parquet(x.row.batch) : \E y \in staged : y.row = r

\* Tables are emptied for `replace` only, and merged into for `merge` only.
KindInv ==
    /\ pc = "truncate" => disposition = "replace"
    /\ pc \in {"merge"} \cup Dropping => disposition = "merge"
    /\ \A j \in jobs : /\ j.kind = "truncate" => disposition = "replace"
                       /\ j.kind = "merge" => disposition = "merge"

Provenance == SentInv /\ StagedInv /\ KindInv

LEMMA RowsOfBatch ==
    ASSUME NEW n, NEW r \in Parquet(n)
    PROVE  r \in sent /\ r.batch = n
  BY DEF Parquet, Deduped, Rows

\* One record per key in a Parquet object of a merge stream.
LEMMA ParquetUnique ==
    ASSUME LoadTypeOK, disposition = "merge", NEW n,
           NEW r \in Parquet(n), NEW q \in Parquet(n), r.key = q.key
    PROVE  r = q
  <1>1. r \in Row /\ q \in Row /\ r.batch = n /\ q.batch = n
    BY RowsOfBatch DEF LoadTypeOK
  <1>2. r.pos <= q.pos /\ q.pos <= r.pos
    BY DEF Parquet, Deduped
  <1> QED
    BY <1>1, <1>2 DEF Row

\* A step that hands over no batch leaves every Parquet object as it is.
LEMMA ParquetKept ==
    ASSUME sent' = sent, disposition' = disposition, NEW n
    PROVE  Parquet(n)' = Parquet(n)
  BY DEF Parquet, Deduped, Rows

\* A new batch leaves the earlier ones as they are.
LEMMA ParquetOfEarlier ==
    ASSUME TypeInv, SentInv, NEW p \in Payload, WriteBatch(p), NEW n \in Nat,
           n <= batch
    PROVE  Parquet(n)' = Parquet(n)
  <1>1. Rows(n)' = Rows(n)
    <2>1. batch \in Nat /\ batch' = batch + 1
      BY DEF WriteBatch, TypeInv, LoadTypeOK
    <2>2. \A r \in sent' : r \in sent \/ r.batch = batch + 1
      BY <2>1 DEF WriteBatch
    <2>3. sent \subseteq sent'
      BY DEF WriteBatch
    <2> QED
      BY <2>1, <2>2, <2>3 DEF Rows
  <1> QED
    BY <1>1 DEF Parquet, Deduped, WriteBatch

LEMMA SentStep ==
    ASSUME TypeInv, SentInv, Step
    PROVE  SentInv'
  <1>1. ASSUME NEW p \in Payload, WriteBatch(p) PROVE SentInv'
    BY <1>1 DEF WriteBatch, SentInv, TypeInv, LoadTypeOK, Row
  <1>2. CASE UNCHANGED <<sent, batch>>
    BY <1>2 DEF SentInv
  <1> QED
    BY <1>1, <1>2
       DEF Step, ClientStep, ServiceStep, RunStep, Attempt, Upload, Submit,
           RequestFails, PollFails, PollTimesOut, JobFailed, TruncateDone,
           LoadDone, MergeDone, DropStaging, Succeeded, FailJob, Expire,
           EndRun, Crash, NextRun, RunJob, client

LEMMA StagedStep ==
    ASSUME TypeInv, SentInv, StagedInv, Step
    PROVE  StagedInv'
  <1>1. ASSUME NEW p \in Payload, WriteBatch(p) PROVE StagedInv'
    <2>1. staged' = staged
      BY <1>1 DEF WriteBatch, service
    <2>2. ASSUME NEW x \in staged
          PROVE  Parquet(x.row.batch)' = Parquet(x.row.batch)
      <3>1. x.row \in sent /\ x.row.batch \in Nat
        BY RowsOfBatch DEF StagedInv, TypeInv, LoadTypeOK, Row
      <3>2. x.row.batch <= batch
        BY <3>1 DEF SentInv
      <3> QED
        BY <1>1, <3>1, <3>2, ParquetOfEarlier
    <2> QED
      BY <2>1, <2>2 DEF StagedInv
  <1>2. CASE UNCHANGED <<sent, disposition>>
    <2> DEFINE P(n) == Parquet(n)
    <2>1. \A n : Parquet(n)' = Parquet(n)
      BY <1>2, ParquetKept
    <2>2. CASE UNCHANGED staged
      BY <2>1, <2>2 DEF StagedInv
    <2>3. ASSUME NEW n, DropTable(n) PROVE StagedInv'
      <3>1. \A x \in staged' : x \in staged /\ x.row.batch # n
        BY <2>3 DEF DropTable
      <3>2. ASSUME NEW x \in staged', NEW r \in Parquet(x.row.batch)
            PROVE  \E y \in staged' : y.row = r
        <4>1. PICK y \in staged : y.row = r
          BY <3>1 DEF StagedInv
        <4>2. y.row.batch # n
          BY <3>1, <4>1, RowsOfBatch
        <4> QED
          BY <2>3, <4>1, <4>2 DEF DropTable
      <3> QED
        BY <2>1, <3>1, <3>2 DEF StagedInv
    <2>4. ASSUME NEW j \in jobs, Load(j) PROVE StagedInv'
      <3> DEFINE copies == {[row |-> r, by |-> j.try] : r \in Parquet(j.batch)}
      <3>1. CASE UNCHANGED staged
        BY <2>2, <3>1
      <3>2. CASE staged' = staged \cup copies
        <4>1. \A x \in copies : x.row \in Parquet(j.batch)
          OBVIOUS
        <4>2. \A x \in copies : x.row.batch = j.batch
          BY <4>1, RowsOfBatch
        <4>3. ASSUME NEW r \in Parquet(j.batch)
              PROVE  \E y \in copies : y.row = r
          <5>1. [row |-> r, by |-> j.try] \in copies
            OBVIOUS
          <5> QED
            BY <5>1
        <4> HIDE DEF copies
        <4>4. ASSUME NEW x \in copies
              PROVE  /\ x.row \in Parquet(x.row.batch)
                     /\ \A r \in Parquet(x.row.batch) :
                            \E y \in staged' : y.row = r
          BY <3>2, <4>1, <4>2, <4>3
        <4>5. ASSUME NEW x \in staged
              PROVE  /\ x.row \in Parquet(x.row.batch)
                     /\ \A r \in Parquet(x.row.batch) :
                            \E y \in staged' : y.row = r
          BY <3>2 DEF StagedInv
        <4> QED
          BY <2>1, <3>2, <4>4, <4>5 DEF StagedInv
      <3> QED
        BY <2>4, <3>1, <3>2 DEF Load
    <2>5. ASSUME NEW j \in jobs, RunJob(j) PROVE StagedInv'
      BY <2>2, <2>4, <2>5 DEF RunJob, Merge, Truncate
    <2> QED
      BY <2>2, <2>3, <2>5
         DEF Step, ClientStep, ServiceStep, RunStep, Attempt, Upload, Submit,
             RequestFails, PollFails, PollTimesOut, JobFailed, TruncateDone,
             LoadDone, MergeDone, DropStaging, Succeeded, FailJob, Expire,
             WriteBatch, EndRun, Crash, NextRun, service
  <1> QED
    BY <1>1, <1>2
       DEF Step, ClientStep, ServiceStep, RunStep, Attempt, Upload, Submit,
           RequestFails, PollFails, PollTimesOut, JobFailed, TruncateDone,
           LoadDone, MergeDone, DropStaging, Succeeded, FailJob, Expire,
           EndRun, Crash, NextRun, RunJob, client

LEMMA KindStep ==
    ASSUME TypeInv, KindInv, Step
    PROVE  KindInv'
  <1> USE DEF KindInv, TypeInv, AttemptInv, Awaiting, Dropping
  <1>1. CASE Attempt
    <2>1. CASE Submit
      BY <2>1 DEF Submit, ThisJob
    <2>2. CASE RequestFails
      BY <2>2 DEF RequestFails, RetryOrRaise, Raise, ThisJob
    <2>3. CASE PollFails \/ PollTimesOut \/ JobFailed
      BY <2>3 DEF PollFails, PollTimesOut, JobFailed, RetryOrRaise, Raise,
                  service
    <2> QED
      BY <1>1, <2>1, <2>2, <2>3 DEF Attempt
  <1>2. CASE Upload \/ TruncateDone \/ LoadDone \/ MergeDone \/ DropStaging
    BY <1>2 DEF Upload, TruncateDone, LoadDone, MergeDone, DropStaging,
                Succeeded, Return
  <1>3. CASE ServiceStep
    BY <1>3 DEF ServiceStep, RunJob, FailJob, Expire, client
  <1>4. ASSUME NEW p \in Payload, WriteBatch(p) PROVE KindInv'
    BY <1>4 DEF WriteBatch, service
  <1>5. CASE EndRun \/ Crash \/ NextRun
    BY <1>5 DEF EndRun, Crash, NextRun, service
  <1> QED
    BY <1>1, <1>2, <1>3, <1>4, <1>5 DEF Step, ClientStep, RunStep

\* TypeInv and Provenance together are inductive.
LEMMA ProvenanceInvariance ==
    Spec => [](TypeInv /\ Provenance)
  <1>1. Init => Provenance
    BY DEF Init, Provenance, SentInv, StagedInv, KindInv, Dropping
  <1>2. TypeInv /\ Provenance /\ [Next]_vars => Provenance'
    <2>1. ASSUME TypeInv, Provenance, UNCHANGED vars PROVE Provenance'
      <3>1. \A n : Parquet(n)' = Parquet(n)
        BY <2>1, ParquetKept DEF vars, client
      <3>2. StagedInv'
        BY <2>1, <3>1 DEF StagedInv, Provenance, vars, service
      <3>3. SentInv' /\ KindInv'
        BY <2>1 DEF Provenance, SentInv, KindInv, vars, service, client
      <3> QED
        BY <3>2, <3>3 DEF Provenance
    <2>2. ASSUME TypeInv, Provenance, Next PROVE Provenance'
      BY <2>2, SentStep, StagedStep, KindStep DEF Next, Step, Provenance
    <2> QED
      BY <2>1, <2>2
  <1> QED
    BY <1>1, <1>2, TypeInit, TypeStep, PTL DEF Spec
-----------------------------------------------------------------------------
RowsIn(copies) == {x.row : x \in copies}

\* Seen as a set of rows, a MERGE is an upsert.
LEMMA MergedRows ==
    ASSUME NEW copies, NEW new
    PROVE  RowsIn(Merged(copies, new)) = Promise!Upsert(RowsIn(copies), RowsIn(new))
  <1> DEFINE kept == {x \in copies : \A y \in new : y.row.key # x.row.key}
             pairs == {q \in copies \X new : q[1].row.key = q[2].row.key}
             updated == {[row |-> p[2].row, by |-> p[1].by] : p \in pairs}
             inserted == {y \in new : \A x \in copies : x.row.key # y.row.key}
  <1>1. Merged(copies, new) = kept \cup updated \cup inserted
    BY DEF Merged
  <1>2. RowsIn(kept) = {r \in RowsIn(copies) : \A q \in RowsIn(new) : q.key # r.key}
    BY DEF RowsIn
  <1>3. RowsIn(updated) \cup RowsIn(inserted) \subseteq RowsIn(new)
    BY DEF RowsIn
  <1>4. ASSUME NEW y \in new, y \notin inserted
        PROVE  y.row \in RowsIn(updated)
    <2>1. PICK x \in copies : x.row.key = y.row.key
      BY <1>4
    <2>2. <<x, y>> \in pairs
      BY <2>1
    <2>3. [row |-> y.row, by |-> x.by] \in updated
      BY <2>2
    <2>4. \E u \in updated : u.row = y.row
      BY <2>3
    <2> HIDE DEF updated
    <2> QED
      BY <2>4 DEF RowsIn
  <1>5. RowsIn(new) \subseteq RowsIn(updated) \cup RowsIn(inserted)
    BY <1>4 DEF RowsIn
  <1>6. RowsIn(kept \cup updated \cup inserted)
            = RowsIn(kept) \cup RowsIn(updated) \cup RowsIn(inserted)
    BY DEF RowsIn
  <1> HIDE DEF kept, updated, inserted
  <1> QED
    BY <1>1, <1>2, <1>3, <1>5, <1>6 DEF Promise!Upsert

\* The source of a MERGE is its batch's Parquet object, or nothing.
LEMMA MergeSource ==
    ASSUME LoadTypeOK, StagedInv, disposition = "merge", NEW n,
           NEW new \in OnePerKey({x \in staged : x.row.batch = n})
    PROVE  RowsIn(new) = Parquet(n) \/ new = {}
  <1>1. \A x \in new : x \in staged /\ x.row.batch = n
    BY DEF OnePerKey
  <1>2. RowsIn(new) \subseteq Parquet(n)
    BY <1>1 DEF StagedInv, RowsIn
  <1>3. ASSUME new # {}, NEW r \in Parquet(n) PROVE r \in RowsIn(new)
    <2>1. PICK x \in staged : x.row = r
      BY <1>1, <1>3 DEF StagedInv
    <2>2. x.row.batch = n
      BY <2>1, RowsOfBatch
    <2>3. PICK y \in new : x.row.key = y.row.key
      BY <2>2 DEF OnePerKey
    <2>4. y.row \in Parquet(n)
      BY <1>2 DEF RowsIn
    <2>5. y.row = r
      BY <2>1, <2>3, <2>4, ParquetUnique
    <2> QED
      BY <2>5 DEF RowsIn
  <1> QED
    BY <1>2, <1>3

\* A job that runs lands a whole batch, empties a `replace` table, or leaves
\* the table alone.
LEMMA JobKeepsPromise ==
    ASSUME TypeInv, Provenance, NEW j \in jobs, RunJob(j)
    PROVE  Promise!Next \/ UNCHANGED Promise!vars
  <1> DEFINE n == j.batch
  <1>1. UNCHANGED <<sent, disposition>>
    BY DEF RunJob
  <1>2. Promise!BatchOf(sent, n) = Rows(n)
    BY DEF Promise!BatchOf, Rows
  <1>3. ASSUME Parquet(n) # {},
               disposition = "merge" =>
                 RowsIn(target') = Promise!Upsert(RowsIn(target), Parquet(n)),
               disposition # "merge" =>
                 RowsIn(target') = RowsIn(target) \cup Parquet(n)
        PROVE  Promise!Next
    <2>1. PICK r \in sent : r.batch = n
      BY <1>3, RowsOfBatch
    <2>2. disposition = "merge" => Parquet(n) = Promise!LastPerKey(Rows(n))
      BY DEF Parquet, Deduped, Promise!LastPerKey
    <2>3. disposition # "merge" => Parquet(n) = Rows(n)
      BY DEF Parquet, Deduped
    <2>4. Promise!Land(r)
      BY <1>1, <1>2, <1>3, <2>1, <2>2, <2>3 DEF Promise!Land, RowsIn
    <2> QED
      BY <2>1, <2>4 DEF Promise!Next
  <1>4. ASSUME RowsIn(target') = RowsIn(target)
        PROVE  UNCHANGED Promise!vars
    BY <1>1, <1>4 DEF Promise!vars, RowsIn
  <1>5. CASE Load(j)
    <2>1. CASE disposition = "merge"
      BY <1>4, <1>5, <2>1 DEF Load, RowsIn
    <2>2. CASE disposition # "merge"
      <3> DEFINE copies == {[row |-> r, by |-> j.try] : r \in Parquet(n)}
      <3>1. target' = target \cup copies
        BY <1>5, <2>2 DEF Load
      <3>2. RowsIn(copies) = Parquet(n)
        <4>1. RowsIn(copies) \subseteq Parquet(n)
          BY DEF RowsIn
        <4>2. ASSUME NEW r \in Parquet(n) PROVE r \in RowsIn(copies)
          <5>1. [row |-> r, by |-> j.try] \in copies
            OBVIOUS
          <5> QED
            BY <5>1 DEF RowsIn
        <4> QED
          BY <4>1, <4>2
      <3> HIDE DEF copies
      <3>3. RowsIn(target') = RowsIn(target) \cup Parquet(n)
        BY <3>1, <3>2 DEF RowsIn
      <3> QED
        BY <1>3, <1>4, <2>2, <3>3
    <2> QED
      BY <2>1, <2>2
  <1>6. CASE j.kind = "merge" /\ Merge(j)
    <2>1. disposition = "merge"
      BY <1>6 DEF Provenance, KindInv
    <2>2. PICK new \in OnePerKey({x \in staged : x.row.batch = n}) :
            target' = Merged(target, new)
      BY <1>6 DEF Merge
    <2>3. RowsIn(target') = Promise!Upsert(RowsIn(target), RowsIn(new))
      BY <2>2, MergedRows
    <2>4. CASE new = {}
      <3>1. RowsIn(new) = {}
        BY <2>4 DEF RowsIn
      <3>2. RowsIn(target') = RowsIn(target)
        BY <2>3, <3>1 DEF Promise!Upsert
      <3> QED
        BY <3>2, <1>4
    <2>5. CASE new # {}
      <3>1. RowsIn(new) = Parquet(n)
        BY <2>1, <2>5, MergeSource DEF Provenance, TypeInv
      <3>2. Parquet(n) # {}
        BY <2>5, <3>1 DEF RowsIn
      <3> QED
        BY <1>3, <2>1, <2>3, <3>1, <3>2
    <2> QED
      BY <2>4, <2>5
  <1>7. CASE j.kind = "truncate" /\ Truncate
    BY <1>1, <1>7 DEF Truncate, Provenance, KindInv, Promise!Next, Promise!Empty
  <1> QED
    BY <1>5, <1>6, <1>7 DEF RunJob

LEMMA OfferKeepsPromise ==
    ASSUME TypeInv, TypeInv', SentInv, NEW p \in Payload, WriteBatch(p)
    PROVE  Promise!Next
  <1>1. sent \subseteq sent' /\ sent' \subseteq Row
    BY DEF WriteBatch, TypeInv, LoadTypeOK
  <1>2. batch \in Nat /\ batch' = batch + 1
    BY DEF WriteBatch, TypeInv, LoadTypeOK
  <1>3. ASSUME NEW r \in sent' \ sent PROVE Promise!BatchOf(sent, r.batch) = {}
    <2>1. r.batch = batch + 1
      BY <1>2 DEF WriteBatch
    <2> QED
      BY <1>2, <2>1 DEF SentInv, Promise!BatchOf, TypeInv, LoadTypeOK, Row
  <1>4. disposition' = disposition /\ target' = target
    BY DEF WriteBatch, service
  <1> QED
    BY <1>1, <1>3, <1>4 DEF Promise!Next, Promise!Offer

\* Every change of the table is a whole batch landing as the disposition says,
\* or the emptying of a `replace` table: no retry, late job or kill ever shows
\* a reader half a batch, or one of the records a later one of the same batch
\* replaces.
THEOREM WholeBatchesOnly == Spec => ImplementsWholeBatches
  <1>1. Init => Promise!Init
    BY DEF Init, Promise!Init
  <1>2. /\ TypeInv /\ Provenance /\ [Next]_vars
        /\ TypeInv'
        => [Promise!Next]_(Promise!vars)
    <2> SUFFICES ASSUME TypeInv, Provenance, [Next]_vars, TypeInv'
                 PROVE  Promise!Next \/ UNCHANGED Promise!vars
      OBVIOUS
    <2>1. CASE UNCHANGED <<disposition, sent, target>>
      BY <2>1 DEF Promise!vars
    <2>2. ASSUME NEW j \in jobs, RunJob(j)
          PROVE  Promise!Next \/ UNCHANGED Promise!vars
      BY <2>2, JobKeepsPromise
    <2>3. ASSUME NEW p \in Payload, WriteBatch(p) PROVE Promise!Next
      BY <2>3, OfferKeepsPromise DEF Provenance
    <2> QED
      BY <2>1, <2>2, <2>3
         DEF Next, ClientStep, ServiceStep, RunStep, Attempt, Upload, Submit,
             RequestFails, PollFails, PollTimesOut, JobFailed, TruncateDone,
             LoadDone, MergeDone, DropStaging, Succeeded, FailJob, Expire,
             EndRun, Crash, NextRun, service, client, vars
  <1> QED
    BY <1>1, <1>2, ProvenanceInvariance, PTL
       DEF Spec, ImplementsWholeBatches, Promise!Spec
-----------------------------------------------------------------------------
JobDone == job # None /\ outcome = "done"

\* A LOAD that the client has seen end has landed, in an append stream.
AppendInv ==
    disposition = "append" =>
        /\ acked \subseteq RowsIn(target)
        /\ pc = "load" /\ JobDone => Parquet(batch) \subseteq RowsIn(target)

\* r, or a record of a later batch with its key, is in the table.
Present(r) ==
    \E q \in RowsIn(target) : q.key = r.key /\ (q.batch > r.batch \/ q = r)

\* The same of a merge stream, step by step: the LOAD has filled the staging
\* table when the MERGE is submitted, and the MERGE has landed when the
\* staging table is dropped.
MergeInv ==
    disposition = "merge" /\ ~straggled =>
        /\ ~Straggler
        /\ pc \in Writing => \A r \in acked : r.batch < batch
        /\ (pc = "load" /\ JobDone) \/ pc = "merge" =>
                Parquet(batch) \subseteq RowsIn(staged)
        /\ (pc = "merge" /\ JobDone) \/ pc = "drop" =>
                Parquet(batch) \subseteq RowsIn(target)
        /\ \A r \in acked : Present(r)

AckInv == acked \subseteq sent /\ AppendInv /\ MergeInv

\* Waiting, retrying and giving up change neither table, and afterwards no
\* awaited job has ended.
LEMMA AttemptQuiet ==
    ASSUME TypeInv, Attempt
    PROVE  /\ UNCHANGED <<disposition, target, staged, sent, batch, acked>>
           /\ ~JobDone'
           /\ pc \in Awaiting
           /\ pc' \in {pc, "drop_failed", "failed"}
  <1>1. job # None => pc \in Awaiting
    BY DEF TypeInv, LoadTypeOK, AttemptInv, Job, Awaiting
  <1> QED
    BY <1>1 DEF Attempt, Submit, RequestFails, PollFails, PollTimesOut,
                JobFailed, RetryOrRaise, Raise, JobDone, service, Awaiting

\* What a job that runs does to the tables.
LEMMA RanJob ==
    ASSUME TypeInv, Provenance, NEW j \in jobs, RunJob(j)
    PROVE  /\ disposition = "append" => RowsIn(target) \subseteq RowsIn(target')
           /\ disposition = "merge" => RowsIn(staged) \subseteq RowsIn(staged')
           /\ j.kind = "load" =>
                Parquet(j.batch) \subseteq
                    RowsIn(IF disposition = "merge" THEN staged' ELSE target')
           /\ disposition = "merge" =>
                \/ target' = target
                \/ /\ j.kind = "merge" /\ j.batch \in stagings
                   /\ RowsIn(target') =
                        Promise!Upsert(RowsIn(target), Parquet(j.batch))
           /\ disposition = "merge" /\ j.kind = "merge" =>
                \/ RowsIn(target') =
                        Promise!Upsert(RowsIn(target), Parquet(j.batch))
                \/ {x \in staged : x.row.batch = j.batch} = {}
  <1> DEFINE n == j.batch
             copies == {[row |-> r, by |-> j.try] : r \in Parquet(n)}
  <1>1. Parquet(n) \subseteq RowsIn(copies)
    <2>1. ASSUME NEW r \in Parquet(n) PROVE r \in RowsIn(copies)
      <3>1. [row |-> r, by |-> j.try] \in copies
        OBVIOUS
      <3> QED
        BY <3>1 DEF RowsIn
    <2> QED
      BY <2>1
  <1> HIDE DEF copies
  <1>2. CASE j.kind = "load" /\ Load(j)
    <2>1. IF disposition = "merge"
          THEN staged' = staged \cup copies /\ target' = target
          ELSE target' = target \cup copies /\ staged' = staged
      BY <1>2 DEF Load, copies
    <2> QED
      BY <1>1, <1>2, <2>1 DEF RowsIn
  <1>3. CASE j.kind = "merge" /\ Merge(j)
    <2>1. disposition = "merge" /\ staged' = staged /\ n \in stagings
      BY <1>3 DEF Provenance, KindInv, Merge
    <2>2. PICK new \in OnePerKey({x \in staged : x.row.batch = n}) :
            target' = Merged(target, new)
      BY <1>3 DEF Merge
    <2>3. RowsIn(target') = Promise!Upsert(RowsIn(target), RowsIn(new))
      BY <2>2, MergedRows
    <2>4. CASE new = {}
      <3>1. target' = target
        BY <2>2, <2>4 DEF Merged
      <3>2. {x \in staged : x.row.batch = n} = {}
        BY <2>4 DEF OnePerKey
      <3> QED
        BY <1>3, <2>1, <3>1, <3>2
    <2>5. CASE new # {}
      <3>1. RowsIn(new) = Parquet(n)
        BY <2>1, <2>5, MergeSource DEF Provenance, TypeInv
      <3> QED
        BY <1>3, <2>1, <2>3, <3>1
    <2> QED
      BY <2>4, <2>5
  <1>4. CASE j.kind = "truncate" /\ Truncate
    BY <1>4 DEF Truncate, Provenance, KindInv
  <1> QED
    BY <1>2, <1>3, <1>4 DEF RunJob

LEMMA AppendStep ==
    ASSUME TypeInv, Provenance, AckInv, Step
    PROVE  AppendInv'
  <1> SUFFICES ASSUME disposition = "append"
               PROVE  /\ acked' \subseteq RowsIn(target')
                      /\ pc' = "load" /\ JobDone' =>
                            Parquet(batch)' \subseteq RowsIn(target')
    BY DispositionFixed DEF AppendInv, RowsIn
  <1>1. CASE Attempt
    BY <1>1, AttemptQuiet DEF AckInv, AppendInv, RowsIn
  <1>2. ASSUME NEW j \in jobs, RunJob(j)
        PROVE  /\ acked' \subseteq RowsIn(target')
               /\ pc' = "load" /\ JobDone' =>
                    Parquet(batch)' \subseteq RowsIn(target')
    <2>1. Parquet(batch)' = Parquet(batch)
      BY <1>2 DEF RunJob, Parquet, Deduped, Rows
    <2>2. RowsIn(target) \subseteq RowsIn(target')
      BY <1>2, RanJob
    <2>3. ASSUME pc' = "load", JobDone', ~JobDone
          PROVE  Parquet(batch) \subseteq RowsIn(target')
      <3>1. j = job /\ pc = "load" /\ job # None
        BY <1>2, <2>3 DEF RunJob, JobDone
      <3>2. j.kind = "load" /\ j.batch = batch
        BY <3>1 DEF TypeInv, AttemptInv
      <3> QED
        BY <1>2, <3>2, RanJob
    <2> QED
      BY <1>2, <2>1, <2>2, <2>3 DEF RunJob, AckInv, AppendInv
  <1>3. CASE LoadDone
    <2>1. acked' = acked \cup Parquet(batch) /\ target' = target /\ job' = None
      BY <1>3 DEF LoadDone, Succeeded, Return
    <2>2. Parquet(batch) \subseteq RowsIn(target)
      BY <1>3 DEF LoadDone, Succeeded, AckInv, AppendInv, JobDone
    <2> QED
      BY <2>1, <2>2 DEF AckInv, AppendInv, JobDone
  <1>4. CASE TruncateDone \/ MergeDone \/ DropStaging
    BY <1>4 DEF TruncateDone, MergeDone, DropStaging, Succeeded, Provenance,
                KindInv
  <1>5. CASE Upload \/ (\E p \in Payload : WriteBatch(p)) \/ EndRun \/ Crash
             \/ NextRun
    BY <1>5 DEF Upload, WriteBatch, EndRun, Crash, NextRun, service, JobDone,
                AckInv, AppendInv, TypeInv, AttemptInv, Awaiting, RowsIn
  <1>6. CASE \/ \E j \in jobs : FailJob(j)
             \/ \E n \in stagings : Expire(n)
    <2>1. UNCHANGED <<target, acked, pc, batch, sent, disposition, job>>
      BY <1>6 DEF FailJob, Expire, client
    <2>2. Parquet(batch)' = Parquet(batch) /\ (JobDone' => JobDone)
      BY <1>6, <2>1
         DEF FailJob, Expire, client, Parquet, Deduped, Rows, JobDone
    <2> QED
      BY <2>1, <2>2 DEF AckInv, AppendInv, RowsIn
  <1> QED
    BY <1>1, <1>2, <1>3, <1>4, <1>5, <1>6
       DEF Step, ClientStep, ServiceStep, RunStep

\* An upsert by rows of a later batch leaves every acknowledged row present.
LEMMA UpsertKeeps ==
    ASSUME NEW r, Present(r), NEW new,
           \A q \in new : q.batch > r.batch,
           RowsIn(target') = Promise!Upsert(RowsIn(target), new)
    PROVE  Present(r)'
  <1>1. PICK q \in RowsIn(target) :
            q.key = r.key /\ (q.batch > r.batch \/ q = r)
    BY DEF Present
  <1>2. CASE \E y \in new : y.key = q.key
    <2>1. PICK y \in new : y.key = q.key
      BY <1>2
    <2>2. y \in RowsIn(target') /\ y.key = r.key /\ y.batch > r.batch
      BY <1>1, <2>1 DEF Promise!Upsert
    <2> QED
      BY <2>2 DEF Present, RowsIn
  <1>3. CASE \A y \in new : y.key # q.key
    <2>1. q \in RowsIn(target')
      BY <1>1, <1>3 DEF Promise!Upsert
    <2> QED
      BY <1>1, <2>1 DEF Present, RowsIn
  <1> QED
    BY <1>2, <1>3

\* The job BigQuery runs, in a merge stream without a straggler.
LEMMA MergeRun ==
    ASSUME TypeInv, Provenance, AckInv, disposition = "merge", ~straggled,
           NEW j \in jobs, RunJob(j)
    PROVE  /\ (pc' = "load" /\ JobDone') \/ pc' = "merge" =>
                Parquet(batch)' \subseteq RowsIn(staged')
           /\ (pc' = "merge" /\ JobDone') \/ pc' = "drop" =>
                Parquet(batch)' \subseteq RowsIn(target')
           /\ \A r \in acked' : Present(r)'
  <1>1. UNCHANGED <<pc, batch, sent, disposition, acked, job>>
    BY DEF RunJob
  <1>2. Parquet(batch)' = Parquet(batch)
    BY <1>1 DEF Parquet, Deduped, Rows
  <1>3. MergeInv /\ (\A r \in acked : Present(r))
    BY DEF AckInv, MergeInv
  <1>4. JobDone' /\ ~JobDone => j = job /\ job # None
    BY DEF RunJob, JobDone
  <1>5. JobDone' /\ ~JobDone => j.batch = batch /\ j.kind = pc
    BY <1>4 DEF TypeInv, AttemptInv
  <1>6. ASSUME target' # target
        PROVE  /\ j.batch = batch /\ pc \in Writing
               /\ RowsIn(target') =
                    Promise!Upsert(RowsIn(target), Parquet(batch))
    <2>1. /\ j.kind = "merge" /\ j.batch \in stagings
          /\ RowsIn(target') =
                Promise!Upsert(RowsIn(target), Parquet(j.batch))
      BY <1>6, RanJob
    <2>2. ~Straggler
      BY <1>3 DEF MergeInv
    <2> QED
      BY <2>1, <2>2 DEF Straggler
  <1>7. (pc' = "load" /\ JobDone') \/ pc' = "merge" =>
            Parquet(batch)' \subseteq RowsIn(staged')
    <2>1. RowsIn(staged) \subseteq RowsIn(staged')
      BY RanJob
    <2>2. pc = "load" /\ JobDone' /\ ~JobDone =>
            Parquet(batch) \subseteq RowsIn(staged')
      BY <1>5, RanJob
    <2> QED
      BY <1>1, <1>2, <1>3, <2>1, <2>2 DEF MergeInv
  <1>8. (pc' = "merge" /\ JobDone') \/ pc' = "drop" =>
            Parquet(batch)' \subseteq RowsIn(target')
    <2>1. Parquet(batch) \subseteq RowsIn(target) =>
            Parquet(batch) \subseteq RowsIn(target')
      BY <1>6 DEF RowsIn, Promise!Upsert
    <2>2. ASSUME pc = "merge", JobDone', ~JobDone
          PROVE  Parquet(batch) \subseteq RowsIn(target')
      <3>1. CASE RowsIn(target') =
                    Promise!Upsert(RowsIn(target), Parquet(batch))
        BY <3>1 DEF Promise!Upsert
      <3>2. CASE {x \in staged : x.row.batch = batch} = {}
        <4>1. Parquet(batch) \subseteq RowsIn(staged)
          BY <1>3, <2>2 DEF MergeInv
        <4>2. Parquet(batch) = {}
          BY <3>2, <4>1, RowsOfBatch DEF RowsIn
        <4> QED
          BY <4>2
      <3> QED
        BY <1>5, <2>2, <3>1, <3>2, RanJob
    <2> QED
      BY <1>1, <1>2, <1>3, <2>1, <2>2 DEF MergeInv
  <1>9. ASSUME NEW r \in acked PROVE Present(r)'
    <2>1. CASE target' = target
      BY <1>3, <2>1 DEF Present, RowsIn
    <2>2. CASE target' # target
      <3>1. r.batch < batch /\ r.batch \in Nat /\ batch \in Nat
        BY <1>3, <1>6, <2>2 DEF MergeInv, TypeInv, LoadTypeOK, Row
      <3>2. \A q \in Parquet(batch) : q.batch > r.batch
        BY <3>1, RowsOfBatch
      <3> QED
        BY <1>3, <1>6, <2>2, <3>2, UpsertKeeps
    <2> QED
      BY <2>1, <2>2
  <1> QED
    BY <1>1, <1>7, <1>8, <1>9

LEMMA MergeStep ==
    ASSUME TypeInv, Provenance, AckInv, Step,
           straggled' = (straggled \/ Straggler')
    PROVE  MergeInv'
  <1> SUFFICES ASSUME disposition = "merge", ~straggled', ~straggled,
                      ~Straggler', MergeInv
               PROVE  /\ pc' \in Writing => \A r \in acked' : r.batch < batch'
                      /\ (pc' = "load" /\ JobDone') \/ pc' = "merge" =>
                            Parquet(batch)' \subseteq RowsIn(staged')
                      /\ (pc' = "merge" /\ JobDone') \/ pc' = "drop" =>
                            Parquet(batch)' \subseteq RowsIn(target')
                      /\ \A r \in acked' : Present(r)'
    BY DispositionFixed DEF AckInv, MergeInv, RowsIn
  <1> DEFINE Before == pc \in Writing => \A r \in acked : r.batch < batch
  <1>0. disposition' = disposition
    BY DispositionFixed
  <1>1. /\ Before
        /\ (pc = "load" /\ JobDone) \/ pc = "merge" =>
                Parquet(batch) \subseteq RowsIn(staged)
        /\ (pc = "merge" /\ JobDone) \/ pc = "drop" =>
                Parquet(batch) \subseteq RowsIn(target)
        /\ \A r \in acked : Present(r)
    BY DEF MergeInv
  <1>2. CASE Attempt
    <2>1. Parquet(batch)' = Parquet(batch)
      BY <1>2, AttemptQuiet DEF Parquet, Deduped, Rows
    <2>2. pc \in Writing
      BY <1>2, AttemptQuiet DEF Writing
    <2>3. \A r \in acked' : Present(r)'
      BY <1>1, <1>2, AttemptQuiet DEF Present
    <2> QED
      BY <1>1, <1>2, <2>1, <2>2, <2>3, AttemptQuiet DEF Awaiting
  <1>3. ASSUME NEW j \in jobs, RunJob(j)
        PROVE  /\ (pc' = "load" /\ JobDone') \/ pc' = "merge" =>
                    Parquet(batch)' \subseteq RowsIn(staged')
               /\ (pc' = "merge" /\ JobDone') \/ pc' = "drop" =>
                    Parquet(batch)' \subseteq RowsIn(target')
               /\ \A r \in acked' : Present(r)'
               /\ UNCHANGED <<pc, acked, batch>>
    BY <1>3, MergeRun DEF RunJob
  <1>4. CASE LoadDone
    <2>1. /\ pc = "load" /\ pc' = "merge" /\ JobDone /\ job' = None
          /\ UNCHANGED <<target, staged, batch, sent, acked>>
      BY <1>4 DEF LoadDone, Succeeded, JobDone
    <2>2. Parquet(batch)' = Parquet(batch)
      BY <1>0, <2>1 DEF Parquet, Deduped, Rows
    <2>3. \A r \in acked' : Present(r)'
      BY <1>1, <2>1 DEF Present
    <2> QED
      BY <1>1, <2>1, <2>2, <2>3 DEF Writing, Awaiting, JobDone
  <1>5. CASE MergeDone
    <2>1. /\ pc = "merge" /\ pc' = "drop" /\ JobDone
          /\ UNCHANGED <<target, staged, batch, sent, acked>>
      BY <1>5 DEF MergeDone, Succeeded, JobDone
    <2>2. Parquet(batch)' = Parquet(batch)
      BY <1>0, <2>1 DEF Parquet, Deduped, Rows
    <2>3. \A r \in acked' : Present(r)'
      BY <1>1, <2>1 DEF Present
    <2> QED
      BY <1>1, <2>1, <2>2, <2>3 DEF Writing, Awaiting
  <1>6. CASE DropStaging
    <2>1. pc' \in {"idle", "failed"} /\ target' = target
      BY <1>6 DEF DropStaging, Return
    <2>2. acked' = acked \/ (pc = "drop" /\ acked' = acked \cup Parquet(batch))
      BY <1>6 DEF DropStaging, Return
    <2>3. ASSUME pc = "drop", NEW r \in Parquet(batch) PROVE Present(r)
      BY <1>1, <2>3 DEF Present
    <2>4. \A r \in acked' : Present(r)
      BY <1>1, <2>2, <2>3
    <2>5. \A r \in acked' : Present(r)'
      BY <2>1, <2>4 DEF Present
    <2> QED
      BY <2>1, <2>5 DEF Writing, Awaiting, Dropping
  <1>7. CASE TruncateDone
    BY <1>7 DEF TruncateDone, Succeeded, Provenance, KindInv
  <1>8. ASSUME NEW p \in Payload, WriteBatch(p)
        PROVE  /\ \A r \in acked' : r.batch < batch' /\ Present(r)'
               /\ pc' \in {"idle", "upload"}
    <2>1. /\ pc' \in {"idle", "upload"} /\ batch' = batch + 1
          /\ UNCHANGED <<target, acked>>
      BY <1>8 DEF WriteBatch, service
    <2>2. \A r \in acked : r.batch \in Nat /\ batch \in Nat /\ r.batch <= batch
      BY DEF AckInv, Provenance, SentInv, TypeInv, LoadTypeOK, Row
    <2>3. \A r \in acked' : Present(r)'
      BY <1>1, <2>1 DEF Present
    <2> QED
      BY <2>1, <2>2, <2>3
  <1>9. CASE Upload \/ EndRun \/ Crash \/ NextRun
    <2>1. /\ UNCHANGED <<target, acked>>
          /\ pc' \in {"load", "failed", "ended", "dead", "idle"}
          /\ job' = None
      BY <1>9 DEF Upload, EndRun, Crash, NextRun, service, TypeInv, AttemptInv,
                  Awaiting
    <2>2. pc' = "load" => pc = "upload" /\ batch' = batch
      BY <1>9 DEF Upload, EndRun, Crash, NextRun
    <2>3. \A r \in acked' : Present(r)'
      BY <1>1, <2>1 DEF Present
    <2> QED
      BY <1>1, <2>1, <2>2, <2>3 DEF JobDone, Writing, Awaiting, Dropping
  <1>10. CASE \/ \E j \in jobs : FailJob(j)
              \/ \E n \in stagings : Expire(n)
    <2>1. UNCHANGED <<target, acked, pc, batch, sent, disposition, job>>
      BY <1>10 DEF FailJob, Expire, client
    <2>2. Parquet(batch)' = Parquet(batch) /\ (JobDone' => JobDone)
      BY <1>10, <2>1
         DEF FailJob, Expire, client, Parquet, Deduped, Rows, JobDone
    <2>3. pc \in Writing =>
            \A x \in staged : x.row.batch = batch => x \in staged'
      BY <1>10 DEF FailJob, Expire, DropTable
    <2>4. pc \in Writing /\ Parquet(batch) \subseteq RowsIn(staged) =>
            Parquet(batch) \subseteq RowsIn(staged')
      BY <2>3, RowsOfBatch DEF RowsIn
    <2>5. \A r \in acked' : Present(r)'
      BY <1>1, <2>1 DEF Present
    <2> QED
      BY <1>1, <2>1, <2>2, <2>4, <2>5 DEF RowsIn, Writing, Awaiting
  <1> QED
    <2>1. ASSUME NEW j \in jobs, RunJob(j)
          PROVE  pc' \in Writing => \A r \in acked' : r.batch < batch'
      BY <1>1, <1>3, <2>1
    <2>2. ASSUME NEW p \in Payload, WriteBatch(p)
          PROVE  /\ (pc' = "load" /\ JobDone') \/ pc' = "merge" => FALSE
                 /\ (pc' = "merge" /\ JobDone') \/ pc' = "drop" => FALSE
      BY <1>8, <2>2
    <2> QED
      BY <1>2, <1>3, <1>4, <1>5, <1>6, <1>7, <1>8, <1>9, <1>10, <2>1, <2>2
         DEF Step, ClientStep, ServiceStep, RunStep

LEMMA AckedSent ==
    ASSUME TypeInv, AckInv, Step
    PROVE  acked' \subseteq sent'
  <1>1. \A r \in Parquet(batch) : r \in sent
    BY RowsOfBatch
  <1> QED
    BY <1>1
       DEF AckInv, Step, ClientStep, ServiceStep, RunStep, Attempt, Upload,
           Submit, RequestFails, PollFails, PollTimesOut, JobFailed,
           TruncateDone, LoadDone, MergeDone, DropStaging, Succeeded, Return,
           FailJob, Expire, WriteBatch, EndRun, Crash, NextRun, RunJob, client

\* What write_batch has returned for stays: no later retry, late LOAD, late
\* MERGE, clean-up or kill takes an acknowledged row away.
THEOREM AcknowledgedRowsStay == Spec => []AckedRowsStay
  <1>1. Init => AckInv
    BY NoneAssumption
       DEF Init, AckInv, AppendInv, MergeInv, Straggler, JobDone, Awaiting,
           Writing
  <1>2. TypeInv /\ Provenance /\ AckInv /\ [Next]_vars => AckInv'
    <2>1. ASSUME AckInv, UNCHANGED vars PROVE AckInv'
      <3>1. UNCHANGED <<disposition, target, stagings, staged, jobs, pc, batch,
                        sent, job, outcome, acked, straggled>>
        BY <2>1 DEF vars, service, client
      <3>2. Parquet(batch)' = Parquet(batch)
        BY <3>1 DEF Parquet, Deduped, Rows
      <3> QED
        BY <2>1, <3>1, <3>2
           DEF AckInv, AppendInv, MergeInv, Straggler, JobDone, RowsIn, Present
    <2>2. ASSUME TypeInv, Provenance, AckInv, Next PROVE AckInv'
      BY <2>2, AppendStep, MergeStep, AckedSent DEF Next, Step, AckInv
    <2> QED
      BY <2>1, <2>2
  <1>3. AckInv => AckedRowsStay
    BY DEF AckInv, AppendInv, MergeInv, Present, RowsIn, AckedRowsStay
  <1> QED
    BY <1>1, <1>2, <1>3, TypeInit, TypeStep, ProvenanceInvariance, PTL DEF Spec
-----------------------------------------------------------------------------
\* A `replace` run.

\* While no job was left behind, BigQuery has at most the job the client waits
\* for, and its outcome tells whether it has run.
OneJobInv ==
    lost = {} =>
        /\ \A j \in jobs : j = job
        /\ job \in jobs => outcome = "none"

\* The table has the rows this run sent up to batch n, each once.
Exactly(n) ==
    /\ RowsIn(target) = {r \in sent : before < r.batch /\ r.batch <= n}
    /\ \A x, y \in target : x.row = y.row => x = y

\* What the table has at every stage of a `replace` run: the truncation comes
\* before its first batch, and the LOAD of a batch adds it once.
SnapInv ==
    disposition = "replace" /\ lost = {} =>
        /\ before <= batch
        /\ pc \in {"upload", "load"} => before < batch
        /\ pc = "truncate" => batch = before + 1 /\ (JobDone => target = {})
        /\ pc = "upload" \/ (pc = "load" /\ ~JobDone) => Exactly(batch - 1)
        /\ pc = "load" /\ JobDone => Exactly(batch)
        /\ pc \in {"idle", "ended"} =>
               IF truncated THEN Exactly(batch) ELSE batch = before

ReplaceInv == OneJobInv /\ SnapInv

\* Jobs are only ever left behind, never found again.
LEMMA LostGrows == ASSUME Step PROVE lost \subseteq lost'
  BY DEF Step, ClientStep, ServiceStep, RunStep, Attempt, Upload, Submit,
         RequestFails, PollFails, PollTimesOut, JobFailed, TruncateDone,
         LoadDone, MergeDone, DropStaging, Succeeded, FailJob, Expire,
         WriteBatch, EndRun, Crash, NextRun, RunJob, client

LEMMA OneJobStep ==
    ASSUME TypeInv, OneJobInv, Step
    PROVE  OneJobInv'
  <1> SUFFICES ASSUME lost' = {}
               PROVE  /\ \A j \in jobs' : j = job'
                      /\ job' \in jobs' => outcome' = "none"
    BY DEF OneJobInv
  <1>1. /\ lost = {} /\ \A j \in jobs : j = job
        /\ job \in jobs => outcome = "none"
        /\ None \notin jobs
    BY LostGrows, NoneAssumption DEF OneJobInv, TypeInv, LoadTypeOK
  <1>2. CASE Attempt
    <2>1. CASE Submit
      BY <1>1, <2>1 DEF Submit
    <2>2. CASE RequestFails
      BY <1>1, <2>2 DEF RequestFails, RetryOrRaise
    <2>3. CASE PollFails \/ PollTimesOut
      BY <2>3 DEF PollFails, PollTimesOut
    <2>4. CASE JobFailed
      BY <1>1, <2>4 DEF JobFailed, RetryOrRaise, service
    <2> QED
      BY <1>2, <2>1, <2>2, <2>3, <2>4 DEF Attempt
  <1>3. CASE TruncateDone \/ LoadDone \/ MergeDone
    BY <1>1, <1>3 DEF TruncateDone, LoadDone, MergeDone, Succeeded
  <1>4. ASSUME NEW j \in jobs, RunJob(j) \/ FailJob(j)
        PROVE  jobs' = {}
    BY <1>1, <1>4 DEF RunJob, FailJob
  <1>5. CASE \/ Upload \/ DropStaging \/ EndRun \/ NextRun
             \/ \E p \in Payload : WriteBatch(p)
             \/ \E n \in stagings : Expire(n)
    BY <1>1, <1>5 DEF Upload, DropStaging, EndRun, NextRun, WriteBatch, Expire,
                      service, client
  <1>6. CASE Crash
    BY <1>1, <1>6 DEF Crash, service
  <1> QED
    BY <1>2, <1>3, <1>4, <1>5, <1>6 DEF Step, ClientStep, ServiceStep, RunStep

\* A LOAD adds the batch it was submitted for to the batches before it.
LEMMA LoadAddsBatch ==
    ASSUME TypeInv, SentInv, disposition = "replace", NEW j \in jobs,
           j.batch = batch, Load(j), UNCHANGED <<sent, before, batch>>,
           batch > before, Exactly(batch - 1)
    PROVE  Exactly(batch)'
  <1> DEFINE copies == {[row |-> r, by |-> j.try] : r \in Parquet(batch)}
  <1>1. target' = target \cup copies
    BY DEF Load
  <1>2. Parquet(batch) = {r \in sent : r.batch = batch}
    BY DEF Parquet, Deduped, Rows
  <1>3. RowsIn(copies) = Parquet(batch)
    <2>1. ASSUME NEW r \in Parquet(batch) PROVE r \in RowsIn(copies)
      <3>1. [row |-> r, by |-> j.try] \in copies
        OBVIOUS
      <3> QED
        BY <3>1 DEF RowsIn
    <2>2. RowsIn(copies) \subseteq Parquet(batch)
      BY DEF RowsIn
    <2> QED
      BY <2>1, <2>2
  <1>4. \A x, y \in copies : x.row = y.row => x = y
    OBVIOUS
  <1>5. \A x \in copies : x.row.batch = batch
    BY <1>2
  <1>6. \A r \in sent : r.batch \in Nat
    BY DEF TypeInv, LoadTypeOK, Row
  <1>7. batch \in Nat /\ before \in Nat
    BY DEF TypeInv, LoadTypeOK
  <1> HIDE DEF copies
  <1>8. \A x \in target : x.row \in sent /\ x.row.batch <= batch - 1
    BY DEF Exactly, RowsIn
  <1>9. \A x \in target, y \in copies : x.row # y.row
    BY <1>5, <1>6, <1>7, <1>8
  <1>10. RowsIn(target') = RowsIn(target) \cup Parquet(batch)
    BY <1>1, <1>3 DEF RowsIn
  <1>11. RowsIn(target') = {r \in sent : before < r.batch /\ r.batch <= batch}
    BY <1>2, <1>6, <1>7, <1>10 DEF Exactly
  <1>12. \A x, y \in target' : x.row = y.row => x = y
    BY <1>1, <1>4, <1>9 DEF Exactly
  <1>13. batch' = batch
    OBVIOUS
  <1> QED
    BY <1>11, <1>12, <1>13 DEF Exactly, RowsIn
LEMMA SnapStep ==
    ASSUME TypeInv, SentInv, KindInv, ReplaceInv, Step
    PROVE  SnapInv'
  <1> SUFFICES ASSUME disposition' = "replace", lost' = {} PROVE SnapInv'
    BY DEF SnapInv
  <1>0. disposition = "replace" /\ lost = {}
    BY LostGrows, DispositionFixed
  <1>1. /\ SnapInv /\ OneJobInv
        /\ \A j \in jobs : j = job
        /\ job \in jobs => outcome = "none"
    BY <1>0 DEF ReplaceInv, OneJobInv
  <1>2. batch \in Nat /\ before \in Nat
    BY DEF TypeInv, LoadTypeOK
  <1>3. job # None => job.batch = batch /\ job.kind = pc /\ pc \in Awaiting
    BY DEF TypeInv, LoadTypeOK, AttemptInv, Awaiting
  <1>4. pc \notin {"merge", "drop", "drop_failed"}
    BY <1>0 DEF KindInv, Dropping
  <1>5. UNCHANGED <<target, sent, before, batch>> =>
            /\ Exactly(batch)' <=> Exactly(batch)
            /\ Exactly(batch - 1)' <=> Exactly(batch - 1)
    BY DEF Exactly, RowsIn
  <1>6. CASE Attempt
    <2>1. /\ UNCHANGED <<target, sent, batch>> /\ ~JobDone'
          /\ pc' \in {pc, "drop_failed", "failed"} /\ pc \in Awaiting
      BY <1>6, AttemptQuiet
    <2>2. UNCHANGED <<before, truncated>>
      BY <1>6 DEF Attempt, Submit, RequestFails, PollFails, PollTimesOut,
                  JobFailed, runVars
    <2>3. ~JobDone
      <3>1. ~PollFails /\ ~PollTimesOut
        BY <1>0 DEF PollFails, PollTimesOut
      <3>2. job = None \/ outcome = "error"
        BY <1>6, <3>1 DEF Attempt, Submit, RequestFails, JobFailed
      <3> QED
        BY <3>2 DEF JobDone
    <2> QED
      BY <1>0, <1>1, <1>4, <1>5, <2>1, <2>2, <2>3 DEF SnapInv, Awaiting
  <1>7. CASE Upload
    <2>1. /\ UNCHANGED <<target, sent, before, batch, job, outcome, truncated>>
          /\ pc = "upload" /\ pc' \in {"load", "failed"}
      BY <1>7 DEF Upload, runVars
    <2>2. ~JobDone'
      BY <1>3, <2>1 DEF JobDone, Awaiting
    <2>3. before < batch /\ Exactly(batch - 1)
      BY <1>0, <1>1, <2>1 DEF SnapInv
    <2>4. Exactly(batch - 1)'
      BY <1>5, <2>1, <2>3
    <2> QED
      BY <1>2, <2>1, <2>2, <2>3, <2>4 DEF SnapInv
  <1>8. CASE TruncateDone
    <2>1. /\ UNCHANGED <<target, sent, before, batch>>
          /\ pc = "truncate" /\ JobDone
      BY <1>8 DEF TruncateDone, Succeeded, runVars, JobDone
    <2>2. batch = before + 1 /\ target = {}
      BY <1>0, <1>1, <2>1 DEF SnapInv
    <2>3. \A r \in sent : r.batch \in Nat
      BY DEF TypeInv, LoadTypeOK, Row
    <2>4. CASE Rows(batch) = {}
      <3>1. Exactly(batch)
        BY <1>2, <2>2, <2>3, <2>4 DEF Exactly, RowsIn, Rows
      <3>2. pc' = "idle" /\ truncated'
        BY <1>0, <1>8, <2>4 DEF TruncateDone, Return
      <3> QED
        BY <1>2, <1>5, <2>1, <2>2, <3>1, <3>2 DEF SnapInv
    <2>5. CASE Rows(batch) # {}
      <3>1. Exactly(batch - 1)
        BY <1>2, <2>2, <2>3 DEF Exactly, RowsIn
      <3>2. pc' = "upload"
        BY <1>8, <2>5 DEF TruncateDone
      <3> QED
        BY <1>2, <1>5, <2>1, <2>2, <3>1, <3>2 DEF SnapInv
    <2> QED
      BY <2>4, <2>5
  <1>9. CASE LoadDone
    <2>1. /\ UNCHANGED <<target, sent, before, batch>>
          /\ pc = "load" /\ JobDone /\ pc' = "idle" /\ truncated'
      BY <1>0, <1>9 DEF LoadDone, Succeeded, runVars, JobDone, Return
    <2> QED
      BY <1>0, <1>1, <1>5, <2>1 DEF SnapInv
  <1>10. CASE MergeDone \/ DropStaging
    BY <1>4, <1>10 DEF MergeDone, Succeeded, DropStaging, Dropping
  <1>11. ASSUME NEW j \in jobs, RunJob(j) PROVE SnapInv'
    <2>1. j = job /\ job # None /\ j.batch = batch /\ j.kind = pc
      BY <1>1, <1>3, NoneAssumption DEF TypeInv, LoadTypeOK
    <2>2. UNCHANGED <<sent, before, batch, pc, truncated>> /\ JobDone' /\ ~JobDone
      BY <1>1, <1>11, <2>1 DEF RunJob, runVars, JobDone
    <2>3. CASE pc = "load"
      <3>1. Load(j)
        BY <1>11, <2>1, <2>3 DEF RunJob
      <3>2. Exactly(batch - 1) /\ before < batch
        BY <1>0, <1>1, <2>2, <2>3 DEF SnapInv
      <3>3. Exactly(batch)'
        BY <1>0, <1>2, <2>1, <2>2, <3>1, <3>2, LoadAddsBatch
      <3> QED
        BY <1>2, <2>2, <2>3, <3>2, <3>3 DEF SnapInv
    <2>4. CASE pc = "truncate"
      <3>1. target' = {}
        BY <1>11, <2>1, <2>4 DEF RunJob, Truncate
      <3> QED
        BY <1>0, <1>1, <2>2, <2>4, <3>1 DEF SnapInv
    <2> QED
      BY <1>3, <1>4, <2>1, <2>3, <2>4 DEF Awaiting
  <1>12. ASSUME NEW j \in jobs, FailJob(j) PROVE SnapInv'
    <2>1. j = job /\ job # None /\ outcome = "none"
      BY <1>1, <1>12, NoneAssumption DEF TypeInv, LoadTypeOK
    <2>2. /\ UNCHANGED <<target, sent, before, batch, pc, truncated>>
          /\ ~JobDone' /\ ~JobDone
      BY <1>12, <2>1 DEF FailJob, runVars, JobDone
    <2> QED
      BY <1>0, <1>1, <1>5, <2>2 DEF SnapInv
  <1>13. ASSUME NEW p \in Payload, WriteBatch(p) PROVE SnapInv'
    <2>1. /\ UNCHANGED <<target, before, job, outcome, truncated>>
          /\ pc = "idle" /\ batch' = batch + 1
          /\ \A r \in sent' : r \in sent \/ r.batch = batch + 1
          /\ sent \subseteq sent'
      BY <1>2, <1>13 DEF WriteBatch, service, runVars
    <2>2. \A r \in sent : r.batch \in Nat /\ r.batch <= batch
      BY DEF TypeInv, LoadTypeOK, Row, SentInv
    <2>3. ~JobDone'
      BY <1>3, <2>1 DEF JobDone, Awaiting
    <2>4. CASE ~truncated
      <3>1. pc' = "truncate"
        BY <1>0, <1>13, <2>4 DEF WriteBatch
      <3>2. batch = before
        BY <1>0, <1>1, <2>1, <2>4 DEF SnapInv
      <3> QED
        BY <1>2, <2>1, <2>3, <3>1, <3>2 DEF SnapInv
    <2>5. CASE truncated
      <3>1. Exactly(batch) /\ before <= batch
        BY <1>0, <1>1, <2>1, <2>5 DEF SnapInv
      <3>2. \A x, y \in target' : x.row = y.row => x = y
        BY <2>1, <3>1 DEF Exactly
      <3>3. RowsIn(target') = {r \in sent' : before < r.batch /\ r.batch <= batch}
        BY <1>2, <2>1, <2>2, <3>1 DEF Exactly
      <3>4. Exactly(batch - 1)'
        BY <1>2, <2>1, <3>2, <3>3 DEF Exactly, RowsIn
      <3>5. CASE p = <<>>
        <4>1. pc' = "idle" /\ sent' = sent
          BY <1>13, <2>5, <3>5 DEF WriteBatch
        <4>2. RowsIn(target') =
                {r \in sent' : before < r.batch /\ r.batch <= batch + 1}
          BY <1>2, <2>2, <3>3, <4>1
        <4>3. Exactly(batch)'
          BY <2>1, <3>2, <4>2 DEF Exactly, RowsIn
        <4> QED
          BY <1>2, <2>1, <2>5, <3>1, <4>1, <4>3 DEF SnapInv
      <3>6. CASE p # <<>>
        <4>1. pc' = "upload"
          BY <1>13, <2>5, <3>6 DEF WriteBatch
        <4> QED
          BY <1>2, <2>1, <2>3, <3>1, <3>4, <4>1 DEF SnapInv
      <3> QED
        BY <3>5, <3>6
    <2> QED
      BY <2>4, <2>5
  <1>14. ASSUME NEW n \in stagings, Expire(n) PROVE SnapInv'
    BY <1>0, <1>1, <1>5, <1>14 DEF Expire, SnapInv, client, runVars, JobDone
  <1>15. CASE EndRun \/ Crash
    BY <1>0, <1>1, <1>5, <1>15 DEF EndRun, Crash, SnapInv, service, runVars
  <1>16. CASE NextRun
    BY <1>2, <1>16 DEF NextRun, SnapInv
  <1> QED
    BY <1>6, <1>7, <1>8, <1>9, <1>10, <1>11, <1>12, <1>13, <1>14, <1>15, <1>16
       DEF Step, ClientStep, ServiceStep, RunStep
\* A `replace` run that ended well, and after which no job was left behind,
\* leaves exactly its own rows, each once, for any number of batches.
THEOREM RunsLeaveSnapshots == Spec => []ReplaceIsSnapshot
  <1>1. Init => ReplaceInv
    BY DEF Init, ReplaceInv, OneJobInv, SnapInv
  <1>2. TypeInv /\ Provenance /\ ReplaceInv /\ [Next]_vars => ReplaceInv'
    <2>1. ASSUME ReplaceInv, UNCHANGED vars PROVE ReplaceInv'
      <3>1. OneJobInv'
        BY <2>1 DEF ReplaceInv, OneJobInv, vars, service, client
      <3>2. UNCHANGED <<target, sent, before, batch>>
        BY <2>1 DEF vars, service, client, runVars
      <3>3. /\ Exactly(batch)' <=> Exactly(batch)
            /\ Exactly(batch - 1)' <=> Exactly(batch - 1)
        BY <3>2 DEF Exactly, RowsIn
      <3>4. SnapInv'
        BY <2>1, <3>2, <3>3 DEF ReplaceInv, SnapInv, JobDone, vars, client
      <3> QED
        BY <3>1, <3>4 DEF ReplaceInv
    <2>2. ASSUME TypeInv, Provenance, ReplaceInv, Next PROVE ReplaceInv'
      BY <2>2, OneJobStep, SnapStep DEF Next, Step, Provenance, ReplaceInv
    <2> QED
      BY <2>1, <2>2
  <1>3. TypeInv /\ SentInv /\ ReplaceInv => ReplaceIsSnapshot
    <2> SUFFICES ASSUME TypeInv, SentInv, ReplaceInv, disposition = "replace",
                        pc = "ended", lost = {}, batch > before
                 PROVE  /\ {x.row : x \in target} =
                                {r \in sent : r.batch > before}
                        /\ \A x, y \in target : x.row = y.row => x = y
      BY DEF ReplaceIsSnapshot
    <2>1. Exactly(batch)
      BY DEF ReplaceInv, SnapInv, TypeInv, LoadTypeOK
    <2>2. \A r \in sent : r.batch \in Nat /\ r.batch <= batch
      BY DEF SentInv, TypeInv, LoadTypeOK, Row
    <2>3. before \in Nat
      BY DEF TypeInv, LoadTypeOK
    <2> QED
      BY <2>1, <2>2, <2>3 DEF Exactly, RowsIn
  <1>4. Provenance => SentInv
    BY DEF Provenance
  <1> QED
    BY <1>1, <1>2, <1>3, <1>4, ProvenanceInvariance, PTL DEF Spec
-----------------------------------------------------------------------------
\* The LOAD that wrote copy x is one the client stopped waiting for.
FromLost(x) ==
    \E j \in lost : j.kind = "load" /\ j.batch = x.row.batch /\ j.try = x.by

\* Of the LOADs that wrote copies of batch n, the client saw one end at most.
OneSeen(n) ==
    \E b : \A x \in target : x.row.batch = n => x.by = b \/ FromLost(x)

\* While it waits for a LOAD, or has not submitted one, it has seen none.
NoneSeen == \A x \in target : x.row.batch = batch => FromLost(x)

CopyInv ==
    disposition # "merge" =>
        /\ \A j \in jobs : j = job \/ j \in lost
        /\ job \in jobs => outcome = "none"
        /\ \A x \in target : x.row \in sent
        /\ \A n : OneSeen(n)
        /\ pc \in {"truncate", "upload"} => NoneSeen
        /\ pc = "load" /\ ~JobDone => NoneSeen
        /\ pc = "load" /\ JobDone =>
               \A x \in target :
                   x.row.batch = batch => x.by = job.try \/ FromLost(x)

CountInv == IsFiniteSet(lost) /\ CopyInv

LEMMA LostFinite ==
    ASSUME IsFiniteSet(lost), Step
    PROVE  IsFiniteSet(lost')
  <1>1. lost' = lost \/ \E j : lost' = lost \cup {j}
    BY DEF Step, ClientStep, ServiceStep, RunStep, Attempt, Upload, Submit,
           RequestFails, PollFails, PollTimesOut, JobFailed, TruncateDone,
           LoadDone, MergeDone, DropStaging, Succeeded, FailJob, Expire,
           WriteBatch, EndRun, Crash, NextRun, RunJob, client
  <1> QED
    BY <1>1, FS_AddElement

\* A step that leaves the table keeps what was known of its copies.
LEMMA SeenKept ==
    ASSUME target' = target, lost \subseteq lost'
    PROVE  /\ \A x \in target : FromLost(x) => FromLost(x)'
           /\ (\A n : OneSeen(n)) => (\A n : OneSeen(n)')
           /\ batch' = batch /\ NoneSeen => NoneSeen'
  <1>1. \A x \in target : FromLost(x) => FromLost(x)'
    BY DEF FromLost
  <1>2. ASSUME NEW n, OneSeen(n) PROVE OneSeen(n)'
    <2>1. PICK b : \A x \in target : x.row.batch = n => x.by = b \/ FromLost(x)
      BY <1>2 DEF OneSeen
    <2>2. \A x \in target' : x.row.batch = n => x.by = b \/ FromLost(x)'
      BY <1>1, <2>1
    <2> QED
      BY <2>2 DEF OneSeen
  <1>3. batch' = batch /\ NoneSeen => NoneSeen'
    BY <1>1 DEF NoneSeen
  <1> QED
    BY <1>1, <1>2, <1>3

\* The copies a LOAD adds carry its attempt; the others are as before.
LEMMA LoadSeen ==
    ASSUME TypeInv, disposition # "merge", CopyInv, NEW j \in jobs,
           j.kind = "load", Load(j), UNCHANGED <<lost, sent, batch>>
    PROVE  /\ \A x \in target' : x.row \in sent
           /\ \A x \in target' : x \in target
                                 \/ (x.row.batch = j.batch /\ x.by = j.try)
           /\ j \in lost => /\ \A n : OneSeen(n)'
                            /\ NoneSeen => NoneSeen'
  <1> DEFINE copies == {[row |-> r, by |-> j.try] : r \in Parquet(j.batch)}
  <1>1. target' = target \cup copies
    BY DEF Load
  <1>2. \A x \in copies : x.row.batch = j.batch /\ x.by = j.try /\ x.row \in sent
    BY RowsOfBatch
  <1> HIDE DEF copies
  <1>3. \A x : FromLost(x)' <=> FromLost(x)
    BY DEF FromLost
  <1>4. ASSUME j \in lost, NEW n PROVE OneSeen(n)'
    <2>1. \A x \in copies : FromLost(x)
      BY <1>2, <1>4 DEF FromLost
    <2>2. PICK b : \A x \in target : x.row.batch = n => x.by = b \/ FromLost(x)
      BY DEF CopyInv, OneSeen
    <2>3. \A x \in target' : x.row.batch = n => x.by = b \/ FromLost(x)'
      BY <1>1, <1>3, <2>1, <2>2
    <2> QED
      BY <2>3 DEF OneSeen
  <1>5. j \in lost /\ NoneSeen => NoneSeen'
    BY <1>1, <1>2, <1>3 DEF NoneSeen, FromLost
  <1>6. \A x \in target' : x.row \in sent
    BY <1>1, <1>2 DEF CopyInv
  <1>7. \A x \in target' : x \in target
                           \/ (x.row.batch = j.batch /\ x.by = j.try)
    BY <1>1, <1>2
  <1> QED
    BY <1>4, <1>5, <1>6, <1>7

LEMMA CopyStep ==
    ASSUME TypeInv, SentInv, KindInv, CopyInv, Step
    PROVE  CopyInv'
  <1> SUFFICES ASSUME disposition' # "merge" PROVE CopyInv'
    BY DEF CopyInv
  <1>0. disposition # "merge" /\ lost \subseteq lost'
    BY LostGrows, DispositionFixed
  <1>1. /\ \A j \in jobs : j = job \/ j \in lost
        /\ job \in jobs => outcome = "none"
        /\ \A x \in target : x.row \in sent
        /\ \A n : OneSeen(n)
        /\ None \notin jobs
    BY <1>0, NoneAssumption DEF CopyInv, TypeInv, LoadTypeOK
  <1>2. batch \in Nat
    BY DEF TypeInv, LoadTypeOK
  <1>3. job # None => job.batch = batch /\ job.kind = pc /\ pc \in Awaiting
    BY DEF TypeInv, LoadTypeOK, AttemptInv, Awaiting
  <1>4. pc \notin {"merge", "drop", "drop_failed"}
    BY <1>0 DEF KindInv, Dropping
  <1>5. target' = target =>
            /\ \A n : OneSeen(n)'
            /\ batch' = batch /\ NoneSeen => NoneSeen'
            /\ \A x \in target : FromLost(x) => FromLost(x)'
    BY <1>0, <1>1, SeenKept
  <1>6. CASE Attempt
    <2>1. /\ UNCHANGED <<target, sent, batch>> /\ ~JobDone'
          /\ pc' \in {pc, "drop_failed", "failed"} /\ pc \in Awaiting
      BY <1>6, AttemptQuiet
    <2>2. ASSUME pc' = "load" PROVE NoneSeen'
      <3>1. pc = "load"
        BY <2>1, <2>2
      <3>2. CASE ~JobDone
        BY <1>0, <1>5, <2>1, <3>1, <3>2 DEF CopyInv
      <3>3. CASE JobDone
        <4>1. PollFails
          BY <1>6, <3>3, NoneAssumption DEF Attempt, Submit, RequestFails,
             PollTimesOut, JobFailed, JobDone
        <4>2. job \in lost' /\ job.kind = "load" /\ job.batch = batch
          BY <1>3, <3>1, <3>3, <4>1 DEF PollFails, JobDone
        <4>3. ASSUME NEW x \in target, x.row.batch = batch PROVE FromLost(x)'
          <5>1. x.by = job.try \/ FromLost(x)
            BY <1>0, <3>1, <3>3, <4>3 DEF CopyInv
          <5>2. x.by = job.try => FromLost(x)'
            BY <4>2, <4>3 DEF FromLost
          <5> QED
            BY <1>5, <2>1, <5>1, <5>2
        <4> QED
          BY <2>1, <4>3 DEF NoneSeen
      <3> QED
        BY <3>2, <3>3
    <2>3. \A j \in jobs' : j = job' \/ j \in lost'
      BY <1>1, <1>6 DEF Attempt, Submit, RequestFails, PollFails, PollTimesOut,
         JobFailed, RetryOrRaise, service
    <2>4. job' \in jobs' => outcome' = "none"
      <3>1. CASE Submit
        BY <3>1 DEF Submit
      <3>2. CASE ~Submit
        <4>1. job' = None /\ jobs' \subseteq jobs \cup {ThisJob}
          BY <1>6, <3>2 DEF Attempt, RequestFails, PollFails, PollTimesOut,
             JobFailed, RetryOrRaise, service
        <4>2. ThisJob \in Job
          BY <1>2, <2>1 DEF ThisJob, Job, Awaiting, TypeInv, LoadTypeOK
        <4> QED
          BY <1>1, <4>1, <4>2, NoneAssumption
      <3> QED
        BY <3>1, <3>2
    <2>5. pc' = "truncate" => NoneSeen'
      BY <1>0, <1>5, <2>1 DEF CopyInv
    <2>6. pc' # "upload" /\ \A x \in target' : x.row \in sent'
      BY <1>1, <2>1 DEF Awaiting
    <2> QED
      BY <1>5, <2>1, <2>2, <2>3, <2>4, <2>5, <2>6 DEF CopyInv
  <1>7. CASE Upload
    <2>1. /\ UNCHANGED <<target, sent, batch, jobs, job, outcome, lost>>
          /\ pc = "upload" /\ pc' \in {"load", "failed"}
      BY <1>7 DEF Upload
    <2>2. NoneSeen'
      BY <1>0, <1>5, <2>1 DEF CopyInv
    <2>3. ~JobDone'
      BY <1>3, <2>1 DEF JobDone, Awaiting
    <2> QED
      BY <1>1, <1>5, <2>1, <2>2, <2>3 DEF CopyInv
  <1>8. CASE TruncateDone
    <2>1. /\ UNCHANGED <<target, sent, batch, jobs, lost>>
          /\ pc = "truncate" /\ pc' \in {"idle", "upload"}
          /\ job \notin jobs /\ job' = None
      BY <1>1, <1>8 DEF TruncateDone, Succeeded, Return
    <2>2. NoneSeen'
      BY <1>0, <1>5, <2>1 DEF CopyInv
    <2> QED
      BY <1>1, <1>5, <2>1, <2>2 DEF CopyInv
  <1>9. CASE LoadDone
    <2>1. /\ UNCHANGED <<target, sent, batch, jobs, lost>>
          /\ pc' = "idle" /\ job \notin jobs /\ job' = None
      BY <1>0, <1>1, <1>9 DEF LoadDone, Succeeded, Return
    <2> QED
      BY <1>1, <1>5, <2>1 DEF CopyInv
  <1>10. CASE MergeDone \/ DropStaging
    BY <1>4, <1>10 DEF MergeDone, Succeeded, DropStaging, Dropping
  <1>11. ASSUME NEW j \in jobs, RunJob(j) PROVE CopyInv'
    <2>1. /\ UNCHANGED <<sent, batch, pc, job, lost, disposition>>
          /\ jobs' = jobs \ {j}
          /\ outcome' = IF j = job THEN "done" ELSE outcome
      BY <1>11 DEF RunJob
    <2>2. /\ \A i \in jobs' : i = job' \/ i \in lost'
          /\ job' \in jobs' => outcome' = "none"
      BY <1>1, <2>1
    <2>3. \A x : FromLost(x)' <=> FromLost(x)
      BY <2>1 DEF FromLost
    <2>4. ASSUME j = job
          PROVE  /\ job # None /\ j.batch = batch /\ j.kind = pc
                 /\ JobDone' /\ ~JobDone
      BY <1>1, <1>3, <2>1, <2>4 DEF JobDone
    <2>5. j # job => j \in lost /\ (JobDone' <=> JobDone)
      BY <1>1, <2>1 DEF JobDone
    <2>6. CASE j.kind = "truncate" /\ Truncate
      <3>1. target' = {}
        BY <2>6 DEF Truncate
      <3> QED
        BY <2>2, <3>1 DEF CopyInv, OneSeen, NoneSeen
    <2>7. CASE j.kind = "load" /\ Load(j)
      <3>1. /\ \A x \in target' : x.row \in sent
            /\ \A x \in target' : x \in target
                                  \/ (x.row.batch = j.batch /\ x.by = j.try)
            /\ j \in lost => /\ \A n : OneSeen(n)'
                             /\ NoneSeen => NoneSeen'
        BY <1>0, <2>1, <2>7, LoadSeen
      <3>2. CASE j \in lost
        <4>1. ASSUME pc = "load", JobDone', NEW x \in target',
                     x.row.batch = batch
              PROVE  x.by = job.try \/ FromLost(x)'
          <5>1. CASE j = job
            <6>1. NoneSeen'
              BY <1>0, <2>4, <3>1, <3>2, <4>1, <5>1 DEF CopyInv
            <6> QED
              BY <2>1, <4>1, <6>1 DEF NoneSeen
          <5>2. CASE j # job
            <6>1. x \in target => x.by = job.try \/ FromLost(x)
              BY <1>0, <2>5, <4>1, <5>2 DEF CopyInv
            <6>2. x.row.batch = j.batch /\ x.by = j.try => FromLost(x)
              BY <2>7, <3>2 DEF FromLost
            <6> QED
              BY <2>3, <3>1, <6>1, <6>2
          <5> QED
            BY <5>1, <5>2
        <4>2. pc = "load" /\ ~JobDone' => NoneSeen'
          BY <1>0, <2>4, <2>5, <3>1, <3>2 DEF CopyInv
        <4>3. pc \in {"truncate", "upload"} => NoneSeen'
          BY <1>0, <3>1, <3>2 DEF CopyInv
        <4> QED
          BY <2>1, <2>2, <3>1, <3>2, <4>1, <4>2, <4>3 DEF CopyInv
      <3>3. CASE j \notin lost
        <4>1. j = job
          BY <1>1, <3>3
        <4>2. pc = "load" /\ NoneSeen
          BY <1>0, <2>4, <2>7, <4>1 DEF CopyInv
        <4>3. ASSUME NEW x \in target', x.row.batch = batch
              PROVE  x.by = job.try \/ FromLost(x)'
          BY <2>3, <3>1, <4>1, <4>2, <4>3 DEF NoneSeen
        <4>4. ASSUME NEW n PROVE OneSeen(n)'
          <5>1. CASE n = batch
            BY <4>3, <5>1 DEF OneSeen
          <5>2. CASE n # batch
            <6>1. PICK b : \A x \in target :
                              x.row.batch = n => x.by = b \/ FromLost(x)
              BY <1>1 DEF OneSeen
            <6>2. \A x \in target' :
                      x.row.batch = n => x.by = b \/ FromLost(x)'
              BY <2>3, <2>4, <3>1, <4>1, <5>2, <6>1
            <6> QED
              BY <6>2 DEF OneSeen
          <5> QED
            BY <5>1, <5>2
        <4> QED
          BY <2>1, <2>2, <2>4, <3>1, <4>1, <4>2, <4>3, <4>4 DEF CopyInv
      <3> QED
        BY <3>2, <3>3
    <2>8. j.kind # "merge"
      BY <1>0 DEF KindInv
    <2> QED
      BY <1>11, <2>6, <2>7, <2>8 DEF RunJob
  <1>12. ASSUME NEW j \in jobs, FailJob(j) PROVE CopyInv'
    <2>1. /\ UNCHANGED <<target, sent, batch, pc, job, lost>>
          /\ jobs' = jobs \ {j}
          /\ outcome' = IF j = job THEN "error" ELSE outcome
      BY <1>12 DEF FailJob
    <2>2. JobDone' <=> JobDone
      BY <1>1, <2>1 DEF JobDone
    <2>3. \A x : FromLost(x)' <=> FromLost(x)
      BY <2>1 DEF FromLost
    <2> QED
      BY <1>0, <1>1, <1>5, <2>1, <2>2, <2>3 DEF CopyInv
  <1>13. ASSUME NEW p \in Payload, WriteBatch(p) PROVE CopyInv'
    <2>1. /\ UNCHANGED <<target, jobs, job, outcome, lost>>
          /\ pc = "idle" /\ batch' = batch + 1 /\ sent \subseteq sent'
          /\ pc' \in {"truncate", "idle", "upload"}
      BY <1>13 DEF WriteBatch, service
    <2>2. \A x \in target : x.row.batch \in Nat /\ x.row.batch <= batch
      BY <1>1 DEF SentInv, TypeInv, LoadTypeOK, Copy, Row
    <2>3. NoneSeen'
      BY <1>2, <2>1, <2>2 DEF NoneSeen
    <2> QED
      BY <1>1, <1>5, <2>1, <2>3 DEF CopyInv
  <1>14. ASSUME NEW n \in stagings, Expire(n) PROVE CopyInv'
    <2>1. UNCHANGED <<target, sent, batch, pc, job, jobs, outcome, lost>>
      BY <1>14 DEF Expire, client
    <2>2. (JobDone' <=> JobDone) /\ \A x : FromLost(x)' <=> FromLost(x)
      BY <2>1 DEF JobDone, FromLost
    <2> QED
      BY <1>0, <1>1, <1>5, <2>1, <2>2 DEF CopyInv
  <1>15. CASE EndRun \/ Crash \/ NextRun
    <2>1. /\ UNCHANGED <<target, sent, batch, jobs>>
          /\ pc' \in {"ended", "dead", "idle"}
      BY <1>15 DEF EndRun, Crash, NextRun, service
    <2>2. \/ UNCHANGED <<job, outcome, lost>>
          \/ job' = None /\ (job = None \/ job \in lost')
      BY <1>15 DEF EndRun, Crash, NextRun
    <2>3. /\ \A j \in jobs' : j = job' \/ j \in lost'
          /\ job' \in jobs' => outcome' = "none"
      BY <1>0, <1>1, <2>1, <2>2
    <2> QED
      BY <1>1, <1>5, <2>1, <2>3 DEF CopyInv
  <1> QED
    BY <1>6, <1>7, <1>8, <1>9, <1>10, <1>11, <1>12, <1>13, <1>14, <1>15
       DEF Step, ClientStep, ServiceStep, RunStep
\* Outside a merge, a row is in the table more than once only by the LOADs of
\* its batch that the client stopped waiting for.
LEMMA CopiesCount ==
    ASSUME TypeInv, CountInv
    PROVE  CopiesComeFromLostJobs
  <1> SUFFICES ASSUME disposition # "merge", NEW x \in target
               PROVE  Cardinality({y \in target : y.row = x.row}) <=
                        1 + Cardinality({j \in lost : /\ j.kind = "load"
                                                     /\ j.batch = x.row.batch})
    BY DEF CopiesComeFromLostJobs
  <1> DEFINE n == x.row.batch
             same == {y \in target : y.row = x.row}
             loads == {j \in lost : j.kind = "load" /\ j.batch = n}
  <1>1. PICK b : \A y \in target : y.row.batch = n => y.by = b \/ FromLost(y)
    BY DEF CountInv, CopyInv, OneSeen
  <1> DEFINE spare == {y \in same : y.by # b}
             f == [y \in spare |-> CHOOSE j \in loads : j.try = y.by]
  <1>2. IsFiniteSet(loads)
    BY FS_Subset DEF CountInv
  <1>3. \A y \in spare : \E j \in loads : j.try = y.by
    BY <1>1 DEF FromLost
  <1>4. \A y \in spare : f[y] \in loads /\ f[y].try = y.by
    BY <1>3
  <1>5. \A y, z \in same : y.by = z.by => y = z
    BY DEF TypeInv, LoadTypeOK, Copy
  <1>6. f \in [spare -> loads]
    BY <1>4
  <1>7. ASSUME NEW y \in spare, NEW z \in spare, f[y] = f[z] PROVE y = z
    <2>1. f[y].try = y.by /\ f[z].try = z.by /\ y \in same /\ z \in same
      BY <1>4
    <2> HIDE DEF f, spare, same
    <2> QED
      BY <1>5, <1>7, <2>1
  <1>8. same \subseteq spare \cup {[row |-> x.row, by |-> b]}
    BY DEF TypeInv, LoadTypeOK, Copy
  <1>9. DOMAIN f = spare
    OBVIOUS
  <1> HIDE DEF spare, same, loads, f
  <1>10. f \in Injection(spare, loads)
    BY <1>6, <1>7, <1>9 DEF Injection, IsInjective
  <1>11. IsFiniteSet(spare) /\ Cardinality(spare) <= Cardinality(loads)
    BY <1>2, <1>10, FS_Injection
  <1> DEFINE all == spare \cup {[row |-> x.row, by |-> b]}
  <1>12. /\ IsFiniteSet(all)
         /\ Cardinality(all) = IF [row |-> x.row, by |-> b] \in spare
                               THEN Cardinality(spare)
                               ELSE Cardinality(spare) + 1
    BY <1>11, FS_AddElement
  <1> HIDE DEF all
  <1>13. same \subseteq all
    BY <1>8 DEF all
  <1>14. Cardinality(same) <= Cardinality(all) /\ IsFiniteSet(same)
    BY <1>12, <1>13, FS_Subset
  <1>15. /\ Cardinality(same) \in Nat /\ Cardinality(all) \in Nat
         /\ Cardinality(spare) \in Nat /\ Cardinality(loads) \in Nat
    BY <1>2, <1>11, <1>12, <1>14, FS_CardinalityType
  <1>16. Cardinality(same) <= 1 + Cardinality(loads)
    BY <1>11, <1>12, <1>14, <1>15
  <1> QED
    BY <1>16 DEF same, loads

\* No row is in the table more often than the answers the client lost account
\* for: a merge table has one row per key, and every other table at most one
\* copy more than the LOADs of the row's batch that were left behind.
THEOREM CopiesAreAccountedFor == Spec => []NoSpareCopies
  <1>1. Init => CountInv
    <2>1. Init => IsFiniteSet(lost)
      BY FS_EmptySet DEF Init
    <2> QED
      BY <2>1 DEF Init, CountInv, CopyInv, OneSeen, NoneSeen
  <1>2. TypeInv /\ Provenance /\ CountInv /\ [Next]_vars => CountInv'
    <2>1. ASSUME CountInv, UNCHANGED vars PROVE CountInv'
      <3>1. /\ UNCHANGED <<disposition, target, sent, batch, pc, job, jobs,
                           outcome, lost>>
        BY <2>1 DEF vars, service, client
      <3>2. (JobDone' <=> JobDone) /\ \A x : FromLost(x)' <=> FromLost(x)
        BY <3>1 DEF JobDone, FromLost
      <3>3. (\A n : OneSeen(n)' <=> OneSeen(n)) /\ (NoneSeen' <=> NoneSeen)
        BY <3>1, <3>2 DEF OneSeen, NoneSeen
      <3> QED
        BY <2>1, <3>1, <3>2, <3>3 DEF CountInv, CopyInv
    <2>2. ASSUME TypeInv, Provenance, CountInv, Next PROVE CountInv'
      BY <2>2, LostFinite, CopyStep DEF Next, Step, Provenance, CountInv
    <2> QED
      BY <2>1, <2>2
  <1>3. TypeInv /\ CountInv /\ OneRowPerKey => NoSpareCopies
    BY CopiesCount DEF NoSpareCopies
  <1> QED
    BY <1>1, <1>2, <1>3, OneRowPerKeyAlways, ProvenanceInvariance, PTL DEF Spec
=============================================================================
