------------------------------- MODULE Schemas -------------------------------
(* The schema of a stream and of its table.  A build resolves the stream's    *)
(* schema (declared, or inferred from the first batch, and what the config    *)
(* adds), makes the table fit (ensure_schema), and then, batch by batch, adds *)
(* the columns that appear, coerces the values and writes.  Several builds    *)
(* may evolve one BigQuery table at the same time; DuckDB has one writer, and *)
(* what a failed stream did to its table after the transaction began is       *)
(* rolled back.                                                               *)
EXTENDS Coercion, Naturals, Sequences

CONSTANTS
    Build,           \* the builds that load the stream
    Columns,
    Batches,         \* what a source may yield: sequences of records
    Declarations,    \* the schemas register.yaml may declare; <<>> stands for none
    Configurations,  \* the fields the config may add; <<>> for none
    Partitions,      \* the partition specs a build may resolve to
    MaxBatches       \* bound: batches of one build

Schema == UNION {[cols -> Types] : cols \in SUBSET Columns}
Record == UNION {[cols -> Kinds] : cols \in SUBSET Columns}

ASSUME SchemasAssumption ==
    /\ Batches \subseteq Seq(Record)
    /\ Declarations \subseteq Schema /\ Configurations \subseteq Schema
    /\ MaxBatches \in Nat

VARIABLES
    dest, policy, contract, declared, configured,   \* fixed by Init
    partition,   \* what each build's config asks the table to be partitioned by
    table,       \* the destination's table: does it exist, its columns, its partition
    phase,
    schema,      \* schema_cell: the schema a build writes with
    copy,        \* the table as a build read it last
    batch,       \* the batch a build works on, as the source yielded it
    normal,      \* the kinds of value each column of that batch has been made of
    loaded,      \* how many batches a build has written
    reported,    \* the drift a build reported: (column, kind) pairs
    lost,        \* columns of a build in which a value was replaced by NULL
    reason,      \* why a build failed
    found        \* the builds that began when there was a table

given == <<dest, policy, contract, declared, configured, partition>>
builds == <<phase, schema, copy, batch, normal, loaded, reported, lost, reason, found>>
vars == <<given, table, builds>>

Absent == [exists |-> FALSE, cols |-> <<>>, partition |-> "none"]
Active == {b \in Build : phase[b] \notin {"idle", "done", "failed"}}

Init ==
    /\ dest \in {"duckdb", "bigquery"}
    /\ policy \in {"warn", "fail"}
    /\ declared \in Declarations
    /\ contract \in IF declared = <<>> THEN {"evolve"} ELSE {"evolve", "strict"}
    /\ configured \in Configurations
    /\ partition \in [Build -> Partitions]
    /\ table = Absent
    /\ phase = [b \in Build |-> "idle"]
    /\ schema = [b \in Build |-> <<>>]
    /\ copy = [b \in Build |-> Absent]
    /\ batch = [b \in Build |-> <<>>]
    /\ normal = [b \in Build |-> <<>>]
    /\ loaded = [b \in Build |-> 0]
    /\ reported = [b \in Build |-> {}]
    /\ lost = [b \in Build |-> {}]
    /\ reason = [b \in Build |-> "none"]
    /\ found = {}

-----------------------------------------------------------------------------
ColumnsOf(bt) == UNION {DOMAIN bt[i] : i \in DOMAIN bt}

(* The type the records of a batch give a column: that of the first value     *)
(* that is not text; a STRING guess, that of a NULL included, gives way to    *)
(* every later one.                                                           *)
Telling(bt, c) == {i \in DOMAIN bt : c \in DOMAIN bt[i] /\ Inferred(bt[i][c]) # "STRING"}
TypeFrom(bt, c) ==
    IF Telling(bt, c) = {} THEN "STRING"
    ELSE LET first == CHOOSE i \in Telling(bt, c) : \A j \in Telling(bt, c) : i <= j
         IN  Inferred(bt[first][c])
InferFrom(bt, cols) == [c \in cols |-> TypeFrom(bt, c)]

(* A configured field may not contradict a declared one; it does override an  *)
(* inferred one.                                                              *)
Conflict == \E c \in DOMAIN configured \cap DOMAIN declared : configured[c] # declared[c]
Resolved(bt) ==
    IF declared # <<>> THEN Joined(declared, configured)
    ELSE Joined(configured, InferFrom(bt, ColumnsOf(bt)))

Fail(b, why) ==
    /\ phase' = [phase EXCEPT ![b] = "failed"]
    /\ reason' = [reason EXCEPT ![b] = why]
    /\ table' = IF dest = "duckdb" /\ phase[b] # "idle" THEN copy[b] ELSE table
Goto(b, ph) == phase' = [phase EXCEPT ![b] = ph] /\ UNCHANGED reason

(* A stream starts: its first batch is there before its table is.  A strict   *)
(* stream's first batch may have no column the schema does not declare.       *)
Strict(bt) == contract = "strict" /\ ColumnsOf(bt) \ DOMAIN Joined(declared, configured) # {}
Begin(b) ==
    /\ phase[b] = "idle"
    /\ dest = "duckdb" => Active = {}
    /\ found' = IF table.exists THEN found \cup {b} ELSE found
    /\ \E bt \in Batches :
          /\ batch' = [batch EXCEPT ![b] = bt]
          /\ IF Conflict THEN Fail(b, "configuration") /\ UNCHANGED schema
             ELSE IF Strict(bt) THEN Fail(b, "strict") /\ UNCHANGED schema
             ELSE /\ schema' = [schema EXCEPT ![b] = Resolved(bt)]
                  /\ Goto(b, "ensure") /\ UNCHANGED table
    /\ UNCHANGED <<given, copy, normal, loaded, reported, lost>>

-----------------------------------------------------------------------------
Missing(b, t) == DOMAIN schema[b] \ DOMAIN t.cols
Grown(b, t) == [t EXCEPT !.cols = Joined(@, schema[b])]
New(b) == [exists |-> TRUE, cols |-> schema[b], partition |-> partition[b]]
Patching == [ensure |-> "ensure-patch", evolve |-> "evolve-patch", target |-> "target-patch"]
After == [ensure |-> "began", evolve |-> "coerce", target |-> "write"]

(* DuckDB: CREATE TABLE or ALTER TABLE ADD COLUMN, seen by nobody else.       *)
DuckEnsure(b) ==
    /\ dest = "duckdb" /\ phase[b] \in {"ensure", "evolve"}
    /\ table' = IF table.exists THEN Grown(b, table)
                ELSE [New(b) EXCEPT !.partition = "none"]
    /\ copy' = IF phase[b] = "ensure" THEN [copy EXCEPT ![b] = table'] ELSE copy
    /\ Goto(b, After[phase[b]])
    /\ UNCHANGED <<given, schema, batch, normal, loaded, reported, lost, found>>

(* BigQuery: the table is read, and then created or patched.  ensure_schema   *)
(* also compares the partition specs; _ensure_load_target, before a load,     *)
(* does not.                                                                  *)
Wrong(b) == table.exists /\ table.partition # partition[b]
ReadTable(b) ==
    /\ dest = "bigquery" /\ phase[b] \in {"ensure", "evolve", "target"}
    /\ copy' = [copy EXCEPT ![b] = table]
    /\ IF phase[b] \in {"ensure", "evolve"} /\ Wrong(b) THEN Fail(b, "partition")
       ELSE /\ Goto(b, IF ~table.exists \/ Missing(b, table) # {}
                       THEN Patching[phase[b]] ELSE After[phase[b]])
            /\ UNCHANGED table
    /\ UNCHANGED <<given, schema, batch, normal, loaded, reported, lost, found>>

(* create_table has exists_ok: it leaves a table somebody else created in the *)
(* meantime as it is.                                                         *)
CreateTable(b) ==
    /\ \E ph \in DOMAIN After :
          phase[b] = Patching[ph] /\ ~copy[b].exists /\ Goto(b, After[ph])
    /\ table' = IF table.exists THEN table ELSE New(b)
    /\ UNCHANGED <<given, schema, copy, batch, normal, loaded, reported, lost, found>>

\* Mutant of UpdateTable: the new schema is sent without the ETag.
UpdateTableBlindly(b) ==
    /\ \E ph \in DOMAIN After :
          phase[b] = Patching[ph] /\ copy[b].exists /\ Goto(b, After[ph])
    /\ table' = Grown(b, copy[b])
    /\ UNCHANGED <<given, schema, copy, batch, normal, loaded, reported, lost, found>>

(* update_table sends the ETag of the table that was read: BigQuery refuses   *)
(* it when the table has changed since, and the stream fails.                 *)
UpdateTable(b) ==
    /\ \E ph \in DOMAIN After :
          /\ phase[b] = Patching[ph] /\ copy[b].exists
          /\ IF copy[b] = table
             THEN table' = Grown(b, copy[b]) /\ Goto(b, After[ph])
             ELSE Fail(b, "conflict")
    /\ UNCHANGED <<given, schema, copy, batch, normal, loaded, reported, lost, found>>

-----------------------------------------------------------------------------
(* The next batch; the first one has already been taken.                      *)
Pull(b) ==
    /\ phase[b] = "pull" /\ loaded[b] < MaxBatches
    /\ \E bt \in Batches : batch' = [batch EXCEPT ![b] = bt]
    /\ Goto(b, "began")
    /\ UNCHANGED <<given, table, schema, copy, normal, loaded, reported, lost, found>>

Exhausted(b) ==
    /\ phase[b] = "pull"
    /\ Goto(b, "done")
    /\ UNCHANGED <<given, table, schema, copy, batch, normal, loaded, reported, lost, found>>

\* Mutant of Evolve: the schema grows and the table is left to the writer.
EvolveSchemaOnly(b) ==
    LET new == ColumnsOf(batch[b]) \ DOMAIN schema[b]
    IN  /\ phase[b] = "began"
        /\ schema' = [schema EXCEPT ![b] = Joined(@, InferFrom(batch[b], new))]
        /\ reported' = [reported EXCEPT ![b] = @ \cup {<<c, "new_column">> : c \in new}]
        /\ Goto(b, "coerce")
        /\ UNCHANGED <<given, table, copy, batch, normal, loaded, lost, found>>

(* Columns that were never seen join the schema, and the table is ensured     *)
(* again.                                                                     *)
Evolve(b) ==
    LET new == ColumnsOf(batch[b]) \ DOMAIN schema[b]
    IN  /\ phase[b] = "began"
        /\ schema' = [schema EXCEPT ![b] = Joined(@, InferFrom(batch[b], new))]
        /\ reported' = [reported EXCEPT ![b] = @ \cup {<<c, "new_column">> : c \in new}]
        /\ Goto(b, IF new = {} THEN "coerce" ELSE "evolve")
        /\ UNCHANGED <<given, table, copy, batch, normal, loaded, lost, found>>

(* normalize_batch: every value of a known column is coerced; what cannot be  *)
(* fails the stream, or becomes text or NULL and is reported.  A column that  *)
(* a record lacks is reported too, and left out.                              *)
Cells(b) == {x \in (DOMAIN batch[b]) \X Columns : x[2] \in DOMAIN batch[b][x[1]]}
Value(b, cell) == batch[b][cell[1]][cell[2]]
TypeOf(b, cell) == schema[b][cell[2]]
Drifted(b) == {cell \in Cells(b) : Coerce(Value(b, cell), TypeOf(b, cell)) = Error}
Normal(b, cell) ==
    IF cell \in Drifted(b) THEN Fallback(Value(b, cell), TypeOf(b, cell))
    ELSE Coerce(Value(b, cell), TypeOf(b, cell))

\* Mutant of Drift: the reporter warns once per column, whatever the kind.
DriftOncePerColumn(b) ==
    {<<cell[2], "type_mismatch">> :
        cell \in {x \in Drifted(b) : \A r \in reported[b] : r[1] # x[2]}}

(* The reporter keeps one warning per column and kind.                        *)
Drift(b) ==
    {<<cell[2], "type_mismatch">> : cell \in Drifted(b)}
    \cup {<<c, "missing_column">> : c \in
             {c \in DOMAIN schema[b] : \E i \in DOMAIN batch[b] : c \notin DOMAIN batch[b][i]}}

Nulled(b) == {cell \in Cells(b) : /\ Normal(b, cell) = "null"
                                  /\ Value(b, cell) \notin {"null", "empty"}}

Normalize(b) ==
    /\ phase[b] = "coerce"
    /\ IF policy = "fail" /\ Drifted(b) # {}
       THEN Fail(b, "coercion") /\ UNCHANGED <<normal, reported, lost>>
       ELSE /\ normal' = [normal EXCEPT ![b] =
                   [c \in ColumnsOf(batch[b]) |->
                       {Normal(b, cell) : cell \in {x \in Cells(b) : x[2] = c}}]]
            /\ reported' = IF policy = "warn" THEN [reported EXCEPT ![b] = @ \cup Drift(b)]
                           ELSE reported
            /\ lost' = [lost EXCEPT ![b] = @ \cup {cell[2] : cell \in Nulled(b)}]
            /\ Goto(b, IF dest = "bigquery" THEN "target" ELSE "write")
            /\ UNCHANGED table
    /\ UNCHANGED <<given, schema, copy, batch, loaded, found>>

-----------------------------------------------------------------------------
Written(b) ==
    /\ loaded' = [loaded EXCEPT ![b] = @ + 1]
    /\ Goto(b, "pull") /\ UNCHANGED table

(* A value beyond 64 bits in a 64-bit column.                                 *)
Overflows(b, cols) == \E c \in DOMAIN normal[b] : cols[c] = "INTEGER" /\ "huge" \in normal[b][c]

(* A LOAD maps the Parquet file's columns, those of the build's schema, to    *)
(* the table's by name; their types have to be the same, JSON being loaded as *)
(* text into a STRING column.                                                 *)
Physical(t) == IF t = "JSON" THEN "STRING" ELSE t
BigQueryLoads(b) ==
    IF Overflows(b, schema[b]) THEN Fail(b, "overflow") /\ UNCHANGED loaded
    ELSE IF DOMAIN schema[b] \ DOMAIN table.cols # {}
    THEN Fail(b, "unknown column") /\ UNCHANGED loaded
    ELSE IF \E c \in DOMAIN schema[b] : Physical(schema[b][c]) # Physical(table.cols[c])
    THEN Fail(b, "clash") /\ UNCHANGED loaded
    ELSE Written(b)

(* A JSON column refuses a text that is not JSON: a date, and other text that *)
(* is no number may or may not be JSON.                                       *)
NoJson == {"dateText", "timeText"}
MaybeJson == {"yes", "text"}
Holds(b, kinds) ==
    \E c \in DOMAIN normal[b] : table.cols[c] = "JSON" /\ kinds \cap normal[b][c] # {}

(* An INSERT names the batch's columns; a value of another type than the      *)
(* column's is cast when DuckDB finds a way, and fails the stream otherwise.  *)
DuckDBInserts(b) ==
    IF DOMAIN normal[b] \ DOMAIN table.cols # {}
    THEN Fail(b, "unknown column") /\ UNCHANGED loaded
    ELSE IF Overflows(b, table.cols) THEN Fail(b, "overflow") /\ UNCHANGED loaded
    ELSE \/ ~Holds(b, NoJson) /\ Written(b)
         \/ /\ \/ Holds(b, NoJson \cup MaybeJson)
               \/ \E c \in DOMAIN normal[b] :
                      schema[b][c] # table.cols[c] /\ normal[b][c] # {"null"}
            /\ Fail(b, "clash") /\ UNCHANGED loaded

WriteBatch(b) ==
    /\ phase[b] = "write"
    /\ IF dest = "bigquery" THEN BigQueryLoads(b) ELSE DuckDBInserts(b)
    /\ UNCHANGED <<given, schema, copy, batch, normal, reported, lost, found>>

Step(b) == \/ Begin(b) \/ DuckEnsure(b) \/ ReadTable(b) \/ CreateTable(b) \/ UpdateTable(b)
           \/ Pull(b) \/ Exhausted(b) \/ Evolve(b) \/ Normalize(b) \/ WriteBatch(b)
Over == (\A b \in Build : phase[b] \in {"done", "failed"}) /\ UNCHANGED vars
Next == (\E b \in Build : Step(b)) \/ Over
Spec == Init /\ [][Next]_vars

-----------------------------------------------------------------------------
(* The type of every variable.                                                *)
Tables == [exists : BOOLEAN, cols : Schema, partition : Partitions \cup {"none"}]
Phases == {"idle", "ensure", "ensure-patch", "began", "evolve", "evolve-patch", "coerce",
           "target", "target-patch", "write", "pull", "done", "failed"}
TypeOK ==
    /\ dest \in {"duckdb", "bigquery"} /\ policy \in {"warn", "fail"}
    /\ contract \in {"evolve", "strict"} /\ found \subseteq Build
    /\ declared \in Declarations /\ configured \in Configurations
    /\ partition \in [Build -> Partitions]
    /\ table \in Tables /\ copy \in [Build -> Tables]
    /\ phase \in [Build -> Phases]
    /\ schema \in [Build -> Schema]
    /\ batch \in [Build -> Batches \cup {<<>>}]
    /\ DOMAIN normal = Build
    /\ \A b \in Build : /\ DOMAIN normal[b] \subseteq Columns
                        /\ \A c \in DOMAIN normal[b] : normal[b][c] \subseteq Kinds
    /\ loaded \in [Build -> Nat]
    /\ reported \in [Build -> SUBSET (Columns \X {"new_column", "type_mismatch", "missing_column"})]
    /\ lost \in [Build -> SUBSET Columns]
    /\ reason \in [Build -> {"none", "configuration", "strict", "partition", "conflict", "coercion",
                             "overflow", "unknown column", "clash"}]

(* A table only grows: whatever builds evolve it at the same time, from       *)
(* whatever they read before, none takes away or retypes a column another one *)
(* added.  Only the rollback of a DuckDB stream removes columns, its own.     *)
RolledBack(c) == \E b \in Active : /\ dest = "duckdb" /\ phase'[b] = "failed"
                                   /\ c \notin DOMAIN copy[b].cols
Grows == \A c \in DOMAIN table.cols :
            (c \in DOMAIN table'.cols /\ table'.cols[c] = table.cols[c]) \/ RolledBack(c)
TableOnlyGrows == [][Grows]_vars

(* Columns may appear in any batch and in any build; still no write ever      *)
(* names a column that its table does not have.                               *)
NoUnknownColumn == \A b \in Build : reason[b] # "unknown column"

(* What the source declares and the config adds is what the table has and     *)
(* every build writes, whatever the records look like and whoever comes first.*)
DeclaredTypesHold ==
    \A c \in DOMAIN Joined(declared, configured) :
        LET t == Joined(declared, configured)[c]
        IN  /\ c \in DOMAIN table.cols => table.cols[c] = t
            /\ \A b \in Build : c \in DOMAIN schema[b] => schema[b][c] = t

\* What a writer is handed, under either policy and for late columns too.
CanonicalOrNull ==
    \A b \in Build : phase[b] \in {"target", "target-patch", "write"} =>
        \A c \in DOMAIN normal[b] : normal[b][c] \subseteq Canonical[schema[b][c]] \cup {"null"}

\* Every column that lost a value is reported as one that did.
LossIsReported ==
    \A b \in Build : \A c \in lost[b] :
        policy = "warn" /\ <<c, "type_mismatch">> \in reported[b]

(* A value of the wrong kind, in whatever batch and column it comes, becomes  *)
(* one of the column's type or NULL before a writer sees it; and one that     *)
(* becomes NULL is in the drift report, even when another kind of drift was   *)
(* reported of its column before.  Under "fail" there is no such value.       *)
ValuesSurviveOrAreReported == CanonicalOrNull /\ LossIsReported

(* A build that finds a BigQuery table which is partitioned in another way    *)
(* than its config asks for never writes to it.  (Two builds that both find   *)
(* none may: the one that loses the creation writes to the other's table.)    *)
PartitionRespected ==
    \A b \in found : dest = "bigquery" /\ loaded[b] > 0 => table.partition = partition[b]
=============================================================================
