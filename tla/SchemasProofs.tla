---------------------------- MODULE SchemasProofs ----------------------------
(* Proofs about Schemas for any number of builds and any batches,             *)
(* declarations and configurations: its types, that a table only grows, that  *)
(* no write names a column its table does not have, that declared types and   *)
(* partitions are respected and that no value is lost in silence.             *)
EXTENDS Schemas, FiniteSetTheorems, TLAPS

-----------------------------------------------------------------------------
(* Coercion                                                                   *)

\* The columns and values of a join.
LEMMA JoinedFrom ==
    ASSUME NEW f, NEW g
    PROVE  /\ DOMAIN Joined(f, g) = DOMAIN f \cup DOMAIN g
           /\ \A x \in DOMAIN f : Joined(f, g)[x] = f[x]
           /\ \A x \in DOMAIN g \ DOMAIN f : Joined(f, g)[x] = g[x]
  BY DEF Joined

\* Each type is inferred from some kind.
LEMMA InferredType == \A v \in Kinds : Inferred(v) \in Types
  BY DEF Inferred, Types, Kinds, Numbers, Texts

\* str() makes a text of everything but None.
LEMMA TextOfType == DOMAIN TextOf = Kinds \ {"null"} /\ \A v \in DOMAIN TextOf : TextOf[v] \in Texts
  BY DEF TextOf, Kinds, Numbers, Texts

\* What an accepted value becomes is canonical, and not NULL.
LEMMA AcceptedType ==
    ASSUME NEW t \in Types, NEW v \in DOMAIN Accepted[t], v # "null"
    PROVE  Accepted[t][v] \in Canonical[t] /\ Accepted[t][v] # "null"
  <1> USE DEF Each, Kinds, Numbers, Texts
  <1>1. CASE t = "STRING"
    <2>1. Accepted[t] = TextOf /\ Canonical[t] = Texts
      BY <1>1 DEF Accepted, Canonical
    <2> QED  BY <2>1, TextOfType
  <1>2. CASE t = "INTEGER"
    <2> DEFINE f == [x \in {"bit", "int", "huge"} |-> x]
               g == Each({"bitText"}, "bit")
               h == Each({"vast", "hugeText"}, "huge")
               k == Each({"whole", "wholeText", "digits"}, "int")
    <2>1. Accepted[t] = Joined(f, Joined(g, Joined(h, k))) /\ Canonical[t] = {"bit", "int", "huge"}
      BY <1>2 DEF Accepted, Canonical
    <2> QED  BY <2>1 DEF Joined
  <1>3. CASE t = "FLOAT"
    <2> DEFINE f == Each({"bit", "int", "whole", "bitText", "digits", "wholeText"}, "whole")
               g == Each({"huge", "vast", "hugeText"}, "vast")
               h == Each({"float", "decimal", "number"}, "float")
    <2>1. Accepted[t] = Joined(f, Joined(g, h)) /\ Canonical[t] = {"whole", "vast", "float"}
      BY <1>3 DEF Accepted, Canonical
    <2> QED  BY <2>1 DEF Joined
  <1>4. CASE t \in {"BOOLEAN", "TIMESTAMP", "DATE", "BYTES"}
    BY <1>4 DEF Accepted, Canonical
  <1>5. CASE t = "JSON"
    BY <1>5 DEF Accepted, Canonical
  <1> QED  BY <1>1, <1>2, <1>3, <1>4, <1>5 DEF Types

\* What coerce_value returns: the column's own kind of value, NULL, or an error;
\* and NULL only for what is empty.
LEMMA CoerceType ==
    ASSUME NEW v \in Kinds, NEW t \in Types
    PROVE  /\ Coerce(v, t) \in Canonical[t] \cup {"null", Error}
           /\ Coerce(v, t) = "null" => v \in {"null", "empty"}
  BY AcceptedType DEF Coerce, Error

\* The kinds of a column are kinds.
LEMMA CanonicalType == \A t \in Types : Canonical[t] \subseteq Kinds /\ "null" \in Kinds
  BY DEF Canonical, Types, Kinds, Numbers, Texts

\* What does not fit and is not refused is text or NULL.
LEMMA FallbackType ==
    ASSUME NEW v \in Kinds, NEW t \in Types, Coerce(v, t) = Error
    PROVE  Fallback(v, t) = "null"
  <1>1. CASE t = "STRING"
    <2>1. Accepted[t] = TextOf
      BY <1>1 DEF Accepted
    <2>2. v = "null" \/ (v \in DOMAIN Accepted[t] /\ Accepted[t][v] \in Texts)
      BY <2>1, TextOfType
    <2> QED  BY <1>1, <2>2 DEF Coerce, Error, Texts
  <1>2. CASE t = "JSON"
    BY <1>2 DEF Accepted, Coerce, Error, Kinds, Numbers, Texts
  <1>3. CASE t \notin {"STRING", "JSON"}
    BY <1>3 DEF Fallback
  <1> QED  BY <1>1, <1>2, <1>3
-----------------------------------------------------------------------------
(* Schemas and records                                                        *)

\* Functions from some of the columns.
LEMMA SchemaIs == \A f : f \in Schema <=> DOMAIN f \subseteq Columns /\ f \in [DOMAIN f -> Types]
  BY DEF Schema

\* Records are functions from some of the columns too.
LEMMA RecordIs == \A f : f \in Record <=> DOMAIN f \subseteq Columns /\ f \in [DOMAIN f -> Kinds]
  BY DEF Record

\* No schema at all, and no batch, have no columns.
LEMMA NoColumns == <<>> \in Schema /\ DOMAIN <<>> = {}
  <1>1. <<>> \in [{} -> Types]
    OBVIOUS
  <1>2. <<>> \in Schema
    BY <1>1 DEF Schema
  <1>3. DOMAIN <<>> = {}
    OBVIOUS
  <1> QED  BY <1>2, <1>3

\* Two schemas join to a schema.
LEMMA JoinedType ==
    ASSUME NEW f \in Schema, NEW g \in Schema
    PROVE  Joined(f, g) \in Schema
  BY SchemaIs DEF Joined

\* The records of a batch.
LEMMA BatchType ==
    ASSUME NEW bt \in Batches \cup {<<>>}
    PROVE  /\ \A i \in DOMAIN bt : bt[i] \in Record
           /\ DOMAIN bt = 1..Len(bt) /\ Len(bt) \in Nat
           /\ ColumnsOf(bt) \subseteq Columns
  <1>1. CASE bt \in Seq(Record)
    BY <1>1, RecordIs DEF ColumnsOf
  <1>2. CASE bt = <<>>
    BY <1>2 DEF ColumnsOf
  <1> QED  BY <1>1, <1>2, SchemasAssumption DEF SchemasAssumption

\* Of some indices one is the first: initial segments are well-founded.
LEMMA FirstOfSome ==
    ASSUME NEW n \in Nat, NEW T, T \subseteq 1..n, T # {}
    PROVE  \E p \in T : \A q \in T : p <= q
  <1> DEFINE segments == {1..p : p \in T}
             inclusion == StrictSubsetOrdering(1..n)
  <1>1. IsFiniteSet(1..n)
    BY FS_Interval
  <1>2. IsWellFoundedOn(inclusion, SUBSET (1..n))
    BY <1>1, FS_StrictSubsetOrderingWellFounded, FS_FiniteSubsetsOfFinite
  <1>3. segments \subseteq SUBSET (1..n) /\ segments # {}
    <2>1. ASSUME NEW p \in T PROVE 1..p \subseteq 1..n
      OBVIOUS
    <2> QED  BY <2>1
  <1>4. \E x \in segments : \A y \in segments : ~ (<<y, x>> \in inclusion)
    <2> HIDE DEF segments, inclusion
    <2> QED  BY <1>2, <1>3, WFMin
  <1>5. PICK p \in T : \A q \in T : ~ (<<1..q, 1..p>> \in inclusion)
    BY <1>4
  <1>6. ASSUME NEW q \in T PROVE p <= q
    <2>1. p \in 1..n /\ q \in 1..n
      OBVIOUS
    <2>2. SUFFICES ASSUME q < p PROVE FALSE
      BY <2>1
    <2>3. 1..q \subseteq 1..p /\ 1..q # 1..p /\ 1..q \in SUBSET (1..n) /\ 1..p \in SUBSET (1..n)
      BY <2>1, <2>2
    <2> QED  BY <1>5, <2>3 DEF StrictSubsetOrdering
  <1> QED  BY <1>6

\* Inference gives every column it is asked for one of the types.
LEMMA InferFromType ==
    ASSUME NEW bt \in Batches \cup {<<>>}, NEW cols, cols \subseteq ColumnsOf(bt)
    PROVE  InferFrom(bt, cols) \in Schema /\ DOMAIN InferFrom(bt, cols) = cols
  <1>1. cols \subseteq Columns
    BY BatchType
  <1>2. ASSUME NEW c \in cols PROVE TypeFrom(bt, c) \in Types
    <2> DEFINE telling == Telling(bt, c)
    <2>1. CASE telling = {}
      BY <2>1 DEF TypeFrom, Types
    <2>2. CASE telling # {}
      <3>1. telling \subseteq 1..Len(bt) /\ Len(bt) \in Nat
        BY BatchType DEF Telling
      <3>2. \E i \in telling : \A j \in telling : i <= j
        <4> HIDE DEF telling
        <4> QED  BY <2>2, <3>1, FirstOfSome
      <3> DEFINE first == CHOOSE i \in telling : \A j \in telling : i <= j
      <3>3. first \in telling
        BY <3>2
      <3>4. bt[first][c] \in Kinds
        BY <3>3, BatchType, RecordIs DEF Telling
      <3>5. TypeFrom(bt, c) = Inferred(bt[first][c])
        BY <2>2 DEF TypeFrom
      <3> QED  BY <3>4, <3>5, InferredType
    <2> QED  BY <2>1, <2>2
  <1> QED  BY <1>1, <1>2, SchemaIs DEF InferFrom

\* The schema a build starts from.
LEMMA ResolvedType ==
    ASSUME TypeOK, NEW bt \in Batches
    PROVE  Resolved(bt) \in Schema
  <1>1. declared \in Schema /\ configured \in Schema
    BY SchemasAssumption DEF TypeOK, SchemasAssumption
  <1> QED  BY <1>1, JoinedType, InferFromType DEF Resolved

\* What a build may write of a batch.
LEMMA CellType ==
    ASSUME TypeOK, NEW b \in Build, NEW cell \in Cells(b)
    PROVE  /\ cell[1] \in DOMAIN batch[b] /\ cell[2] \in Columns
           /\ cell[2] \in ColumnsOf(batch[b])
           /\ Value(b, cell) \in Kinds
  <1>1. cell[1] \in DOMAIN batch[b] /\ cell[2] \in Columns /\ cell[2] \in DOMAIN batch[b][cell[1]]
    BY DEF Cells
  <1>2. batch[b] \in Batches \cup {<<>>}
    BY DEF TypeOK
  <1> QED  BY <1>1, <1>2, BatchType, RecordIs DEF Value, ColumnsOf
\* What it writes of it is of the column's kind, or NULL; and NULL for something
\* only where a coercion failed.
LEMMA NormalType ==
    ASSUME TypeOK, NEW b \in Build, NEW cell \in Cells(b), cell[2] \in DOMAIN schema[b]
    PROVE  /\ Normal(b, cell) \in Canonical[TypeOf(b, cell)] \cup {"null"}
           /\ Normal(b, cell) \in Kinds
           /\ cell \in Nulled(b) => cell \in Drifted(b)
  <1>1. Value(b, cell) \in Kinds /\ TypeOf(b, cell) \in Types
    <2>1. schema[b] \in Schema
      BY DEF TypeOK
    <2>2. TypeOf(b, cell) \in Types
      BY <2>1, SchemaIs DEF TypeOf
    <2> QED  BY <2>2, CellType
  <1>2. CASE cell \in Drifted(b)
    BY <1>1, <1>2, FallbackType, CanonicalType DEF Normal, Drifted
  <1>3. CASE cell \notin Drifted(b)
    BY <1>1, <1>3, CoerceType, CanonicalType DEF Normal, Drifted, Nulled
  <1> QED  BY <1>2, <1>3

\* What a build goes to from where it reads the table.
LEMMA Ways ==
    /\ DOMAIN After = {"ensure", "evolve", "target"}
    /\ DOMAIN Patching = {"ensure", "evolve", "target"}
    /\ After["ensure"] = "began" /\ After["evolve"] = "coerce" /\ After["target"] = "write"
    /\ Patching["ensure"] = "ensure-patch" /\ Patching["evolve"] = "evolve-patch"
    /\ Patching["target"] = "target-patch"
  BY DEF After, Patching
-----------------------------------------------------------------------------
(* Types                                                                      *)

\* Before the first build.
LEMMA InitType == Init => TypeOK
  BY NoColumns, SchemasAssumption
     DEF Init, TypeOK, Tables, Absent, Phases, SchemasAssumption

\* A build that fails.
LEMMA FailType ==
    ASSUME TypeOK, NEW b \in Build,
           NEW why \in {"configuration", "strict", "partition", "conflict", "coercion",
                        "overflow", "unknown column", "clash"},
           Fail(b, why)
    PROVE  /\ phase' \in [Build -> Phases] /\ table' \in Tables
           /\ reason' \in [Build -> {"none", "configuration", "strict", "partition", "conflict",
                                     "coercion", "overflow", "unknown column", "clash"}]
  BY DEF Fail, TypeOK, Phases

\* A table that is created or grows.
LEMMA GrownType ==
    ASSUME TypeOK, NEW b \in Build, NEW t \in Tables
    PROVE  /\ Grown(b, t) \in Tables /\ Grown(b, t).exists = t.exists
           /\ Grown(b, t).partition = t.partition
           /\ Grown(b, t).cols = Joined(t.cols, schema[b])
           /\ New(b) \in Tables
           /\ [New(b) EXCEPT !.partition = "none"] \in Tables
  <1>1. t.cols \in Schema /\ schema[b] \in Schema
    BY DEF Tables, TypeOK
  <1>2. Joined(t.cols, schema[b]) \in Schema
    BY <1>1, JoinedType
  <1> QED  BY <1>1, <1>2 DEF Grown, New, Tables, TypeOK

(* From the moment its new columns have joined the schema, a batch has none   *)
(* that the schema lacks.                                                     *)
KnownInv ==
    \A b \in Build :
        phase[b] \in {"evolve", "evolve-patch", "coerce", "target", "target-patch", "write"}
            => ColumnsOf(batch[b]) \subseteq DOMAIN schema[b]

\* TypeOK is inductive together with KnownInv.
LEMMA StepType ==
    ASSUME TypeOK, KnownInv, NEW b \in Build, Step(b)
    PROVE  TypeOK'
  <1> DEFINE Why == {"none", "configuration", "strict", "partition", "conflict", "coercion",
                     "overflow", "unknown column", "clash"}
             Moved == /\ phase' \in [Build -> Phases] /\ table' \in Tables
                      /\ reason' \in [Build -> Why]
  <1>1. Moved
    <2>1. CASE Begin(b)
      <3>1. \/ Fail(b, "configuration") \/ Fail(b, "strict")
            \/ Goto(b, "ensure") /\ UNCHANGED table
        BY <2>1 DEF Begin
      <3>2. CASE Fail(b, "configuration") \/ Fail(b, "strict")
        BY <3>2, FailType
      <3>3. CASE Goto(b, "ensure") /\ UNCHANGED table
        BY <3>3 DEF Goto, TypeOK, Phases
      <3> QED  BY <3>1, <3>2, <3>3
    <2>2. CASE DuckEnsure(b)
      BY <2>2, GrownType, Ways DEF DuckEnsure, Goto, TypeOK, Phases
    <2>3. CASE ReadTable(b)
      <3>1. phase[b] \in {"ensure", "evolve", "target"}
        BY <2>3 DEF ReadTable
      <3>2. After[phase[b]] \in Phases /\ Patching[phase[b]] \in Phases
        BY <3>1, Ways DEF Phases
      <3>3. CASE Fail(b, "partition")
        BY <3>3, FailType
      <3>4. CASE ~Fail(b, "partition")
        BY <2>3, <3>2, <3>4 DEF ReadTable, Goto, TypeOK
      <3> QED  BY <3>3, <3>4
    <2>4. CASE CreateTable(b)
      <3>1. PICK ph \in DOMAIN After : Goto(b, After[ph])
        BY <2>4 DEF CreateTable
      <3>2. After[ph] \in Phases
        BY Ways DEF Phases
      <3>3. New(b) \in Tables
        BY GrownType DEF TypeOK
      <3>4. table' \in Tables
        BY <2>4, <3>3 DEF CreateTable, TypeOK
      <3> QED  BY <3>1, <3>2, <3>4 DEF Goto, TypeOK
    <2>5. CASE UpdateTable(b)
      <3>1. CASE Fail(b, "conflict")
        BY <3>1, FailType
      <3>2. CASE ~Fail(b, "conflict")
        <4>1. PICK ph \in DOMAIN After : table' = Grown(b, copy[b]) /\ Goto(b, After[ph])
          BY <2>5, <3>2 DEF UpdateTable
        <4>2. After[ph] \in Phases
          BY Ways DEF Phases
        <4> QED  BY <4>1, <4>2, GrownType DEF Goto, TypeOK
      <3> QED  BY <3>1, <3>2
    <2>6. CASE Pull(b) \/ Exhausted(b) \/ Evolve(b)
      <3>1. \E ph \in {"began", "done", "coerce", "evolve"} : Goto(b, ph)
        BY <2>6 DEF Pull, Exhausted, Evolve
      <3>2. UNCHANGED table
        BY <2>6 DEF Pull, Exhausted, Evolve
      <3> QED  BY <3>1, <3>2 DEF Goto, TypeOK, Phases
    <2>7. CASE Normalize(b)
      <3>1. CASE Fail(b, "coercion")
        BY <3>1, FailType
      <3>2. CASE ~Fail(b, "coercion")
        <4>1. UNCHANGED table /\ \E ph \in {"target", "write"} : Goto(b, ph)
          BY <2>7, <3>2 DEF Normalize
        <4> QED  BY <4>1 DEF Goto, TypeOK, Phases
      <3> QED  BY <3>1, <3>2
    <2>8. CASE WriteBatch(b)
      BY <2>8, FailType DEF WriteBatch, BigQueryLoads, DuckDBInserts, Written, Goto, TypeOK, Phases
    <2> QED  BY <2>1, <2>2, <2>3, <2>4, <2>5, <2>6, <2>7, <2>8 DEF Step
  <1>2. schema' \in [Build -> Schema]
    <2>1. CASE Begin(b)
      <3>1. PICK bt \in Batches : \/ UNCHANGED schema
                                  \/ schema' = [schema EXCEPT ![b] = Resolved(bt)]
        BY <2>1 DEF Begin
      <3>2. Resolved(bt) \in Schema
        BY ResolvedType
      <3> QED  BY <3>1, <3>2 DEF TypeOK
    <2>2. CASE Evolve(b)
      <3> DEFINE new == ColumnsOf(batch[b]) \ DOMAIN schema[b]
      <3>1. InferFrom(batch[b], new) \in Schema
        BY InferFromType DEF TypeOK
      <3>2. Joined(schema[b], InferFrom(batch[b], new)) \in Schema
        BY <3>1, JoinedType DEF TypeOK
      <3> QED  BY <2>2, <3>2 DEF Evolve, TypeOK
    <2> QED  BY <2>1, <2>2 DEF Step, DuckEnsure, ReadTable, CreateTable, UpdateTable, Pull,
             Exhausted, Normalize, WriteBatch, TypeOK
  <1>3. copy' \in [Build -> Tables]
    BY <1>1 DEF Step, Begin, DuckEnsure, ReadTable, CreateTable, UpdateTable, Pull, Exhausted,
       Evolve, Normalize, WriteBatch, TypeOK
  <1>4. batch' \in [Build -> Batches \cup {<<>>}] /\ found' \subseteq Build
    BY DEF Step, Begin, DuckEnsure, ReadTable, CreateTable, UpdateTable, Pull, Exhausted,
       Evolve, Normalize, WriteBatch, TypeOK
  <1>5. /\ DOMAIN normal' = Build
        /\ \A x \in Build : /\ DOMAIN normal'[x] \subseteq Columns
                            /\ \A c \in DOMAIN normal'[x] : normal'[x][c] \subseteq Kinds
    <2>1. CASE UNCHANGED normal
      BY <2>1 DEF TypeOK
    <2>2. CASE ~ UNCHANGED normal
      <3> DEFINE made == [c \in ColumnsOf(batch[b]) |->
                             {Normal(b, cell) : cell \in {x \in Cells(b) : x[2] = c}}]
      <3>1. normal' = [normal EXCEPT ![b] = made]
        BY <2>2 DEF Step, Begin, DuckEnsure, ReadTable, CreateTable, UpdateTable, Pull, Exhausted,
           Evolve, Normalize, WriteBatch
      <3>2. DOMAIN made \subseteq Columns
        BY BatchType DEF TypeOK
      <3>3. ASSUME NEW cell \in Cells(b) PROVE Normal(b, cell) \in Kinds
        <4>1. phase[b] = "coerce"
          BY <2>2 DEF Step, Begin, DuckEnsure, ReadTable, CreateTable, UpdateTable, Pull,
             Exhausted, Evolve, Normalize, WriteBatch
        <4>2. cell[2] \in DOMAIN schema[b]
          BY <4>1, CellType DEF KnownInv
        <4> QED  BY <4>2, NormalType
      <3>4. \A c \in DOMAIN made : made[c] \subseteq Kinds
        BY <3>3
      <3> HIDE DEF made
      <3> QED  BY <3>1, <3>2, <3>4 DEF TypeOK
    <2> QED  BY <2>1, <2>2
  <1>6. loaded' \in [Build -> Nat]
    <2>1. loaded' = loaded \/ loaded' = [loaded EXCEPT ![b] = @ + 1]
      BY DEF Step, Begin, DuckEnsure, ReadTable, CreateTable, UpdateTable, Pull, Exhausted,
         Evolve, Normalize, WriteBatch, BigQueryLoads, DuckDBInserts, Written
    <2>2. loaded \in [Build -> Nat]
      BY DEF TypeOK
    <2> QED  BY <2>1, <2>2
  <1>7. /\ reported' \in [Build -> SUBSET (Columns \X {"new_column", "type_mismatch", "missing_column"})]
        /\ lost' \in [Build -> SUBSET Columns]
    <2> DEFINE Reports == SUBSET (Columns \X {"new_column", "type_mismatch", "missing_column"})
    <2>1. schema[b] \in Schema /\ ColumnsOf(batch[b]) \subseteq Columns
      BY BatchType DEF TypeOK
    <2>2. CASE UNCHANGED <<reported, lost>>
      BY <2>2 DEF TypeOK
    <2>3. CASE Evolve(b)
      <3> DEFINE new == {<<c, "new_column">> : c \in ColumnsOf(batch[b]) \ DOMAIN schema[b]}
      <3>1. new \in Reports
        BY <2>1
      <3>2. UNCHANGED lost /\ reported' = [reported EXCEPT ![b] = @ \cup new]
        BY <2>3 DEF Evolve
      <3> HIDE DEF new
      <3> QED  BY <3>1, <3>2 DEF TypeOK
    <2>4. CASE Normalize(b)
      <3>1. Drift(b) \in Reports
        BY <2>1, CellType, SchemaIs DEF Drift, Drifted
      <3>2. {cell[2] : cell \in Nulled(b)} \in SUBSET Columns
        BY CellType DEF Nulled
      <3>3. /\ reported' = reported \/ reported' = [reported EXCEPT ![b] = @ \cup Drift(b)]
            /\ lost' = lost \/ lost' = [lost EXCEPT ![b] = @ \cup {cell[2] : cell \in Nulled(b)}]
        BY <2>4 DEF Normalize
      <3>4. reported \in [Build -> Reports] /\ lost \in [Build -> SUBSET Columns]
        BY DEF TypeOK
      <3>5. reported' \in [Build -> Reports]
        <4> DEFINE drift == Drift(b)
        <4>1. drift \in Reports
          BY <3>1
        <4> HIDE DEF drift
        <4> QED  BY <4>1, <3>3, <3>4 DEF drift
      <3>6. lost' \in [Build -> SUBSET Columns]
        BY <3>2, <3>3, <3>4
      <3> QED  BY <3>5, <3>6
    <2> QED  BY <2>2, <2>3, <2>4 DEF Step, Begin, DuckEnsure, ReadTable, CreateTable, UpdateTable,
             Pull, Exhausted, WriteBatch
  <1>8. UNCHANGED given
    BY DEF Step, Begin, DuckEnsure, ReadTable, CreateTable, UpdateTable, Pull, Exhausted,
       Evolve, Normalize, WriteBatch
  <1> QED  BY <1>1, <1>2, <1>3, <1>4, <1>5, <1>6, <1>7, <1>8 DEF TypeOK, given

\* A step of one build changes nothing that another one keeps.
LEMMA Alone ==
    ASSUME TypeOK, NEW b \in Build, Step(b), NEW x \in Build, x # b
    PROVE  /\ phase'[x] = phase[x] /\ schema'[x] = schema[x] /\ copy'[x] = copy[x]
           /\ batch'[x] = batch[x] /\ normal'[x] = normal[x] /\ loaded'[x] = loaded[x]
           /\ reported'[x] = reported[x] /\ lost'[x] = lost[x] /\ reason'[x] = reason[x]
           /\ x \in found' <=> x \in found
  <1>1. CASE Begin(b)
    <2>1. /\ \E p \in {"failed", "ensure"} : phase' = [phase EXCEPT ![b] = p]
          /\ reason' = reason \/ \E why \in {"configuration", "strict"} : reason' = [reason EXCEPT ![b] = why]
          /\ \E bt \in Batches : batch' = [batch EXCEPT ![b] = bt]
      BY <1>1 DEF Begin, Goto, Fail
    <2>2. /\ schema' = schema \/ \E s : schema' = [schema EXCEPT ![b] = s]
          /\ found' \in {found, found \cup {b}}
          /\ UNCHANGED <<copy, normal, loaded, reported, lost>>
      BY <1>1 DEF Begin
    <2> QED  BY <2>1, <2>2 DEF TypeOK
  <1> USE DEF TypeOK, Goto, Fail
  <1>2. CASE DuckEnsure(b) \/ ReadTable(b)
    BY <1>2 DEF DuckEnsure, ReadTable
  <1>3. CASE CreateTable(b) \/ UpdateTable(b)
    BY <1>3 DEF CreateTable, UpdateTable
  <1>4. CASE Pull(b) \/ Exhausted(b) \/ Evolve(b)
    BY <1>4 DEF Pull, Exhausted, Evolve
  <1>5. CASE Normalize(b)
    BY <1>5 DEF Normalize
  <1>6. CASE WriteBatch(b)
    BY <1>6 DEF WriteBatch, BigQueryLoads, DuckDBInserts, Written
  <1> QED  BY <1>1, <1>2, <1>3, <1>4, <1>5, <1>6 DEF Step

Goes(b, from, to) == phase[b] = from /\ phase'[b] \in to

\* The way of a build, step by step.
LEMMA Flow ==
    ASSUME TypeOK, NEW b \in Build, Step(b)
    PROVE  \/ Begin(b) /\ Goes(b, "idle", {"ensure", "failed"})
           \/ DuckEnsure(b) /\ (Goes(b, "ensure", {"began"}) \/ Goes(b, "evolve", {"coerce"}))
           \/ ReadTable(b) /\ (\/ Goes(b, "ensure", {"began", "ensure-patch", "failed"})
                               \/ Goes(b, "evolve", {"coerce", "evolve-patch", "failed"})
                               \/ Goes(b, "target", {"write", "target-patch"}))
           \/ CreateTable(b) /\ (\/ Goes(b, "ensure-patch", {"began"})
                                 \/ Goes(b, "evolve-patch", {"coerce"})
                                 \/ Goes(b, "target-patch", {"write"}))
           \/ UpdateTable(b) /\ (\/ Goes(b, "ensure-patch", {"began", "failed"})
                                 \/ Goes(b, "evolve-patch", {"coerce", "failed"})
                                 \/ Goes(b, "target-patch", {"write", "failed"}))
           \/ Pull(b) /\ Goes(b, "pull", {"began"})
           \/ Exhausted(b) /\ Goes(b, "pull", {"done"})
           \/ Evolve(b) /\ Goes(b, "began", {"evolve", "coerce"})
           \/ Normalize(b) /\ Goes(b, "coerce", {"target", "write", "failed"})
           \/ WriteBatch(b) /\ Goes(b, "write", {"pull", "failed"})
  <1>0. phase \in [Build -> Phases]
    BY DEF TypeOK
  <1> USE Ways, <1>0 DEF Goes, Goto, Fail
  <1>1. CASE Begin(b)
    BY <1>1 DEF Begin
  <1>2. CASE DuckEnsure(b)
    BY <1>2 DEF DuckEnsure
  <1>3. CASE ReadTable(b)
    BY <1>3 DEF ReadTable
  <1>4. CASE CreateTable(b)
    BY <1>4 DEF CreateTable
  <1>5. CASE UpdateTable(b)
    BY <1>5 DEF UpdateTable
  <1>6. CASE Pull(b) \/ Exhausted(b) \/ Evolve(b)
    BY <1>6 DEF Pull, Exhausted, Evolve
  <1>7. CASE Normalize(b)
    BY <1>7 DEF Normalize
  <1>8. CASE WriteBatch(b)
    BY <1>8 DEF WriteBatch, BigQueryLoads, DuckDBInserts, Written
  <1> QED  BY <1>1, <1>2, <1>3, <1>4, <1>5, <1>6, <1>7, <1>8 DEF Step

\* What evolving a schema does to it.
LEMMA Evolved ==
    ASSUME TypeOK, NEW b \in Build, Evolve(b)
    PROVE  /\ schema'[b] \in Schema
           /\ DOMAIN schema'[b] = DOMAIN schema[b] \cup ColumnsOf(batch[b])
           /\ \A c \in DOMAIN schema[b] : schema'[b][c] = schema[b][c]
           /\ UNCHANGED <<given, table, copy, batch, normal, loaded, lost, found, reason>>
  <1> DEFINE new == ColumnsOf(batch[b]) \ DOMAIN schema[b]
  <1>1. InferFrom(batch[b], new) \in Schema /\ DOMAIN InferFrom(batch[b], new) = new
    <2>1. batch[b] \in Batches \cup {<<>>}
      BY DEF TypeOK
    <2> QED  BY <2>1, InferFromType
  <1>2. schema'[b] = Joined(schema[b], InferFrom(batch[b], new))
    BY DEF Evolve, TypeOK
  <1>3. schema'[b] \in Schema
    <2>1. schema[b] \in Schema
      BY DEF TypeOK
    <2> QED  BY <1>1, <1>2, <2>1, JoinedType
  <1>4. UNCHANGED <<given, table, copy, batch, normal, loaded, lost, found, reason>>
    BY DEF Evolve, Goto
  <1>5. /\ DOMAIN schema'[b] = DOMAIN schema[b] \cup new
        /\ \A c \in DOMAIN schema[b] : schema'[b][c] = schema[b][c]
    <2> DEFINE old == schema[b]
               more == InferFrom(batch[b], new)
    <2> HIDE DEF old, more
    <2>1. /\ DOMAIN Joined(old, more) = DOMAIN old \cup DOMAIN more
          /\ \A c \in DOMAIN old : Joined(old, more)[c] = old[c]
      BY JoinedFrom
    <2> QED  BY <1>1, <1>2, <2>1 DEF old, more
  <1> QED  BY <1>3, <1>4, <1>5

\* KnownInv holds after the steps that bring a build into one of its phases.
LEMMA StepKnown ==
    ASSUME TypeOK, KnownInv, NEW b \in Build, Step(b)
    PROVE  KnownInv'
  <1> DEFINE Known == {"evolve", "evolve-patch", "coerce", "target", "target-patch", "write"}
  <1>1. SUFFICES ASSUME phase'[b] \in Known
                 PROVE  ColumnsOf(batch'[b]) \subseteq DOMAIN schema'[b]
    BY Alone DEF KnownInv
  <1>2. CASE Evolve(b)
    BY <1>2, Evolved
  <1>3. CASE phase[b] \in Known /\ UNCHANGED <<schema, batch>>
    BY <1>3 DEF KnownInv
  <1>4. Evolve(b) \/ (phase[b] \in Known /\ UNCHANGED <<schema, batch>>)
    BY <1>1, Flow DEF Goes, DuckEnsure, ReadTable, CreateTable, UpdateTable, Normalize, WriteBatch
  <1> QED  BY <1>2, <1>3, <1>4

\* No batch yet.
LEMMA InitKnown == Init => KnownInv
  BY DEF Init, KnownInv

\* Every step keeps TypeOK and KnownInv.
LEMMA NextTyping == TypeOK /\ KnownInv /\ [Next]_vars => TypeOK' /\ KnownInv'
  <1>1. ASSUME TypeOK, KnownInv, UNCHANGED vars PROVE TypeOK' /\ KnownInv'
    BY <1>1 DEF TypeOK, KnownInv, vars, given, builds
  <1> QED  BY <1>1, StepType, StepKnown DEF Next, Over

(* Every variable keeps its type; in particular every column of a schema or a *)
(* table has one of the canonical types, however it came into it.             *)
THEOREM SchemaTyping == Spec => []TypeOK
  BY InitType, InitKnown, NextTyping, PTL DEF Spec
-----------------------------------------------------------------------------
(* The table                                                                  *)

\* All the columns of one table are in another, with their types.
Within(t, u) == \A c \in DOMAIN t.cols : c \in DOMAIN u.cols /\ u.cols[c] = t.cols[c]

(* DuckDB: one stream at a time, whose table has had what it was given back   *)
(* when it fails, and everything it writes.                                   *)
DuckInv ==
    dest = "duckdb" =>
        /\ \A a, b \in Active : a = b
        /\ \A b \in Build :
              /\ phase[b] \notin {"ensure-patch", "evolve-patch", "target", "target-patch"}
              /\ phase[b] \in {"began", "evolve", "coerce", "write", "pull"}
                    => table.exists /\ copy[b].exists /\ Within(copy[b], table)
              /\ phase[b] \in {"began", "coerce", "write", "pull"}
                    => DOMAIN schema[b] \subseteq DOMAIN table.cols
              /\ phase[b] = "write" => DOMAIN normal[b] \subseteq DOMAIN schema[b]

(* BigQuery: a table that is there stays, and has what is written to it.      *)
BigInv ==
    dest = "bigquery" =>
        \A b \in Build :
            /\ phase[b] \in {"began", "evolve", "evolve-patch", "coerce", "target", "target-patch",
                             "write", "pull"} => table.exists
            /\ phase[b] \in {"evolve-patch", "target-patch"} => copy[b].exists
            /\ phase[b] = "write" => DOMAIN schema[b] \subseteq DOMAIN table.cols

TableInv == (~table.exists => DOMAIN table.cols = {}) /\ DuckInv /\ BigInv

\* No table yet.
LEMMA InitTable == Init => TableInv
  BY NoColumns DEF Init, TableInv, DuckInv, BigInv, Absent, Active

\* A table that is created where there was none, or grows, keeps its columns.
LEMMA GrowthKeeps ==
    ASSUME TypeOK, NEW b \in Build, NEW t \in Tables
    PROVE  /\ Within(t, Grown(b, t)) /\ DOMAIN schema[b] \subseteq DOMAIN Grown(b, t).cols
           /\ DOMAIN New(b).cols = DOMAIN schema[b] /\ New(b).exists
           /\ [New(b) EXCEPT !.partition = "none"].exists
           /\ [New(b) EXCEPT !.partition = "none"].cols = schema[b]
  <1> DEFINE old == t.cols
             more == schema[b]
  <1>1. Grown(b, t).cols = Joined(old, more)
    BY GrownType
  <1>2. /\ DOMAIN Joined(old, more) = DOMAIN old \cup DOMAIN more
        /\ \A c \in DOMAIN old : Joined(old, more)[c] = old[c]
    <2> HIDE DEF old, more
    <2> QED  BY JoinedFrom
  <1> QED  BY <1>1, <1>2 DEF Within, New

\* What the steps make of the table.
LEMMA TableMoves ==
    ASSUME TypeOK, TableInv, NEW b \in Build, Step(b)
    PROVE  \/ table' = table
           \/ Within(table, table') /\ table'.exists
           \/ /\ dest = "duckdb" /\ phase[b] \in {"coerce", "write"}
              /\ phase'[b] = "failed" /\ table' = copy[b]
  <1>0. table \in Tables /\ copy[b] \in Tables
    BY DEF TypeOK
  <1>1. CASE Begin(b)
    BY <1>1 DEF Begin, Fail
  <1>2. CASE DuckEnsure(b)
    <2>1. CASE table.exists
      <3>1. Within(table, Grown(b, table)) /\ Grown(b, table).exists = table.exists
        BY <1>0, GrowthKeeps, GrownType
      <3> QED  BY <1>2, <2>1, <3>1 DEF DuckEnsure
    <2>2. CASE ~table.exists
      BY <1>0, <1>2, <2>2, GrowthKeeps DEF DuckEnsure, TableInv, Within
    <2> QED  BY <2>1, <2>2
  <1>3. CASE ReadTable(b)
    BY <1>3 DEF ReadTable, Fail
  <1>4. CASE CreateTable(b)
    BY <1>0, <1>4, GrowthKeeps DEF CreateTable, TableInv, Within
  <1>5. CASE UpdateTable(b)
    <2>1. CASE table' = Grown(b, copy[b]) /\ copy[b] = table /\ copy[b].exists
      <3>1. Within(copy[b], Grown(b, copy[b])) /\ Grown(b, copy[b]).exists = copy[b].exists
        BY <1>0, GrowthKeeps, GrownType
      <3> QED  BY <2>1, <3>1
    <2>2. dest = "bigquery"
      <3>1. phase[b] \in {"ensure-patch", "evolve-patch", "target-patch"}
        BY <1>5, Ways DEF UpdateTable
      <3> QED  BY <3>1 DEF TableInv, DuckInv, TypeOK
    <2> QED  BY <1>5, <2>1, <2>2 DEF UpdateTable, Fail
  <1>6. CASE Pull(b) \/ Exhausted(b) \/ Evolve(b)
    BY <1>6 DEF Pull, Exhausted, Evolve
  <1>7. CASE Normalize(b)
    BY <1>7 DEF Normalize, Fail, TypeOK
  <1>8. CASE WriteBatch(b)
    BY <1>8 DEF WriteBatch, BigQueryLoads, DuckDBInserts, Written, Fail, TypeOK
  <1> QED  BY <1>1, <1>2, <1>3, <1>4, <1>5, <1>6, <1>7, <1>8 DEF Step

(* The table only grows, or is given back as it was (schemas of any number of *)
(* builds, interleaved in any way).                                           *)
LEMMA StepGrows ==
    ASSUME TypeOK, TableInv, NEW b \in Build, Step(b)
    PROVE  Grows
  <1>1. CASE table' = table \/ Within(table, table')
    BY <1>1 DEF Grows, Within
  <1>2. CASE /\ dest = "duckdb" /\ phase[b] \in {"coerce", "write"}
             /\ phase'[b] = "failed" /\ table' = copy[b]
    <2>1. b \in Active /\ Within(copy[b], table)
      BY <1>2 DEF Active, TableInv, DuckInv
    <2> QED  BY <1>2, <2>1 DEF Grows, Within, RolledBack
  <1> QED  BY <1>1, <1>2, TableMoves

\* On DuckDB the one active build is the one that steps.
LEMMA StepDuck ==
    ASSUME TypeOK, KnownInv, TableInv, NEW b \in Build, Step(b)
    PROVE  DuckInv'
  <1> SUFFICES ASSUME dest' = "duckdb" PROVE DuckInv'
    BY DEF DuckInv
  <1>1. dest = "duckdb"
    BY DEF Step, Begin, DuckEnsure, ReadTable, CreateTable, UpdateTable, Pull, Exhausted, Evolve,
           Normalize, WriteBatch, given
  <1>2. /\ \A a, x \in Active : a = x
        /\ phase[b] \notin {"ensure-patch", "evolve-patch", "target", "target-patch"}
        /\ phase[b] \in {"began", "evolve", "coerce", "write", "pull"}
              => table.exists /\ copy[b].exists /\ Within(copy[b], table)
        /\ phase[b] \in {"began", "coerce", "write", "pull"}
              => DOMAIN schema[b] \subseteq DOMAIN table.cols
        /\ phase[b] = "write" => DOMAIN normal[b] \subseteq DOMAIN schema[b]
    BY <1>1 DEF TableInv, DuckInv
  <1>3. /\ phase[b] = "idle" => Active = {}
        /\ phase[b] # "idle" => b \in Active
    <2>1. phase[b] = "idle" => Begin(b)
      BY Flow DEF Goes
    <2>2. phase[b] \notin {"done", "failed"}
      BY Flow DEF Goes
    <2> QED  BY <1>1, <2>1, <2>2 DEF Begin, Active
  <1>4. \A x \in Build : x # b => x \notin Active
    BY <1>2, <1>3 DEF Active
  <1>5. \A x \in Build : x # b => phase'[x] \in {"idle", "done", "failed"}
    BY <1>4, Alone DEF Active
  <1>6. Active' \subseteq {b}
    BY <1>5 DEF Active
  <1>7. SUFFICES /\ phase'[b] \notin {"ensure-patch", "evolve-patch", "target", "target-patch"}
                 /\ phase'[b] \in {"began", "evolve", "coerce", "write", "pull"}
                       => table'.exists /\ copy'[b].exists /\ Within(copy'[b], table')
                 /\ phase'[b] \in {"began", "coerce", "write", "pull"}
                       => DOMAIN schema'[b] \subseteq DOMAIN table'.cols
                 /\ phase'[b] = "write" => DOMAIN normal'[b] \subseteq DOMAIN schema'[b]
    BY <1>5, <1>6 DEF DuckInv, Within
  <1> DEFINE Goal == /\ phase'[b] \notin {"ensure-patch", "evolve-patch", "target", "target-patch"}
                     /\ phase'[b] \in {"began", "evolve", "coerce", "write", "pull"}
                           => table'.exists /\ copy'[b].exists /\ Within(copy'[b], table')
                     /\ phase'[b] \in {"began", "coerce", "write", "pull"}
                           => DOMAIN schema'[b] \subseteq DOMAIN table'.cols
                     /\ phase'[b] = "write" => DOMAIN normal'[b] \subseteq DOMAIN schema'[b]
  <1>8. ~ReadTable(b) /\ ~CreateTable(b) /\ ~UpdateTable(b)
    BY <1>1, <1>2, Flow, Ways DEF ReadTable, CreateTable, UpdateTable
  <1>9. CASE Begin(b)
    BY <1>9, Flow DEF Goes, Begin
  <1>10. CASE DuckEnsure(b)
    <2>1. table \in Tables
      BY DEF TypeOK
    <2>2. DOMAIN schema[b] \subseteq DOMAIN table'.cols /\ table'.exists
      BY <1>10, <2>1, GrowthKeeps, GrownType DEF DuckEnsure
    <2>3. UNCHANGED schema
      BY <1>10 DEF DuckEnsure
    <2>4. CASE phase[b] = "ensure" /\ phase'[b] = "began"
      <3>1. copy'[b] = table'
        BY <1>10, <2>4 DEF DuckEnsure, TypeOK
      <3> QED  BY <2>2, <2>3, <2>4, <3>1 DEF Within
    <2>5. CASE phase[b] = "evolve" /\ phase'[b] = "coerce"
      <3>1. copy' = copy /\ table' = Grown(b, table)
        BY <1>2, <1>10, <2>5 DEF DuckEnsure
      <3>2. Within(table, table') /\ Within(copy[b], table)
        BY <1>2, <2>1, <2>5, <3>1, GrowthKeeps
      <3> QED  BY <1>2, <2>2, <2>3, <2>5, <3>1, <3>2 DEF Within
    <2> QED  BY <1>10, <2>4, <2>5, Ways DEF DuckEnsure, Goto, TypeOK
  <1>11. CASE Evolve(b)
    <2>1. UNCHANGED <<table, copy, normal>> /\ phase[b] = "began"
      BY <1>11 DEF Evolve
    <2>2. phase'[b] = "coerce" => ColumnsOf(batch[b]) \subseteq DOMAIN schema[b]
      BY <1>11 DEF Evolve, Goto, TypeOK
    <2>3. phase'[b] \in {"coerce", "evolve"}
      BY <1>11 DEF Evolve, Goto, TypeOK
    <2> QED  BY <1>2, <1>11, <2>1, <2>2, <2>3, Evolved
  <1>12. CASE Normalize(b)
    <2>1. CASE phase'[b] = "failed"
      BY <2>1
    <2>2. CASE phase'[b] # "failed"
      <3>1. /\ normal' = [normal EXCEPT ![b] = [c \in ColumnsOf(batch[b]) |->
                              {Normal(b, cell) : cell \in {x \in Cells(b) : x[2] = c}}]]
            /\ UNCHANGED <<table, schema, copy>> /\ phase'[b] = "write" /\ phase[b] = "coerce"
        BY <1>1, <1>12, <2>2 DEF Normalize, Fail, Goto, TypeOK
      <3>2. DOMAIN normal'[b] = ColumnsOf(batch[b])
        BY <3>1 DEF TypeOK
      <3> QED  BY <1>2, <3>1, <3>2 DEF KnownInv
    <2> QED  BY <2>1, <2>2
  <1>13. CASE Pull(b) \/ Exhausted(b)
    BY <1>2, <1>13 DEF Pull, Exhausted, Goto, TypeOK
  <1>14. CASE WriteBatch(b)
    <2>1. phase'[b] = "failed" \/ (phase'[b] = "pull" /\ UNCHANGED table)
      BY <1>14 DEF WriteBatch, BigQueryLoads, DuckDBInserts, Written, Goto, Fail, TypeOK
    <2>2. UNCHANGED <<schema, copy>> /\ phase[b] = "write"
      BY <1>14 DEF WriteBatch
    <2> QED  BY <1>2, <2>1, <2>2
  <1> QED  BY <1>8, <1>9, <1>10, <1>11, <1>12, <1>13, <1>14 DEF Step

\* On BigQuery the other builds only see the table grow.
LEMMA StepBig ==
    ASSUME TypeOK, TableInv, NEW b \in Build, Step(b)
    PROVE  BigInv'
  <1> SUFFICES ASSUME dest' = "bigquery" PROVE BigInv'
    BY DEF BigInv
  <1>1. dest = "bigquery"
    BY DEF Step, Begin, DuckEnsure, ReadTable, CreateTable, UpdateTable, Pull, Exhausted, Evolve,
           Normalize, WriteBatch, given
  <1>2. \A x \in Build :
            /\ phase[x] \in {"began", "evolve", "evolve-patch", "coerce", "target", "target-patch",
                             "write", "pull"} => table.exists
            /\ phase[x] \in {"evolve-patch", "target-patch"} => copy[x].exists
            /\ phase[x] = "write" => DOMAIN schema[x] \subseteq DOMAIN table.cols
    BY <1>1 DEF TableInv, BigInv
  <1>3. table' = table \/ (Within(table, table') /\ table'.exists)
    BY <1>1, TableMoves
  <1>4. (table.exists => table'.exists) /\ DOMAIN table.cols \subseteq DOMAIN table'.cols
    BY <1>3 DEF Within
  <1>5. ASSUME NEW x \in Build, x # b
        PROVE  /\ phase'[x] \in {"began", "evolve", "evolve-patch", "coerce", "target",
                                 "target-patch", "write", "pull"} => table'.exists
               /\ phase'[x] \in {"evolve-patch", "target-patch"} => copy'[x].exists
               /\ phase'[x] = "write" => DOMAIN schema'[x] \subseteq DOMAIN table'.cols
    BY <1>2, <1>4, <1>5, Alone
  <1>6. phase'[b] \in {"began", "evolve", "evolve-patch", "coerce", "target", "target-patch",
                       "write", "pull"} => table'.exists
    <2>1. CASE phase[b] \in {"began", "evolve", "evolve-patch", "coerce", "target", "target-patch",
                             "write", "pull"}
      BY <1>2, <1>4, <2>1
    <2>2. CASE ReadTable(b) /\ phase[b] = "ensure" /\ phase'[b] = "began"
      <3>1. phase \in [Build -> Phases]
        BY DEF TypeOK
      <3>2. Patching[phase[b]] = "ensure-patch"
        BY <2>2, Ways
      <3>3. ~Fail(b, "partition")
        BY <2>2, <3>1 DEF Fail
      <3>4. Goto(b, IF ~table.exists \/ Missing(b, table) # {}
                    THEN Patching[phase[b]] ELSE After[phase[b]]) /\ UNCHANGED table
        BY <2>2, <3>3 DEF ReadTable
      <3>5. table.exists
        BY <2>2, <3>1, <3>2, <3>4 DEF Goto
      <3> QED  BY <3>4, <3>5
    <2>3. CASE CreateTable(b)
      BY <2>3, GrowthKeeps DEF CreateTable, TypeOK
    <2>4. CASE UpdateTable(b) /\ phase'[b] # "failed"
      <3>1. table' = Grown(b, table) /\ table.exists
        BY <2>4 DEF UpdateTable, Fail, TypeOK
      <3> QED  BY <1>4, <3>1
    <2> QED  BY <1>1, <2>1, <2>2, <2>3, <2>4, Flow DEF Goes, DuckEnsure
  <1>7. phase'[b] \in {"evolve-patch", "target-patch"} => copy'[b].exists
    <2>1. phase'[b] \in {"evolve-patch", "target-patch"}
              => ReadTable(b) /\ phase[b] \in {"evolve", "target"}
      BY Flow DEF Goes
    <2> QED  BY <1>2, <2>1 DEF ReadTable, TypeOK
  <1>8. phase'[b] = "write" => DOMAIN schema'[b] \subseteq DOMAIN table'.cols
    <2> SUFFICES ASSUME phase'[b] = "write"
                 PROVE  DOMAIN schema'[b] \subseteq DOMAIN table'.cols
      OBVIOUS
    <2>1. CASE ReadTable(b)
      <3>1. phase[b] = "target"
        BY <2>1, Flow DEF ReadTable, Goes
      <3>2. Missing(b, table) = {} /\ UNCHANGED <<table, schema>>
        <4>1. phase \in [Build -> Phases]
          BY DEF TypeOK
        <4>2. Patching[phase[b]] = "target-patch"
          BY <3>1, Ways
        <4>3. Goto(b, IF ~table.exists \/ Missing(b, table) # {}
                      THEN Patching[phase[b]] ELSE After[phase[b]]) /\ UNCHANGED <<table, schema>>
          BY <2>1, <3>1 DEF ReadTable
        <4> QED  BY <4>1, <4>2, <4>3 DEF Goto
      <3> QED  BY <3>2 DEF Missing
    <2>2. CASE UpdateTable(b)
      <3>1. table' = Grown(b, table) /\ UNCHANGED schema
        BY <2>2 DEF UpdateTable, Fail, TypeOK
      <3> QED  BY <3>1, GrowthKeeps DEF TypeOK
    <2>3. CASE CreateTable(b)
      <3>1. phase[b] = "target-patch" /\ ~copy[b].exists
        BY <2>3, Ways DEF CreateTable, Goto, TypeOK
      <3> QED  BY <1>2, <3>1
    <2>4. CASE Normalize(b)
      BY <1>1, <2>4 DEF Normalize, Goto, Fail, TypeOK
    <2> QED  BY <2>1, <2>2, <2>3, <2>4, Flow DEF Goes
  <1> QED  BY <1>5, <1>6, <1>7, <1>8 DEF BigInv

\* A step keeps TableInv.
LEMMA StepTable ==
    ASSUME TypeOK, KnownInv, TableInv, NEW b \in Build, Step(b)
    PROVE  TableInv'
  <1>1. ~table'.exists => DOMAIN table'.cols = {}
    <2>1. CASE dest = "duckdb" /\ phase[b] \in {"coerce", "write"} /\ table' = copy[b]
      BY <2>1 DEF TableInv, DuckInv
    <2> QED  BY <2>1, TableMoves DEF TableInv
  <1> QED  BY <1>1, StepDuck, StepBig DEF TableInv

\* Every step keeps TableInv.
LEMMA NextTable == TypeOK /\ KnownInv /\ TableInv /\ [Next]_vars => TableInv'
  <1>1. ASSUME TableInv, UNCHANGED vars PROVE TableInv'
    BY <1>1 DEF TableInv, DuckInv, BigInv, Active, Within, vars, given, builds
  <1> QED  BY <1>1, StepTable DEF Next, Over

(* No interleaving of builds, and no stale read, makes a table lose or retype *)
(* a column (bigquery/destination.py: ensure_schema, _ensure_load_target).    *)
THEOREM TablesOnlyGrow == Spec => TableOnlyGrows
  <1>1. TypeOK /\ TableInv /\ [Next]_vars => [Grows]_vars
    BY StepGrows DEF Next, Over
  <1> QED
    BY <1>1, InitType, InitKnown, InitTable, NextTyping, NextTable, PTL DEF Spec, TableOnlyGrows

\* A write never comes without its columns.
LEMMA StepColumns ==
    ASSUME TypeOK, TableInv, NoUnknownColumn, NEW b \in Build, Step(b)
    PROVE  NoUnknownColumn'
  <1>1. SUFFICES ASSUME reason'[b] = "unknown column", reason[b] # "unknown column" PROVE FALSE
    BY Alone DEF NoUnknownColumn
  <1>2. WriteBatch(b)
    BY <1>1 DEF Step, Begin, DuckEnsure, ReadTable, CreateTable, UpdateTable, Pull, Exhausted,
       Evolve, Normalize, Goto, Fail, TypeOK
  <1>3. CASE dest = "bigquery"
    <2>1. DOMAIN schema[b] \subseteq DOMAIN table.cols
      BY <1>2, <1>3 DEF WriteBatch, TableInv, BigInv
    <2> QED  BY <1>1, <1>2, <1>3, <2>1 DEF WriteBatch, BigQueryLoads, Written, Goto, Fail, TypeOK
  <1>4. CASE dest = "duckdb"
    <2>1. DOMAIN normal[b] \subseteq DOMAIN table.cols
      BY <1>2, <1>4 DEF WriteBatch, TableInv, DuckInv
    <2> QED  BY <1>1, <1>2, <1>4, <2>1 DEF WriteBatch, DuckDBInserts, Written, Goto, Fail, TypeOK
  <1> QED  BY <1>3, <1>4 DEF TypeOK

(* A build writes to no column its table lacks, though another build may have *)
(* created the table under its hands, and columns appear in any batch.        *)
THEOREM ColumnsAreThere == Spec => []NoUnknownColumn
  <1>1. Init => NoUnknownColumn
    BY DEF Init, NoUnknownColumn
  <1>2. TypeOK /\ TableInv /\ NoUnknownColumn /\ [Next]_vars => NoUnknownColumn'
    BY StepColumns DEF Next, Over, NoUnknownColumn, vars, builds
  <1> QED
    BY <1>1, <1>2, InitType, InitKnown, InitTable, NextTyping, NextTable, PTL DEF Spec
-----------------------------------------------------------------------------
(* What is declared, and what is lost                                         *)
GivenCols == Joined(declared, configured)

\* Columns that say nothing else of the given ones.
Agrees(fixed, cols) == \A c \in DOMAIN fixed \cap DOMAIN cols : cols[c] = fixed[c]

AgreeInv ==
    /\ Agrees(GivenCols, table.cols)
    /\ \A b \in Build : /\ Agrees(GivenCols, schema[b]) /\ Agrees(GivenCols, copy[b].cols)
                        /\ phase[b] \notin {"idle", "failed"}
                              => DOMAIN GivenCols \subseteq DOMAIN schema[b]

\* No columns yet.
LEMMA InitAgree == Init => AgreeInv
  BY NoColumns DEF Init, AgreeInv, Agrees, Absent

\* What agrees with the given columns joins to what does.
LEMMA AgreeingJoin ==
    ASSUME NEW fixed, NEW f, NEW g, Agrees(fixed, f), Agrees(fixed, g)
    PROVE  Agrees(fixed, Joined(f, g))
  <1>1. /\ DOMAIN Joined(f, g) = DOMAIN f \cup DOMAIN g
        /\ \A x \in DOMAIN f : Joined(f, g)[x] = f[x]
        /\ \A x \in DOMAIN g \ DOMAIN f : Joined(f, g)[x] = g[x]
    BY JoinedFrom
  <1> QED  BY <1>1 DEF Agrees

\* The schema a build starts from has the given columns, as they are given.
LEMMA ResolvedAgrees ==
    ASSUME TypeOK, NEW bt \in Batches
    PROVE  Agrees(GivenCols, Resolved(bt)) /\ DOMAIN GivenCols \subseteq DOMAIN Resolved(bt)
  <1>1. CASE declared # <<>>
    BY <1>1 DEF Resolved, GivenCols, Agrees
  <1>2. CASE declared = <<>>
    <2> DEFINE g == configured
               h == InferFrom(bt, ColumnsOf(bt))
    <2>1. Resolved(bt) = Joined(g, h)
      BY <1>2 DEF Resolved
    <2>2. DOMAIN GivenCols = DOMAIN g /\ \A c \in DOMAIN g : GivenCols[c] = g[c]
      BY <1>2, NoColumns DEF GivenCols, Joined
    <2>3. DOMAIN Joined(g, h) = DOMAIN g \cup DOMAIN h /\ \A c \in DOMAIN g : Joined(g, h)[c] = g[c]
      <3> HIDE DEF g, h
      <3> QED  BY JoinedFrom
    <2> HIDE DEF g, h
    <2> QED  BY <2>1, <2>2, <2>3 DEF Agrees
  <1> QED  BY <1>1, <1>2

\* Schemas and tables are only made of each other.
LEMMA StepAgree ==
    ASSUME TypeOK, TableInv, AgreeInv, NEW b \in Build, Step(b)
    PROVE  AgreeInv'
  <1>1. GivenCols' = GivenCols
    <2>1. UNCHANGED <<declared, configured>>
      BY DEF Step, Begin, DuckEnsure, ReadTable, CreateTable, UpdateTable, Pull, Exhausted,
         Evolve, Normalize, WriteBatch, given
    <2> QED  BY <2>1 DEF GivenCols
  <1>2. /\ Agrees(GivenCols, table.cols) /\ Agrees(GivenCols, schema[b])
        /\ Agrees(GivenCols, copy[b].cols)
        /\ phase[b] \notin {"idle", "failed"} => DOMAIN GivenCols \subseteq DOMAIN schema[b]
    BY DEF AgreeInv
  <1>3. /\ Agrees(GivenCols, schema'[b])
        /\ phase'[b] \notin {"idle", "failed"} => DOMAIN GivenCols \subseteq DOMAIN schema'[b]
    <2>1. CASE Begin(b)
      <3>1. PICK bt \in Batches : \/ UNCHANGED schema /\ (Fail(b, "configuration") \/ Fail(b, "strict"))
                                  \/ schema' = [schema EXCEPT ![b] = Resolved(bt)]
        BY <2>1 DEF Begin
      <3> QED  BY <1>2, <3>1, ResolvedAgrees DEF TypeOK, Fail
    <2>2. CASE Evolve(b)
      <3>1. phase[b] = "began"
        BY <2>2 DEF Evolve
      <3>2. DOMAIN GivenCols \subseteq DOMAIN schema[b]
        BY <1>2, <3>1
      <3> QED  BY <1>2, <2>2, <3>2, Evolved DEF Agrees
    <2>3. CASE ~Begin(b) /\ ~Evolve(b)
      <3>1. schema' = schema
        BY <2>3 DEF Step, DuckEnsure, ReadTable, CreateTable, UpdateTable, Pull, Exhausted,
           Normalize, WriteBatch
      <3>2. phase[b] \notin {"idle", "failed"}
        BY <2>3, Flow DEF Goes
      <3> QED  BY <1>2, <3>1, <3>2
    <2> QED  BY <2>1, <2>2, <2>3
  <1>4. Agrees(GivenCols, Joined(table.cols, schema[b]))
    <2> DEFINE fixed == GivenCols
               f == table.cols
               g == schema[b]
    <2>1. Agrees(fixed, f) /\ Agrees(fixed, g)
      BY <1>2
    <2> HIDE DEF fixed, f, g
    <2>2. Agrees(fixed, Joined(f, g))
      BY <2>1, AgreeingJoin
    <2> QED  BY <2>2 DEF fixed, f, g
  <1>5. /\ table' \in {table, copy[b], Grown(b, table), New(b), [New(b) EXCEPT !.partition = "none"]}
        /\ copy'[b] \in {copy[b], table, table'}
    <2> USE DEF TypeOK, Fail
    <2>1. CASE Begin(b) \/ Pull(b) \/ Exhausted(b) \/ Evolve(b)
      BY <2>1 DEF Begin, Pull, Exhausted, Evolve
    <2>2. CASE DuckEnsure(b) \/ ReadTable(b)
      BY <2>2 DEF DuckEnsure, ReadTable
    <2>3. CASE CreateTable(b) \/ UpdateTable(b)
      BY <2>3 DEF CreateTable, UpdateTable
    <2>4. CASE Normalize(b)
      BY <2>4 DEF Normalize
    <2>5. CASE WriteBatch(b)
      BY <2>5 DEF WriteBatch, BigQueryLoads, DuckDBInserts, Written
    <2> QED  BY <2>1, <2>2, <2>3, <2>4, <2>5 DEF Step
  <1>6. Agrees(GivenCols, table'.cols) /\ Agrees(GivenCols, copy'[b].cols)
    <2>1. table \in Tables
      BY DEF TypeOK
    <2>2. /\ Grown(b, table).cols = Joined(table.cols, schema[b])
          /\ New(b).cols = schema[b] /\ [New(b) EXCEPT !.partition = "none"].cols = schema[b]
      BY <2>1, GrownType, GrowthKeeps DEF New
    <2> QED  BY <1>2, <1>4, <1>5, <2>2
  <1>7. ASSUME NEW x \in Build, x # b
        PROVE  /\ Agrees(GivenCols, schema'[x]) /\ Agrees(GivenCols, copy'[x].cols)
               /\ phase'[x] \notin {"idle", "failed"} => DOMAIN GivenCols \subseteq DOMAIN schema'[x]
    BY <1>7, Alone DEF AgreeInv
  <1> QED  BY <1>1, <1>3, <1>6, <1>7 DEF AgreeInv

(* What the source declares and the config adds is what the table has and     *)
(* every build writes (runner.py: _merge_configured_schema).                  *)
THEOREM DeclaredTypesStay == Spec => []DeclaredTypesHold
  <1>1. TypeOK /\ TableInv /\ AgreeInv /\ [Next]_vars => AgreeInv'
    <2>1. ASSUME AgreeInv, UNCHANGED vars PROVE AgreeInv'
      BY <2>1 DEF AgreeInv, GivenCols, vars, given, builds
    <2> QED  BY <2>1, StepAgree DEF Next, Over
  <1>2. AgreeInv => DeclaredTypesHold
    BY DEF AgreeInv, DeclaredTypesHold, Agrees, GivenCols
  <1> QED
    BY <1>1, <1>2, InitType, InitKnown, InitTable, InitAgree, NextTyping, NextTable, PTL DEF Spec
-----------------------------------------------------------------------------
(* Partitions                                                                 *)

(* Who found a table has it with the partition it asks for from the moment it *)
(* goes on.                                                                   *)
PartInv ==
    \A b \in Build :
        /\ phase[b] \in {"idle", "ensure"} => loaded[b] = 0
        /\ dest = "bigquery" /\ b \in found =>
              /\ table.exists
              /\ phase[b] \notin {"idle", "ensure", "failed"} => table.partition = partition[b]
              /\ loaded[b] > 0 => table.partition = partition[b]

\* Nobody has found a table yet.
LEMMA InitPart == Init => PartInv
  BY DEF Init, PartInv

\* The partition of a BigQuery table never changes once it is there.
LEMMA StepPart ==
    ASSUME TypeOK, TableInv, PartInv, NEW b \in Build, Step(b)
    PROVE  PartInv'
  <1>1. UNCHANGED <<dest, partition>>
    BY DEF Step, Begin, DuckEnsure, ReadTable, CreateTable, UpdateTable, Pull, Exhausted, Evolve,
           Normalize, WriteBatch, given
  <1>2. dest = "bigquery" /\ table.exists => table'.exists /\ table'.partition = table.partition
    <2> SUFFICES ASSUME dest = "bigquery", table.exists
                 PROVE  table'.exists /\ table'.partition = table.partition
      OBVIOUS
    <2>1. table \in Tables
      BY DEF TypeOK
    <2>2. Grown(b, table).partition = table.partition /\ Grown(b, table).exists = table.exists
      BY <2>1, GrownType
    <2>3. table' = table \/ table' = Grown(b, table)
      <3>1. CASE Begin(b) \/ ReadTable(b)
        BY <3>1 DEF Begin, ReadTable, Fail
      <3>2. CASE CreateTable(b) \/ UpdateTable(b)
        BY <3>2 DEF CreateTable, UpdateTable, Fail
      <3>3. CASE Pull(b) \/ Exhausted(b) \/ Evolve(b) \/ Normalize(b)
        BY <3>3 DEF Pull, Exhausted, Evolve, Normalize, Fail
      <3>4. CASE WriteBatch(b)
        BY <3>4 DEF WriteBatch, BigQueryLoads, Written, Fail
      <3> QED  BY <3>1, <3>2, <3>3, <3>4 DEF Step, DuckEnsure
    <2> QED  BY <2>2, <2>3
  <1>3. ASSUME NEW x \in Build, x # b
        PROVE  /\ phase'[x] \in {"idle", "ensure"} => loaded'[x] = 0
               /\ dest = "bigquery" /\ x \in found' =>
                     /\ table'.exists
                     /\ phase'[x] \notin {"idle", "ensure", "failed"}
                           => table'.partition = partition[x]
                     /\ loaded'[x] > 0 => table'.partition = partition[x]
    BY <1>2, <1>3, Alone DEF PartInv
  <1>4. phase'[b] \in {"idle", "ensure"} => loaded'[b] = 0
    <2>1. phase'[b] \in {"idle", "ensure"} => Begin(b) /\ phase[b] = "idle"
      BY Flow DEF Goes
    <2> QED  BY <2>1 DEF PartInv, Begin
  <1>5. ASSUME dest = "bigquery", b \in found'
        PROVE  /\ table'.exists
               /\ phase'[b] \notin {"idle", "ensure", "failed"} => table'.partition = partition[b]
               /\ loaded'[b] > 0 => table'.partition = partition[b]
    <2>1. CASE Begin(b)
      <3>1. phase[b] = "idle" /\ phase'[b] \in {"ensure", "failed"} /\ loaded' = loaded
        BY <2>1, Flow DEF Begin, Goes
      <3>2. loaded'[b] = 0
        BY <3>1 DEF PartInv
      <3>3. table.exists
        BY <1>5, <2>1 DEF Begin, PartInv
      <3> QED  BY <1>2, <1>5, <3>1, <3>2, <3>3
    <2>2. CASE ~Begin(b)
      <3>1. found' = found
        BY <2>2 DEF Step, DuckEnsure, ReadTable, CreateTable, UpdateTable, Pull, Exhausted, Evolve,
               Normalize, WriteBatch
      <3>2. /\ table.exists
            /\ phase[b] \notin {"idle", "ensure", "failed"} => table.partition = partition[b]
            /\ loaded[b] > 0 => table.partition = partition[b]
        BY <1>5, <3>1 DEF PartInv
      <3>3. table'.exists /\ table'.partition = table.partition
        BY <1>2, <1>5, <3>2
      <3>4. CASE phase[b] # "ensure"
        <4>1. phase[b] \notin {"idle", "ensure", "failed"}
          BY <2>2, <3>4, Flow DEF Goes
        <4> QED  BY <3>2, <3>3, <4>1
      <3>5. CASE phase[b] = "ensure"
        <4>1. ReadTable(b)
          BY <1>5, <3>5, Flow DEF Goes, DuckEnsure
        <4>2. loaded' = loaded /\ (Fail(b, "partition") \/ ~Wrong(b))
          BY <3>5, <4>1 DEF ReadTable
        <4>3. Fail(b, "partition") => phase'[b] = "failed"
          BY DEF Fail, TypeOK
        <4> QED  BY <3>2, <3>3, <3>5, <4>2, <4>3 DEF Wrong, PartInv
      <3> QED  BY <3>4, <3>5
    <2> QED  BY <2>1, <2>2
  <1> QED  BY <1>1, <1>3, <1>4, <1>5 DEF PartInv

(* A build never writes to a table it found partitioned in another way than   *)
(* its config asks for (bigquery/destination.py: ensure_schema).              *)
THEOREM PartitionsAreRespected == Spec => []PartitionRespected
  <1>1. TypeOK /\ TableInv /\ PartInv /\ [Next]_vars => PartInv'
    <2>1. ASSUME PartInv, UNCHANGED vars PROVE PartInv'
      BY <2>1 DEF PartInv, vars, given, builds
    <2> QED  BY <2>1, StepPart DEF Next, Over
  <1>2. TypeOK /\ PartInv => PartitionRespected
    BY DEF TypeOK, PartInv, PartitionRespected
  <1> QED
    BY <1>1, <1>2, InitType, InitKnown, InitTable, InitPart, NextTyping, NextTable, PTL DEF Spec
-----------------------------------------------------------------------------
(* Values                                                                     *)

\* Values change, and get lost, in NORMALIZE only.
LEMMA StepValues ==
    ASSUME TypeOK, KnownInv, CanonicalOrNull, LossIsReported, NEW b \in Build, Step(b)
    PROVE  CanonicalOrNull' /\ LossIsReported'
  <1>0. UNCHANGED policy
    BY DEF Step, Begin, DuckEnsure, ReadTable, CreateTable, UpdateTable, Pull, Exhausted, Evolve,
           Normalize, WriteBatch, given
  <1>1. CASE Normalize(b) /\ ~Fail(b, "coercion")
    <2> DEFINE made == [c \in ColumnsOf(batch[b]) |->
                           {Normal(b, cell) : cell \in {x \in Cells(b) : x[2] = c}}]
    <2>1. /\ normal' = [normal EXCEPT ![b] = made] /\ UNCHANGED schema
          /\ reported' = IF policy = "warn" THEN [reported EXCEPT ![b] = @ \cup Drift(b)]
                         ELSE reported
          /\ lost' = [lost EXCEPT ![b] = @ \cup {cell[2] : cell \in Nulled(b)}]
          /\ policy = "fail" => Drifted(b) = {}
          /\ phase[b] = "coerce"
      BY <1>1 DEF Normalize
    <2>2. ASSUME NEW cell \in Cells(b)
          PROVE  /\ Normal(b, cell) \in Canonical[schema[b][cell[2]]] \cup {"null"}
                 /\ cell \in Nulled(b) => cell \in Drifted(b)
      <3>1. cell[2] \in DOMAIN schema[b]
        BY <2>1, CellType DEF KnownInv
      <3> QED  BY <3>1, NormalType DEF TypeOf
    <2>3. CanonicalOrNull'
      <3>1. \A c \in DOMAIN made : made[c] \subseteq Canonical[schema[b][c]] \cup {"null"}
        BY <2>2
      <3>2. normal'[b] = made
        BY <2>1 DEF TypeOK
      <3>3. \A c \in DOMAIN normal'[b] : normal'[b][c] \subseteq Canonical[schema'[b][c]] \cup {"null"}
        BY <2>1, <3>1, <3>2
      <3> QED  BY <3>3, Alone DEF CanonicalOrNull
    <2>4. LossIsReported'
      <3>1. reported \in [Build -> SUBSET (Columns \X {"new_column", "type_mismatch", "missing_column"})]
            /\ lost \in [Build -> SUBSET Columns] /\ policy \in {"warn", "fail"}
        BY DEF TypeOK
      <3>2. ASSUME NEW c \in lost'[b]
            PROVE  policy = "warn" /\ <<c, "type_mismatch">> \in reported'[b]
        <4>1. CASE c \in lost[b]
          BY <2>1, <3>1, <4>1 DEF LossIsReported
        <4>2. CASE c \notin lost[b]
          <5>1. PICK cell \in Nulled(b) : c = cell[2]
            BY <2>1, <3>1, <3>2, <4>2
          <5>2. cell \in Drifted(b)
            BY <2>2 DEF Nulled
          <5>3. <<c, "type_mismatch">> \in Drift(b)
            BY <5>1, <5>2 DEF Drift
          <5> QED  BY <2>1, <3>1, <5>2, <5>3
        <4> QED  BY <4>1, <4>2
      <3> QED  BY <1>0, <3>2, Alone DEF LossIsReported
    <2> QED  BY <2>3, <2>4
  <1>2. CASE ~(Normalize(b) /\ ~Fail(b, "coercion"))
    <2>1. lost' = lost /\ \A x \in Build : reported[x] \subseteq reported'[x]
      <3>1. CASE Normalize(b)
        <4>1. phase'[b] = "failed"
          BY <1>2, <3>1 DEF Fail, TypeOK
        <4>2. UNCHANGED <<reported, lost>>
          BY <3>1, <4>1 DEF Normalize, Goto, TypeOK
        <4> QED  BY <4>2
      <3>2. CASE Evolve(b)
        <4> DEFINE new == {<<c, "new_column">> : c \in ColumnsOf(batch[b]) \ DOMAIN schema[b]}
        <4>1. lost' = lost /\ reported' = [reported EXCEPT ![b] = @ \cup new]
          BY <3>2 DEF Evolve
        <4>2. DOMAIN reported = Build
          BY DEF TypeOK
        <4> HIDE DEF new
        <4> QED  BY <4>1, <4>2
      <3>3. CASE ~Normalize(b) /\ ~Evolve(b)
        BY <3>3 DEF Step, Begin, DuckEnsure, ReadTable, CreateTable, UpdateTable, Pull, Exhausted,
           WriteBatch
      <3> QED  BY <3>1, <3>2, <3>3
    <2>2. phase'[b] \in {"target", "target-patch", "write"}
              => /\ phase[b] \in {"target", "target-patch", "write"}
                 /\ UNCHANGED <<schema, normal>>
      <3>1. Normalize(b) => phase'[b] = "failed"
        BY <1>2 DEF Fail, TypeOK
      <3> QED  BY <3>1, Flow DEF Goes, ReadTable, CreateTable, UpdateTable
    <2>3. CanonicalOrNull'
      BY <2>2, Alone DEF CanonicalOrNull
    <2>4. LossIsReported'
      BY <1>0, <2>1 DEF LossIsReported
    <2> QED  BY <2>3, <2>4
  <1> QED  BY <1>1, <1>2

(* A writer is only handed NULL or values of the column's own type            *)
(* (normalize.py: coerce_value), and a value that becomes NULL because it does*)
(* not fit is in the drift report (runner.py: _DriftReporter).                *)
THEOREM ValuesFitOrAreReported == Spec => []ValuesSurviveOrAreReported
  <1>1. Init => CanonicalOrNull /\ LossIsReported
    BY DEF Init, CanonicalOrNull, LossIsReported
  <1>2. TypeOK /\ KnownInv /\ CanonicalOrNull /\ LossIsReported /\ [Next]_vars
            => CanonicalOrNull' /\ LossIsReported'
    <2>1. ASSUME CanonicalOrNull, LossIsReported, UNCHANGED vars
          PROVE  CanonicalOrNull' /\ LossIsReported'
      BY <2>1 DEF CanonicalOrNull, LossIsReported, vars, given, builds
    <2> QED  BY <2>1, StepValues DEF Next, Over
  <1> QED
    BY <1>1, <1>2, InitType, InitKnown, NextTyping, PTL DEF Spec, ValuesSurviveOrAreReported
=============================================================================
