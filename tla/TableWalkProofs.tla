--------------------------- MODULE TableWalkProofs ---------------------------
(***************************************************************************)
(* Proofs, for every value of the constants, that the table walks of       *)
(* TableWalk step over no row (PassedRowsLanded) and never lose the ground *)
(* of a sweep (SweepKeepsGround), provided that no transaction stamps two  *)
(* rows alike (~Bulk).                                                     *)
(*                                                                         *)
(* PassedRowsLanded speaks of the persisted state.  WalkInv adds what the  *)
(* run under way may persist next: each row up to its position is landed   *)
(* or in the buffer, or was stamped behind the walk, which the lookback    *)
(* spans (SpanInv).                                                        *)
(***************************************************************************)
EXTENDS TableWalk, FiniteSetTheorems, TLAPS

\* The table once the buffer is written.
Have(k) == IF pending[k] # Absent THEN pending[k] ELSE landed[k]

\* Versions only grow, and the buffer is between table and destination.
RowsInv ==
    \A k \in Pk :
        /\ landed[k] <= table[k] /\ table[k] <= newest
        /\ pending[k] # Absent => landed[k] <= pending[k]
                                  /\ pending[k] <= table[k]

\* No two rows carry one stamp.
DistinctInv ==
    \A k, q \in Pk : k # q /\ table[k] = table[q] => table[k] = Absent

AtMost(c, n) == c = None \/ c <= n

\* Nothing the run has seen or persisted is beyond the newest stamp.
BoundInv ==
    /\ began <= newest
    /\ AtMost(cursor, newest) /\ AtMost(prior, newest)
    /\ AtMost(seed, newest) /\ AtMost(observed, newest)
    /\ AtMost(blob.max, newest) /\ AtMost(state.max, newest)

\* What was stamped while a walk is under way is within the lookback.
SpanInv ==
    Suspended \/ (pc # "idle" /\ (walk = "sweep" \/ Lateness > 0))
        => newest + Lateness <= began + Lookback

\* How the places of a run, its generator and its buffer go together.
PlaceInv ==
    /\ walk = "sweep" => at \in Pk \cup {None}
    /\ pc = "paging" => generator = "open"
    /\ pc = "resuming" => generator # "returned"
    /\ pc = "committing" => generator = "returned"
    /\ pc \in {"written", "committing"} => pending = NoRows
    /\ pc \in {"resuming", "writing", "written"} /\ generator # "returned"
         /\ walk = "sweep" => at # None /\ (MaxPages > 0 => pages < MaxPages)
    /\ pc = "idle" => pending = NoRows /\ observed = None

\* The progress of an incremental run.  What a sweep has recorded is neither
\* ahead of its position nor behind what is persisted; a keyset records nothing.
GroundInv ==
    pc # "idle" /\ ~refresh =>
        IF walk = "sweep"
        THEN /\ sweeps
             /\ generator = "short" => at # None
             /\ state.swept => generator = "returned" /\ pc # "paging"
             /\ state.lastPk # None => at # None /\ state.lastPk <= at
             /\ blob.swept => state.swept
             /\ blob.lastPk # None =>
                    state.swept \/ (state.lastPk # None
                                    /\ blob.lastPk <= state.lastPk)
        ELSE state = blob /\ (sweeps => blob.swept)

\* Rows up to the position of a sweep are read, or stamped behind it.
SweepInv ==
    \A k \in Pk :
        table[k] # Absent
          /\ (generator = "short" \/ state.swept \/ (at # None /\ k <= at))
          => Have(k) = table[k] \/ Fresh(k)

\* Rows up to the floor of a keyset are read, or stamped late, and nothing
\* beyond the floor was observed.
KeysetInv ==
    /\ at \in Int /\ seed <= at /\ at <= newest
    /\ observed # None => observed <= at
    /\ \A k \in Pk :
           table[k] # Absent /\ table[k] <= at
             => Have(k) = table[k] \/ (Lateness > 0 /\ Fresh(k))

RunInv ==
    pc # "idle" /\ ~refresh =>
        /\ seed = Seed(prior)
        /\ IF walk = "sweep" THEN SweepInv ELSE KeysetInv

TypeInv == TypeOK /\ PlaceInv

WalkInv ==
    /\ RowsInv /\ DistinctInv /\ BoundInv /\ SpanInv
    /\ RunInv
    /\ PassedRowsLanded
-----------------------------------------------------------------------------
USE DEF Absent, Initial, kindVars

\* Larger returns one of its arguments, and nothing below either.
LEMMA LargerType ==
    ASSUME NEW a \in MaybeInt, NEW b \in MaybeInt
    PROVE  /\ Larger(a, b) \in MaybeInt
           /\ Larger(a, b) \in {a, b}
           /\ a \in Int /\ b \in Int => Larger(a, b) >= a /\ Larger(a, b) >= b
           /\ a \in Int => Larger(a, b) \in Int /\ Larger(a, b) >= a
           /\ b \in Int => Larger(a, b) \in Int /\ Larger(a, b) >= b
           /\ a = None => Larger(a, b) = b
           /\ b = None => Larger(a, b) = a
  BY WalkAssumption DEF WalkAssumption, Larger, MaybeInt

LEMMA PkType == \A k \in Pk : k \in Nat /\ k \in Int /\ k \in MaybeInt
  <1>1. Pk \subseteq Nat
    BY WalkAssumption DEF WalkAssumption
  <1> QED
    BY <1>1 DEF MaybeInt

LEMMA SeedType ==
    ASSUME NEW c \in MaybeInt
    PROVE  Seed(c) \in Int /\ Seed(c) \in MaybeInt
  BY WalkAssumption DEF WalkAssumption, Seed, MaybeInt

LEMMA OverType ==
    ASSUME NEW a \in [Pk -> Nat], NEW b \in [Pk -> Nat]
    PROVE  /\ Over(a, b) \in [Pk -> Nat]
           /\ \A k \in Pk : Over(a, b)[k] = IF b[k] # Absent THEN b[k] ELSE a[k]
  BY DEF Over

LEMMA NoRowsType ==
    NoRows \in [Pk -> Nat] /\ \A k \in Pk : NoRows[k] = Absent
  BY DEF NoRows

LEMMA NoBlobType ==
    /\ NoBlob \in Blob
    /\ NoBlob.lastPk = None /\ NoBlob.max = None /\ NoBlob.swept = FALSE
  BY DEF NoBlob, Blob, MaybeInt

\* The end of a run leaves its locals empty.
LEMMA EndRunType ==
    ASSUME TypeOK, EndRun
    PROVE  /\ pc' = "idle" /\ refresh' \in BOOLEAN /\ walk' = "keyset"
           /\ seed' = None /\ prior' = None /\ observed' = None
           /\ state' \in Blob /\ state'.max = None
           /\ pages' \in 0 .. MaxPages
           /\ at' \in MaybeInt
           /\ generator' = "returned"
           /\ pending' = NoRows /\ pending' \in [Pk -> Nat]
  <1>1. refresh' \in BOOLEAN
    BY DEF EndRun
  <1>2. state' \in Blob /\ state'.max = None
    BY NoBlobType DEF EndRun
  <1>3. pages' \in 0 .. MaxPages
    BY WalkAssumption DEF EndRun, WalkAssumption
  <1>4. pending' = NoRows /\ pending' \in [Pk -> Nat] /\ at' \in MaybeInt
    BY NoRowsType DEF EndRun, MaybeInt
  <1> QED
    BY <1>1, <1>2, <1>3, <1>4 DEF EndRun
-----------------------------------------------------------------------------
LEMMA InitTyped == Init => TypeInv
  <1> SUFFICES ASSUME Init PROVE TypeInv
    OBVIOUS
  <1>1. /\ table \in [Pk -> Nat] /\ landed \in [Pk -> Nat]
        /\ pending \in [Pk -> Nat] /\ blob \in Blob /\ state \in Blob
    BY NoRowsType, NoBlobType DEF Init
  <1>2. sweeps \in BOOLEAN /\ ordered \in BOOLEAN /\ refresh \in BOOLEAN
    BY WalkAssumption DEF Init, WalkAssumption
  <1>3. pages \in 0 .. MaxPages /\ setbacks \in 0 .. MaxSetbacks
    BY WalkAssumption DEF Init, WalkAssumption
  <1> QED
    BY <1>1, <1>2, <1>3 DEF Init, TypeInv, TypeOK, PlaceInv, MaybeInt

LEMMA CommitTyped ==
    ASSUME TypeInv, NEW keys \in SUBSET Pk, NEW stamp \in 1 .. MaxStamp,
           Commit(keys, stamp)
    PROVE  TypeInv'
  <1> USE DEF TypeInv
  <1>1. stamp \in Nat /\ newest' \in Nat
    BY WalkAssumption, LargerType
       DEF WalkAssumption, Commit, Larger, TypeOK, MaybeInt
  <1>2. table' \in [Pk -> Nat]
    BY <1>1 DEF Commit, TypeOK
  <1> QED
    BY <1>1, <1>2 DEF Commit, TypeOK, PlaceInv, stateVars, startVars

LEMMA BeginTyped ==
    ASSUME TypeInv, NEW fullRefresh \in BOOLEAN, Begin(fullRefresh)
    PROVE  TypeInv'
  <1> USE DEF TypeInv
  <1>1. /\ refresh' \in BOOLEAN
        /\ UNCHANGED <<sourceVars, landed, stateVars, observed, pending,
                       setbacks, kindVars>>
        /\ pc' = "paging" /\ generator' = "open"
    BY DEF Begin
  <1>2. seed' \in MaybeInt /\ prior' \in MaybeInt
    BY SeedType DEF Begin, TypeOK, MaybeInt
  <1>3. state' \in Blob
    BY NoBlobType DEF Begin, TypeOK
  <1>4. /\ walk' \in {"sweep", "keyset"} /\ began' \in Nat
        /\ pages' \in 0 .. MaxPages
        /\ walk' = "sweep" => at' = state'.lastPk
        /\ walk' # "sweep" => at' = seed'
    BY WalkAssumption DEF Begin, TypeOK, WalkAssumption
  <1>5. state'.lastPk \in Pk \cup {None}
    BY <1>3 DEF Blob
  <1>6. at' \in MaybeInt /\ (walk' = "sweep" => at' \in Pk \cup {None})
    <2>1. CASE walk' = "sweep"
      BY <1>4, <1>5, <2>1, PkType DEF MaybeInt
    <2>2. CASE walk' # "sweep"
      BY <1>2, <1>4, <2>2
    <2> QED
      BY <2>1, <2>2
  <1> QED
    BY <1>1, <1>2, <1>3, <1>4, <1>6
       DEF TypeOK, PlaceInv, stateVars, sourceVars

\* The values a page is made of.
LEMMA PageTyped ==
    ASSUME TypeInv, NEW page \in SUBSET Beyond, NEW last \in page,
           ReadPage(page, last)
    PROVE  /\ page \subseteq Pk
           /\ \A k \in page : table[k] # Absent
           /\ pending' \in [Pk -> Nat]
           /\ \A k \in Pk : pending'[k] = IF k \in page THEN table[k]
                                                     ELSE pending[k]
           /\ observed' \in Int
           /\ \A k \in page : table[k] <= observed'
           /\ observed = None => \E k \in page : observed' = table[k]
           /\ observed # None => observed' = observed
                               \/ \E k \in page : observed' = table[k]
           /\ at' = IF walk = "sweep" THEN last ELSE table[last]
  <1> USE DEF TypeInv
  <1>1. page \subseteq Pk /\ \A k \in page : table[k] # Absent /\ table[k] \in Nat
    BY DEF Beyond, TypeOK
  <1> DEFINE read == [k \in Pk |-> IF k \in page THEN table[k] ELSE Absent]
  <1>2. read \in [Pk -> Nat]
    BY <1>1
  <1>3. pending' = Over(pending, read)
    BY DEF ReadPage
  <1>4. /\ pending' \in [Pk -> Nat]
        /\ \A k \in Pk : pending'[k] = IF read[k] # Absent THEN read[k]
                                                       ELSE pending[k]
    <2> HIDE DEF read
    <2> QED
      BY <1>2, <1>3, OverType DEF TypeOK
  <1>5. \A k \in Pk : pending'[k] = IF k \in page THEN table[k] ELSE pending[k]
    BY <1>1, <1>4
  <1>6. PICK top \in page : /\ \A k \in page : table[k] <= table[top]
                            /\ observed' = Larger(observed, table[top])
    BY DEF ReadPage
  <1>7. observed \in MaybeInt /\ table[top] \in MaybeInt /\ table[top] \in Int
    BY <1>1, <1>6 DEF TypeOK, MaybeInt
  <1>8. /\ observed' \in Int /\ observed' >= table[top]
        /\ observed' \in {observed, table[top]}
        /\ observed = None => observed' = table[top]
    BY <1>6, <1>7, LargerType
  <1>9. \A k \in page : table[k] <= observed'
    BY <1>1, <1>6, <1>7, <1>8
  <1> QED
    BY <1>1, <1>4, <1>5, <1>6, <1>8, <1>9 DEF ReadPage

LEMMA ReadPageTyped ==
    ASSUME TypeInv, NEW page \in SUBSET Beyond, NEW last \in page,
           ReadPage(page, last)
    PROVE  TypeInv'
  <1> USE DEF TypeInv
  <1>1. /\ at' \in MaybeInt /\ (walk = "sweep" => at' \in Pk \ {None})
        /\ observed' \in MaybeInt /\ pending' \in [Pk -> Nat]
    <2>1. /\ last \in Pk /\ observed' \in Int /\ pending' \in [Pk -> Nat]
          /\ at' = IF walk = "sweep" THEN last ELSE table[last]
      BY PageTyped
    <2>2. last \in MaybeInt /\ table[last] \in MaybeInt
      BY <2>1, PkType DEF TypeOK, MaybeInt
    <2>3. last # None
      BY <2>1, PkType, WalkAssumption DEF WalkAssumption
    <2> QED
      BY <2>1, <2>2, <2>3 DEF MaybeInt
  <1>2. /\ generator' \in {"open", "short"} /\ pc' \in {"writing", "resuming"}
        /\ pc = "paging"
    BY DEF ReadPage
  <1>3. UNCHANGED <<sourceVars, began, landed, stateVars, startVars, state,
                   pages, setbacks, kindVars>>
    BY DEF ReadPage
  <1>4. walk = "sweep" /\ MaxPages > 0 => pages < MaxPages
    BY WalkAssumption DEF ReadPage, Capped, TypeOK, WalkAssumption
  <1> QED
    BY <1>1, <1>2, <1>3, <1>4
       DEF TypeOK, PlaceInv, stateVars, sourceVars, startVars

\* Handing over leaves a State that is swept.
LEMMA HandOverType ==
    ASSUME TypeOK, NEW st \in Blob, HandOver(st)
    PROVE  /\ state' \in Blob /\ state'.swept = TRUE /\ state'.lastPk = None
           /\ state'.max = st.max
           /\ observed' \in MaybeInt /\ observed' \in {observed, state.max}
  <1>1. state' \in Blob /\ state'.swept = TRUE /\ state'.lastPk = None
           /\ state'.max = st.max
    BY DEF HandOver, Blob
  <1>2. state.max \in MaybeInt /\ observed \in MaybeInt
    BY DEF TypeOK, Blob
  <1> QED
    BY <1>1, <1>2, LargerType DEF HandOver, RunningMax

LEMMA ReturnTyped ==
    ASSUME Return
    PROVE  /\ generator' = "returned" /\ pc' \in {"writing", "committing"}
           /\ pc' = "committing" => pending = NoRows
  BY DEF Return

LEMMA ReadNothingTyped ==
    ASSUME TypeInv, ReadNothing
    PROVE  TypeInv'
  <1> USE DEF TypeInv
  <1>1. state' \in Blob /\ observed' \in MaybeInt
    <2>1. state \in Blob /\ observed \in MaybeInt
      BY DEF TypeOK
    <2>2. CASE walk = "sweep"
      BY <2>1, <2>2, HandOverType DEF ReadNothing
    <2>3. CASE walk # "sweep"
      BY <2>1, <2>3 DEF ReadNothing
    <2> QED
      BY <2>2, <2>3
  <1>2. UNCHANGED <<sourceVars, began, landed, stateVars, startVars, at, pages,
                   pending, setbacks, kindVars>>
    BY DEF ReadNothing
  <1>3. Return
    BY DEF ReadNothing
  <1> QED
    BY <1>1, <1>2, <1>3, ReturnTyped
       DEF TypeOK, PlaceInv, stateVars, sourceVars, startVars

\* What the sweep records is its position.
LEMMA RecordedType ==
    ASSUME TypeInv, at \in Pk
    PROVE  /\ Recorded \in Blob /\ Recorded.lastPk = at
           /\ Recorded.swept = state.swept
           /\ Recorded.max \in {observed, state.max}
  <1>1. state \in Blob /\ state.max \in MaybeInt /\ observed \in MaybeInt
    BY DEF TypeInv, TypeOK, Blob
  <1>2. RunningMax \in MaybeInt /\ RunningMax \in {observed, state.max}
    BY <1>1, LargerType DEF RunningMax
  <1> QED
    BY <1>1, <1>2 DEF Recorded, Blob

LEMMA ResumeTyped ==
    ASSUME TypeInv, Resume
    PROVE  TypeInv'
  <1> USE DEF TypeInv
  <1>1. UNCHANGED <<sourceVars, began, landed, stateVars, startVars, at,
                   pending, setbacks, kindVars>>
    BY DEF Resume
  <1>2. /\ pc = "resuming" /\ generator' \in {"open", "short", "returned"}
        /\ generator = "short" => Return
        /\ generator # "short" => pc' = "paging" /\ generator' = generator
    BY DEF Resume, Return, TypeOK
  <1>3. /\ pc' \in {"paging", "writing", "committing"}
        /\ pc' = "paging" => generator' = "open"
        /\ pc' # "paging" => generator' = "returned"
        /\ pc' = "committing" => pending = NoRows
    BY <1>2, ReturnTyped DEF TypeOK, PlaceInv
  <1>4. state' \in Blob /\ observed' \in MaybeInt /\ pages' \in 0 .. MaxPages
    <2>1. CASE walk # "sweep"
      BY <2>1 DEF Resume, TypeOK
    <2>2. CASE walk = "sweep"
      <3>1. at \in Pk
        BY <1>2, <2>2 DEF PlaceInv
      <3>2. Recorded \in Blob
        BY <3>1, RecordedType
      <3>3. pages' \in 0 .. MaxPages
        BY <1>2, <2>2, WalkAssumption
           DEF Resume, TypeOK, PlaceInv, WalkAssumption
      <3>4. CASE generator = "short"
        BY <2>2, <3>2, <3>3, <3>4, HandOverType DEF Resume
      <3>5. CASE generator # "short"
        BY <2>2, <3>2, <3>3, <3>5 DEF Resume, TypeOK
      <3> QED
        BY <3>4, <3>5
    <2> QED
      BY <2>1, <2>2
  <1> QED
    BY <1>1, <1>2, <1>3, <1>4
       DEF TypeOK, PlaceInv, stateVars, sourceVars, startVars

LEMMA PauseTyped ==
    ASSUME TypeInv, PauseSweep
    PROVE  TypeInv'
  BY ReturnTyped
     DEF TypeInv, PauseSweep, TypeOK, PlaceInv, stateVars, sourceVars, startVars

LEMMA WriteTyped ==
    ASSUME TypeInv, WriteBatch
    PROVE  TypeInv'
  <1>1. landed' \in [Pk -> Nat] /\ pending' \in [Pk -> Nat]
    BY OverType, NoRowsType DEF TypeInv, WriteBatch, TypeOK
  <1> QED
    BY <1>1 DEF TypeInv, WriteBatch, TypeOK, PlaceInv, stateVars, sourceVars,
                startVars

\* The cursor a run persists.
LEMMA CursorTyped ==
    ASSUME TypeOK, NEW seen \in BOOLEAN
    PROVE  Larger(IF seen /\ observed # None THEN observed ELSE seed, prior)
               \in MaybeInt
  BY LargerType DEF TypeOK

LEMMA FlushTyped ==
    ASSUME TypeInv, NEW due \in BOOLEAN, FlushState(due)
    PROVE  TypeInv'
  <1> USE DEF TypeInv
  <1>1. cursor' \in MaybeInt /\ blob' \in Blob
    BY CursorTyped DEF FlushState, TypeOK, stateVars
  <1> QED
    BY <1>1 DEF FlushState, TypeOK, PlaceInv, sourceVars, startVars

\* What the end of a run leaves is well typed.
LEMMA EndRunTyped ==
    ASSUME TypeInv, EndRun,
           UNCHANGED <<sourceVars, began, kindVars>>,
           landed' \in [Pk -> Nat], cursor' \in MaybeInt, blob' \in Blob,
           setbacks' \in 0 .. MaxSetbacks
    PROVE  TypeInv'
  <1>1. /\ pc' = "idle" /\ refresh' \in BOOLEAN /\ walk' = "keyset"
        /\ seed' = None /\ prior' = None /\ observed' = None
        /\ state' \in Blob /\ pages' \in 0 .. MaxPages /\ at' \in MaybeInt
        /\ generator' = "returned"
        /\ pending' = NoRows /\ pending' \in [Pk -> Nat]
    BY EndRunType DEF TypeInv
  <1>2. /\ table' \in [Pk -> Nat] /\ newest' \in Nat /\ began' \in Nat
        /\ sweeps' \in BOOLEAN /\ ordered' \in BOOLEAN
    BY DEF TypeInv, TypeOK, sourceVars
  <1>3. None \in MaybeInt
    BY DEF MaybeInt
  <1>4. TypeOK'
    BY <1>1, <1>2, <1>3 DEF TypeOK
  <1>5. NoRows' = NoRows
    BY DEF NoRows
  <1>6. PlaceInv'
    BY <1>1, <1>5 DEF PlaceInv
  <1> QED
    BY <1>4, <1>6 DEF TypeInv

LEMMA FinalTyped ==
    ASSUME TypeInv, FinalCommit
    PROVE  TypeInv'
  <1> USE DEF TypeInv
  <1>1. cursor' \in MaybeInt /\ blob' \in Blob
    BY LargerType DEF FinalCommit, TypeOK, stateVars
  <1>2. EndRun
    BY DEF FinalCommit
  <1> QED
    BY <1>1, <1>2, EndRunTyped DEF FinalCommit, TypeOK

LEMMA InterruptTyped ==
    ASSUME TypeInv, NEW inFlight \in BOOLEAN, Interrupt(inFlight)
    PROVE  TypeInv'
  <1> USE DEF TypeInv
  <1>1. landed' \in [Pk -> Nat]
    BY OverType DEF Interrupt, TypeOK
  <1>2. EndRun /\ setbacks' \in 0 .. MaxSetbacks
    BY WalkAssumption DEF Interrupt, TypeOK, WalkAssumption
  <1> QED
    BY <1>1, <1>2, EndRunTyped DEF Interrupt, TypeOK, stateVars

LEMMA ResetTyped ==
    ASSUME TypeInv, ResetState
    PROVE  TypeInv'
  <1>1. setbacks' \in 0 .. MaxSetbacks /\ blob' \in Blob /\ cursor' \in MaybeInt
    BY WalkAssumption, NoBlobType
       DEF ResetState, TypeInv, TypeOK, WalkAssumption, MaybeInt
  <1> QED
    BY <1>1 DEF ResetState, TypeInv, TypeOK, PlaceInv, sourceVars, startVars

LEMMA StepTyped == TypeInv /\ [Next]_vars => TypeInv'
  <1> SUFFICES ASSUME TypeInv, [Next]_vars PROVE TypeInv'
    OBVIOUS
  <1>1. CASE UNCHANGED vars
    BY <1>1 DEF TypeInv, TypeOK, PlaceInv, vars, sourceVars, stateVars,
                startVars
  <1>2. ASSUME NEW keys \in SUBSET Pk, NEW stamp \in 1 .. MaxStamp,
               Commit(keys, stamp)
        PROVE  TypeInv'
    BY <1>2, CommitTyped
  <1>3. ASSUME NEW fullRefresh \in BOOLEAN, Begin(fullRefresh)
        PROVE  TypeInv'
    BY <1>3, BeginTyped
  <1>4. CASE RunStep
    BY <1>4, PauseTyped, ReadPageTyped, ReadNothingTyped, ResumeTyped,
       WriteTyped, FlushTyped, FinalTyped DEF RunStep
  <1>5. ASSUME NEW inFlight \in BOOLEAN, Interrupt(inFlight)
        PROVE  TypeInv'
    BY <1>5, InterruptTyped
  <1>6. CASE ResetState
    BY <1>6, ResetTyped
  <1> QED
    BY <1>1, <1>2, <1>3, <1>4, <1>5, <1>6 DEF Next

LEMMA AlwaysTyped == Spec => []TypeInv
  <1> QED
    BY InitTyped, StepTyped, PTL DEF Spec

\* Every variable stays in its set: in particular a sweep never reads more
\* pages than bootstrap_max_pages in one run, and its recorded position is a
\* key of the table.
THEOREM Typing == Spec => []TypeOK
  <1>1. TypeInv => TypeOK
    BY DEF TypeInv
  <1> QED
    BY <1>1, AlwaysTyped, PTL
-----------------------------------------------------------------------------
\* A step of the run that leaves its records alone keeps GroundInv.
LEMMA StandsStill ==
    ASSUME TypeInv, GroundInv,
           UNCHANGED <<startVars, kindVars, state, at>>,
           pc # "idle" /\ pc' # "paging",
           generator' = generator \/ generator' = "returned",
           blob' = blob \/ (blob' = state /\ ~refresh)
    PROVE  GroundInv'
  <1> SUFFICES ASSUME ~refresh PROVE GroundInv'
    BY DEF GroundInv, startVars
  <1>1. state.lastPk \in Pk \cup {None}
    BY DEF TypeInv, TypeOK, Blob
  <1>2. state.lastPk # None => state.lastPk <= state.lastPk
    BY <1>1, PkType
  <1> QED
    BY <1>2 DEF GroundInv, startVars

LEMMA BeginGround ==
    ASSUME TypeInv, NEW fullRefresh \in BOOLEAN, Begin(fullRefresh)
    PROVE  GroundInv'
  <1> SUFFICES ASSUME ~fullRefresh PROVE GroundInv'
    BY DEF Begin, GroundInv
  <1>1. blob.lastPk # None => blob.lastPk <= blob.lastPk
    <2>1. blob.lastPk \in Pk \cup {None} /\ blob.swept \in BOOLEAN
      BY DEF TypeInv, TypeOK, Blob
    <2> QED
      BY <2>1, PkType
  <1>2. /\ state' = blob /\ blob' = blob /\ sweeps' = sweeps
        /\ walk' = IF sweeps /\ ~blob.swept THEN "sweep" ELSE "keyset"
        /\ walk' = "sweep" => at' = blob.lastPk
        /\ generator' = "open"
    BY DEF Begin, stateVars
  <1> QED
    BY <1>1, <1>2 DEF GroundInv

LEMMA ReadPageGround ==
    ASSUME TypeInv, GroundInv, NEW page \in SUBSET Beyond, NEW last \in page,
           ReadPage(page, last)
    PROVE  GroundInv'
  <1> SUFFICES ASSUME ~refresh PROVE GroundInv'
    BY DEF ReadPage, GroundInv, startVars
  <1>1. /\ UNCHANGED <<stateVars, startVars, state, kindVars>>
        /\ pc = "paging" /\ pc' # "paging"
    BY DEF ReadPage
  <1>2. CASE walk = "sweep"
    <2>1. /\ last \in Int /\ last # None /\ at' = last
          /\ at # None => at \in Int /\ last > at
      BY <1>2, PkType, WalkAssumption
         DEF TypeInv, PlaceInv, ReadPage, Beyond, WalkAssumption
    <2>2. state.lastPk # None => state.lastPk \in Int
      BY PkType DEF TypeInv, TypeOK, Blob
    <2> QED
      BY <1>1, <1>2, <2>1, <2>2 DEF GroundInv, stateVars, startVars
  <1>3. CASE walk # "sweep"
    BY <1>1, <1>3 DEF GroundInv, stateVars, startVars
  <1> QED
    BY <1>2, <1>3

LEMMA ReadNothingGround ==
    ASSUME TypeInv, GroundInv, ReadNothing
    PROVE  GroundInv'
  <1>1. /\ UNCHANGED <<stateVars, startVars, at, kindVars>>
        /\ Return /\ pc = "paging"
    BY DEF ReadNothing
  <1>2. CASE walk = "sweep"
    <2>1. state' = [state EXCEPT !.swept = TRUE, !.lastPk = None]
      BY <1>2 DEF ReadNothing, HandOver
    <2>2. state'.swept = TRUE /\ state'.lastPk = None
      BY <2>1 DEF TypeInv, TypeOK, Blob
    <2> QED
      BY <1>1, <1>2, <2>2, ReturnTyped DEF GroundInv, stateVars, startVars
  <1>3. CASE walk # "sweep"
    BY <1>1, <1>3 DEF GroundInv, ReadNothing, stateVars, startVars
  <1> QED
    BY <1>2, <1>3

LEMMA ResumeGround ==
    ASSUME TypeInv, GroundInv, Resume
    PROVE  GroundInv'
  <1> SUFFICES ASSUME ~refresh PROVE GroundInv'
    BY DEF Resume, GroundInv, startVars
  <1>1. /\ UNCHANGED <<stateVars, startVars, at, kindVars>>
        /\ pc = "resuming" /\ generator # "returned"
        /\ generator = "short" => Return
        /\ generator # "short" => generator' = generator
    BY DEF Resume, TypeInv, PlaceInv
  <1>2. CASE walk # "sweep"
    <2>1. walk = "keyset"
      BY <1>2 DEF TypeInv, TypeOK
    <2>2. state' = state
      BY <2>1 DEF Resume
    <2> QED
      BY <1>1, <1>2, <2>2 DEF GroundInv, stateVars, startVars
  <1>3. CASE walk = "sweep"
    <2>1. at \in Pk /\ at # None /\ at <= at
      <3>1. at \in Pk /\ at # None
        BY <1>1, <1>3 DEF TypeInv, PlaceInv
      <3> QED
        BY <3>1, PkType
    <2>2. Recorded \in Blob /\ Recorded.lastPk = at
          /\ Recorded.swept = state.swept
      BY <2>1, RecordedType
    <2>3. ~state.swept
      BY <1>1, <1>3 DEF GroundInv
    <2>4. CASE generator = "short"
      <3>1. state'.swept = TRUE /\ state'.lastPk = None
        BY <1>3, <2>2, <2>4 DEF Resume, HandOver, Blob
      <3> QED
        BY <1>1, <1>3, <2>4, <3>1, ReturnTyped
           DEF GroundInv, stateVars, startVars
    <2>5. CASE generator # "short"
      <3>1. state' = Recorded
        BY <1>3, <2>5 DEF Resume
      <3>2. blob.lastPk # None => blob.lastPk <= at
        <4>1. /\ blob.lastPk \in Pk \cup {None}
              /\ state.lastPk \in Pk \cup {None}
          BY DEF TypeInv, TypeOK, Blob
        <4> QED
          BY <1>1, <1>3, <2>1, <2>3, <4>1, PkType DEF GroundInv
      <3>3. ~blob.swept
        BY <1>1, <1>3, <2>3 DEF GroundInv
      <3> QED
        BY <1>1, <1>3, <2>1, <2>2, <2>3, <2>5, <3>1, <3>2, <3>3
           DEF GroundInv, stateVars, startVars
    <2> QED
      BY <2>4, <2>5
  <1> QED
    BY <1>2, <1>3

LEMMA StepGround == TypeInv /\ GroundInv /\ [Next]_vars => GroundInv'
  <1> SUFFICES ASSUME TypeInv, GroundInv, [Next]_vars PROVE GroundInv'
    OBVIOUS
  <1>1. CASE UNCHANGED vars
    BY <1>1 DEF GroundInv, vars, stateVars, startVars
  <1>2. ASSUME NEW keys \in SUBSET Pk, NEW stamp \in 1 .. MaxStamp,
               Commit(keys, stamp)
        PROVE  GroundInv'
    BY <1>2 DEF Commit, GroundInv, stateVars, startVars
  <1>3. ASSUME NEW fullRefresh \in BOOLEAN, Begin(fullRefresh)
        PROVE  GroundInv'
    BY <1>3, BeginGround
  <1>4. CASE RunStep
    <2>1. CASE PauseSweep
      BY <2>1, StandsStill, ReturnTyped DEF PauseSweep, stateVars
    <2>2. CASE WriteBatch
      BY <2>2, StandsStill DEF WriteBatch, stateVars
    <2>3. ASSUME NEW due \in BOOLEAN, FlushState(due)
          PROVE  GroundInv'
      BY <2>3, StandsStill DEF FlushState, SkipState, stateVars
    <2>4. CASE FinalCommit
      BY <2>4 DEF FinalCommit, EndRun, GroundInv
    <2> QED
      BY <1>4, <2>1, <2>2, <2>3, <2>4, ReadPageGround, ReadNothingGround,
         ResumeGround DEF RunStep
  <1>5. ASSUME NEW inFlight \in BOOLEAN, Interrupt(inFlight)
        PROVE  GroundInv'
    BY <1>5 DEF Interrupt, EndRun, GroundInv
  <1>6. CASE ResetState
    BY <1>6 DEF ResetState, GroundInv
  <1> QED
    BY <1>1, <1>2, <1>3, <1>4, <1>5, <1>6 DEF Next

LEMMA AlwaysGround == Spec => [](TypeInv /\ GroundInv)
  <1>1. Init => GroundInv
    BY DEF Init, GroundInv
  <1> QED
    BY <1>1, InitTyped, StepTyped, StepGround, PTL DEF Spec

\* What a run persists keeps the ground of the sweep.
LEMMA PersistingGains ==
    ASSUME TypeInv, GroundInv, pc # "idle", ~refresh, blob' = state
    PROVE  \/ blob' = blob
           \/ blob'.swept
           \/ /\ ~blob.swept
              /\ blob.lastPk # None => /\ blob'.lastPk # None
                                      /\ blob'.lastPk >= blob.lastPk
  <1>1. blob.lastPk \in Pk \cup {None} /\ state.lastPk \in Pk \cup {None}
    BY DEF TypeInv, TypeOK, Blob
  <1> QED
    BY <1>1, PkType DEF GroundInv

\* No flush, commit, kill or full refresh moves the persisted position of a
\* sweep back or makes a swept table start over, for any page size, page cap,
\* flush throttle and schedule of transactions.
THEOREM GroundIsKept == Spec => SweepKeepsGround
  <1>1. ASSUME TypeInv, GroundInv, [Next]_vars
        PROVE  [\/ ResetState
                \/ blob'.swept
                \/ /\ ~blob.swept
                   /\ blob.lastPk # None => /\ blob'.lastPk # None
                                           /\ blob'.lastPk >= blob.lastPk]_blob
    <2>1. ASSUME NEW due \in BOOLEAN, FlushState(due)
          PROVE  blob' = blob \/ (pc # "idle" /\ ~refresh /\ blob' = state)
      BY <2>1 DEF FlushState, SkipState, stateVars
    <2>2. ASSUME FinalCommit
          PROVE  blob' = blob \/ (pc # "idle" /\ ~refresh /\ blob' = state)
      BY <2>2 DEF FinalCommit, SkipState, stateVars
    <2>3. CASE ResetState
      BY <2>3
    <2>4. CASE /\ ~(\E due \in BOOLEAN : FlushState(due))
               /\ ~FinalCommit /\ ~ResetState
      <3>1. blob' = blob
        BY <1>1, <2>4
           DEF Next, RunStep, Commit, Begin, PauseSweep, ReadPage, ReadNothing,
               Resume, WriteBatch, Interrupt, vars, stateVars
      <3> QED
        BY <3>1
    <2> QED
      BY <1>1, <2>1, <2>2, <2>3, <2>4, PersistingGains
  <1> QED
    BY <1>1, AlwaysGround, PTL DEF Spec, SweepKeepsGround
-----------------------------------------------------------------------------
\* A resume point lags behind what bounds the cursor by the lookback.
LEMMA BeyondSeed ==
    ASSUME NEW c \in MaybeInt, NEW n \in Int, AtMost(c, n),
           NEW v \in Nat, v # Absent, v > n - Lookback
    PROVE  v > Seed(c)
  BY WalkAssumption DEF WalkAssumption, AtMost, Seed, MaybeInt

\* A row stamped behind the walk is beyond whatever resume point it persists.
LEMMA FreshIsBeyond ==
    ASSUME TypeInv, newest + Lateness <= began + Lookback,
           NEW c \in MaybeInt, AtMost(c, newest),
           NEW k \in Pk, table[k] # Absent, Fresh(k)
    PROVE  table[k] > Seed(c)
  <1>1. /\ table[k] \in Nat /\ newest \in Int /\ began \in Int
        /\ Lateness \in Int /\ Lookback \in Int
    BY WalkAssumption DEF TypeInv, TypeOK, WalkAssumption
  <1>2. table[k] > newest - Lookback
    BY <1>1 DEF Fresh
  <1> QED
    BY <1>1, <1>2, BeyondSeed

LEMMA InitWalk == Init => WalkInv
  <1> SUFFICES ASSUME Init PROVE WalkInv
    OBVIOUS
  <1>1. \A k \in Pk : /\ table[k] = Absent /\ landed[k] = Absent
                      /\ pending[k] = Absent
    BY NoRowsType DEF Init
  <1>2. blob.max = None /\ state.max = None /\ blob.lastPk = None
    BY NoBlobType DEF Init
  <1>3. RowsInv /\ DistinctInv /\ PassedRowsLanded
    BY <1>1 DEF Init, RowsInv, DistinctInv, PassedRowsLanded
  <1>4. BoundInv
    BY <1>2 DEF Init, BoundInv, AtMost
  <1>5. SpanInv /\ RunInv
    BY <1>2 DEF Init, SpanInv, RunInv, Suspended
  <1> QED
    BY <1>3, <1>4, <1>5 DEF WalkInv

LEMMA CommitKeeps ==
    ASSUME TypeInv, WalkInv, ~Bulk,
           NEW keys \in SUBSET Pk, NEW stamp \in 1 .. MaxStamp,
           Commit(keys, stamp)
    PROVE  WalkInv'
  <1> USE DEF WalkInv
  <1>1. /\ stamp \in Nat /\ stamp # Absent
        /\ newest \in Nat /\ began \in Nat
        /\ Lateness \in Nat /\ Lookback \in Nat /\ Lateness <= Lookback
    BY WalkAssumption DEF TypeInv, TypeOK, WalkAssumption
  <1>2. newest' \in Nat /\ newest' >= newest /\ newest' >= stamp
        /\ newest' \in {newest, stamp}
    BY <1>1, LargerType DEF Commit, Larger, MaybeInt
  <1>3. \A k \in Pk : /\ table[k] \in Nat /\ landed[k] \in Nat
                      /\ pending[k] \in Nat
                      /\ table'[k] = IF k \in keys THEN stamp ELSE table[k]
                      /\ k \in keys => table[k] < stamp
                      /\ table[k] # stamp
    BY DEF Commit, TypeInv, TypeOK
  <1>4. newest < stamp + Lateness /\ began <= newest
    BY DEF Commit, BoundInv
  <1>5. UNCHANGED <<began, landed, cursor, blob, pc, refresh, walk, seed, prior,
                   state, at, generator, observed, pending, sweeps>>
    BY DEF Commit, stateVars, startVars
  <1>6. \A k \in Pk : /\ k \in keys => Fresh(k)'
                      /\ k \notin keys => Fresh(k)' = Fresh(k)
                      /\ Have(k)' = Have(k)
    BY <1>1, <1>3, <1>4, <1>5 DEF Fresh, Have
  <1>7. RowsInv'
    BY <1>1, <1>2, <1>3, <1>5 DEF RowsInv
  <1>8. DistinctInv'
    <2>1. PICK x : keys = {x}
      <3>1. IsFiniteSet(keys) /\ Cardinality(keys) = 1
        BY FS_Subset, WalkAssumption DEF Commit, WalkAssumption
      <3> QED
        BY <3>1, FS_Singleton
    <2> QED
      BY <1>3, <2>1 DEF DistinctInv
  <1>9. BoundInv'
    <2>1. \A c \in MaybeInt : AtMost(c, newest) => AtMost(c, newest')
      BY <1>1, <1>2 DEF AtMost, MaybeInt
    <2>2. /\ cursor \in MaybeInt /\ prior \in MaybeInt /\ seed \in MaybeInt
          /\ observed \in MaybeInt
          /\ blob.max \in MaybeInt /\ state.max \in MaybeInt
      BY DEF TypeInv, TypeOK, Blob
    <2>3. began' <= newest'
      BY <1>1, <1>2, <1>4, <1>5
    <2> QED
      BY <1>5, <2>1, <2>2, <2>3 DEF BoundInv
  <1>10. SpanInv'
    <2> SUFFICES ASSUME (Suspended \/ (pc # "idle"
                            /\ (walk = "sweep" \/ Lateness > 0)))'
                 PROVE  newest' + Lateness <= began' + Lookback
      BY DEF SpanInv
    <2>1. Suspended \/ (pc # "idle" /\ (walk = "sweep" \/ Lateness > 0))
      BY <1>5 DEF Suspended
    <2>2. newest + Lateness <= began + Lookback
      BY <2>1 DEF SpanInv
    <2>3. stamp + Lateness <= began + Lookback
      BY <2>1 DEF Commit, LookbackSpans
    <2> QED
      BY <1>1, <1>2, <1>5, <2>2, <2>3
  <1>11. RunInv'
    <2> SUFFICES ASSUME pc # "idle", ~refresh PROVE RunInv'
      BY <1>5 DEF RunInv
    <2>1. seed' = Seed(prior')
      BY <1>5 DEF RunInv
    <2>2. CASE walk = "sweep"
      <3>1. SweepInv
        BY <2>2 DEF RunInv
      <3>2. SweepInv'
        BY <1>3, <1>5, <1>6, <3>1 DEF SweepInv
      <3> QED
        BY <1>5, <2>1, <2>2, <3>2 DEF RunInv
    <2>3. CASE walk # "sweep"
      <3>1. KeysetInv
        BY <2>3 DEF RunInv
      <3>2. ASSUME NEW k \in Pk, table'[k] # Absent, table'[k] <= at
            PROVE  Have(k)' = table'[k] \/ (Lateness > 0 /\ Fresh(k)')
        <4>1. at \in Int /\ at <= newest
          BY <3>1 DEF KeysetInv
        <4>2. CASE k \in keys
          <5>1. Lateness > 0
            BY <1>1, <1>3, <1>4, <3>2, <4>1, <4>2
          <5> QED
            BY <1>6, <4>2, <5>1
        <4>3. CASE k \notin keys
          BY <1>3, <1>6, <3>1, <3>2, <4>3 DEF KeysetInv
        <4> QED
          BY <4>2, <4>3
      <3>3. KeysetInv'
        BY <1>1, <1>2, <1>5, <3>1, <3>2 DEF KeysetInv
      <3> QED
        BY <1>5, <2>1, <2>3, <3>3 DEF RunInv
    <2> QED
      BY <2>2, <2>3
  <1>12. PassedRowsLanded'
    <2>1. cursor \in MaybeInt /\ AtMost(cursor, newest)
      BY DEF TypeInv, TypeOK, BoundInv
    <2>2. stamp > Seed(cursor)
      BY <1>1, <1>4, <2>1, BeyondSeed
    <2> QED
      BY <1>3, <1>5, <1>6, <2>2 DEF PassedRowsLanded
  <1> QED
    BY <1>7, <1>8, <1>9, <1>10, <1>11, <1>12
\* A step of the run that writes and persists nothing keeps WalkInv if it
\* keeps RunInv and what it holds is of the table.
LEMMA Midway ==
    ASSUME TypeInv, WalkInv, pc # "idle",
           UNCHANGED <<sourceVars, began, landed, stateVars, startVars, sweeps>>,
           \A k \in Pk : pending'[k] = pending[k] \/ pending'[k] = table[k],
           AtMost(observed', newest), AtMost(state'.max, newest),
           RunInv'
    PROVE  WalkInv'
  <1> USE DEF WalkInv, sourceVars, stateVars, startVars
  <1>1. RowsInv'
    <2>1. \A k \in Pk : table[k] \in Nat /\ landed[k] \in Nat
      BY DEF TypeInv, TypeOK
    <2> QED
      BY <2>1 DEF RowsInv
  <1>2. DistinctInv' /\ BoundInv' /\ SpanInv'
    BY DEF DistinctInv, BoundInv, SpanInv, Suspended, AtMost
  <1>3. PassedRowsLanded'
    BY DEF PassedRowsLanded, Fresh
  <1> QED
    BY <1>1, <1>2, <1>3

LEMMA BeginKeeps ==
    ASSUME TypeInv, WalkInv, NEW fullRefresh \in BOOLEAN, Begin(fullRefresh)
    PROVE  WalkInv'
  <1> USE DEF WalkInv
  <1>1. /\ UNCHANGED <<table, newest, landed, cursor, blob, observed, pending,
                       sweeps>>
        /\ pc = "idle" /\ pending = NoRows /\ observed = None
        /\ began' = IF Suspended THEN began ELSE newest
        /\ generator' = "open"
    BY DEF Begin, sourceVars, stateVars, TypeInv, PlaceInv
  <1>2. /\ newest \in Nat /\ began \in Nat /\ Lateness \in Nat
        /\ Lookback \in Nat /\ Lateness <= Lookback /\ None \notin Int
        /\ cursor \in MaybeInt /\ blob.lastPk \in Pk \cup {None}
    BY WalkAssumption DEF WalkAssumption, TypeInv, TypeOK, Blob
  <1>3. RowsInv' /\ DistinctInv'
    BY <1>1 DEF RowsInv, DistinctInv
  <1>4. Seed(cursor) \in Int /\ Seed(cursor) <= newest
    BY <1>2 DEF BoundInv, AtMost, Seed, MaybeInt
  <1>5. BoundInv'
    <2>1. AtMost(seed', newest) /\ AtMost(prior', newest)
      BY <1>4 DEF Begin, BoundInv, AtMost
    <2>2. AtMost(state'.max, newest)
      BY NoBlobType DEF Begin, BoundInv, AtMost
    <2>3. began' <= newest
      BY <1>1, <1>2 DEF BoundInv
    <2> QED
      BY <1>1, <2>1, <2>2, <2>3 DEF BoundInv, AtMost
  <1>6. newest + Lateness <= began' + Lookback
    <2>1. CASE Suspended
      BY <1>1, <2>1 DEF SpanInv
    <2>2. CASE ~Suspended
      BY <1>1, <1>2, <2>2
    <2> QED
      BY <2>1, <2>2
  <1>7. PassedRowsLanded'
    BY <1>1 DEF PassedRowsLanded, Fresh, Suspended
  <1>8. RunInv'
    <2> SUFFICES ASSUME ~fullRefresh PROVE RunInv'
      BY DEF Begin, RunInv
    <2>1. /\ seed' = Seed(prior') /\ prior' = cursor /\ state' = blob
          /\ walk' = IF sweeps /\ ~blob.swept THEN "sweep" ELSE "keyset"
          /\ at' = IF walk' = "sweep" THEN blob.lastPk ELSE seed'
      BY DEF Begin, Seed
    <2>2. \A k \in Pk : Have(k)' = landed[k]
      BY <1>1, NoRowsType DEF Have
    <2>3. CASE walk' = "sweep"
      <3>1. sweeps /\ ~blob.swept /\ at' = blob.lastPk /\ ~state'.swept
        BY <2>1, <2>3
      <3> SUFFICES ASSUME NEW k \in Pk, table[k] # Absent,
                          at' # None, k <= at'
                   PROVE  Have(k)' = table[k] \/ Fresh(k)'
        BY <1>1, <2>1, <2>3, <3>1 DEF RunInv, SweepInv
      <3>2. ~(k > blob.lastPk) /\ blob.lastPk # None
        BY <1>2, <3>1, PkType
      <3>3. landed[k] = table[k] \/ Fresh(k)
        BY <3>1, <3>2 DEF PassedRowsLanded
      <3>4. Fresh(k)' = Fresh(k)
        BY <1>1, <3>1, <3>2 DEF Fresh, Suspended
      <3> QED
        BY <2>2, <3>3, <3>4
    <2>4. CASE walk' # "sweep"
      <3>1. /\ ~(sweeps /\ ~blob.swept) /\ at' = Seed(cursor)
            /\ seed' = Seed(cursor)
        BY <2>1, <2>4
      <3>2. ASSUME NEW k \in Pk, table[k] # Absent, table[k] <= at'
            PROVE  Have(k)' = table[k]
        <4>1. table[k] \in Nat
          BY DEF TypeInv, TypeOK
        <4> QED
          BY <1>4, <2>2, <3>1, <3>2, <4>1 DEF PassedRowsLanded
      <3>3. KeysetInv'
        BY <1>1, <1>4, <3>1, <3>2 DEF KeysetInv
      <3> QED
        BY <2>1, <2>4, <3>3 DEF RunInv
    <2> QED
      BY <2>3, <2>4
  <1>9. SpanInv'
    BY <1>1, <1>6 DEF SpanInv
  <1> QED
    BY <1>3, <1>5, <1>7, <1>8, <1>9

LEMMA PauseKeeps ==
    ASSUME TypeInv, WalkInv, PauseSweep
    PROVE  WalkInv'
  <1>1. /\ pc = "paging" /\ generator = "open" /\ walk = "sweep"
        /\ generator' = "returned"
        /\ UNCHANGED <<sourceVars, began, landed, stateVars, startVars, state,
                       at, observed, pending, sweeps>>
    BY DEF PauseSweep, Capped, Return, TypeInv, PlaceInv
  <1>2. AtMost(observed', newest) /\ AtMost(state'.max, newest)
    BY <1>1 DEF WalkInv, BoundInv
  <1>3. RunInv'
    BY <1>1 DEF WalkInv, RunInv, SweepInv, Have, Fresh, sourceVars, startVars
  <1> QED
    BY <1>1, <1>2, <1>3, Midway

LEMMA ReadPageKeeps ==
    ASSUME TypeInv, GroundInv, WalkInv,
           NEW page \in SUBSET Beyond, NEW last \in page, ReadPage(page, last)
    PROVE  WalkInv'
  <1>1. /\ UNCHANGED <<sourceVars, began, landed, stateVars, startVars, state,
                       sweeps>>
        /\ pc = "paging" /\ generator = "open"
        /\ generator' = IF Cardinality(page) < PageSize THEN "short" ELSE "open"
    BY DEF ReadPage, TypeInv, PlaceInv
  <1>2. \A k \in Pk : /\ k \in Int /\ k \in Nat
                      /\ table[k] \in Nat /\ table[k] <= newest
    BY PkType DEF TypeInv, TypeOK, WalkInv, RowsInv
  <1>3. /\ page \subseteq Pk /\ last \in Pk
        /\ \A k \in Pk : pending'[k] = IF k \in page THEN table[k]
                                                     ELSE pending[k]
        /\ \A k \in page : table[k] # Absent
        /\ at' = IF walk = "sweep" THEN last ELSE table[last]
    BY PageTyped
  <1>4. observed' = observed \/ \E k \in page : observed' = table[k]
    BY PageTyped
  <1>5. AtMost(observed', newest) /\ AtMost(state'.max, newest)
    BY <1>1, <1>2, <1>3, <1>4 DEF WalkInv, BoundInv, AtMost
  <1>6. \A k \in Pk : Have(k)' = IF k \in page THEN table[k] ELSE Have(k)
    BY <1>1, <1>3 DEF Have
  <1>7. \A k \in page : Before(k, last)
    BY DEF ReadPage
  <1>8. \A k \in Beyond \ page : generator' = "open" /\ Before(last, k)
    <2> SUFFICES ASSUME NEW k \in Beyond \ page
                 PROVE  generator' = "open" /\ Before(last, k)
      OBVIOUS
    <2>1. IsPage(page) /\ page # Beyond
      BY DEF ReadPage
    <2>2. Cardinality(page) = PageSize /\ Before(last, k)
      BY <2>1 DEF IsPage
    <2>3. ~(PageSize < PageSize)
      BY WalkAssumption DEF WalkAssumption
    <2> QED
      BY <1>1, <2>2, <2>3
  <1>9. \A k \in Pk : Fresh(k)' = Fresh(k)
    BY <1>1 DEF Fresh, sourceVars
  <1>10. RunInv'
    <2> SUFFICES ASSUME ~refresh PROVE RunInv'
      BY <1>1 DEF RunInv, startVars
    <2>1. seed = Seed(prior) /\ seed' = seed /\ prior' = prior
          /\ walk' = walk
      BY <1>1 DEF WalkInv, RunInv, startVars
    <2>2. CASE walk = "sweep"
      <3>1. ~state.swept /\ SweepInv
        BY <1>1, <2>2 DEF GroundInv, WalkInv, RunInv
      <3>2. at' = last
        BY <1>3, <2>2
      <3> SUFFICES ASSUME NEW k \in Pk, table[k] # Absent,
                          generator' = "short" \/ k <= last
                   PROVE  Have(k)' = table[k] \/ Fresh(k)
        BY <1>1, <1>9, <2>1, <2>2, <3>1, <3>2
           DEF RunInv, SweepInv, sourceVars, Seed
      <3>3. CASE k \in page
        BY <1>6, <3>3
      <3>4. CASE k \in Beyond \ page
        BY <1>2, <1>3, <1>8, <2>2, <3>4 DEF Before
      <3>5. CASE k \notin Beyond /\ k \notin page
        <4>1. at \in Pk \cup {None}
          BY <2>2 DEF TypeInv, PlaceInv
        <4>2. at # None /\ k <= at
          BY <1>2, <2>2, <3>5, <4>1 DEF Beyond
        <4> QED
          BY <1>6, <3>1, <3>5, <4>2 DEF SweepInv
      <3> QED
        BY <3>3, <3>4, <3>5
    <2>3. CASE walk # "sweep"
      <3>1. KeysetInv
        BY <1>1, <2>3 DEF WalkInv, RunInv
      <3>2. at' = table[last] /\ at < table[last] /\ at \in Int /\ seed \in MaybeInt
        BY <1>3, <2>3, <3>1 DEF KeysetInv, Beyond, TypeInv, TypeOK
      <3>3. seed' <= at' /\ at' <= newest' /\ at' \in Int
        <4>1. seed \in Int
          BY <2>1, SeedType DEF TypeInv, TypeOK
        <4> QED
          BY <1>1, <1>2, <1>3, <2>1, <3>1, <3>2, <4>1
             DEF KeysetInv, sourceVars
      <3>4. observed' # None => observed' <= at'
        <4>1. CASE observed' = observed
          <5>1. observed # None => observed \in Int
            BY DEF TypeInv, TypeOK, MaybeInt
          <5> QED
            BY <1>2, <1>3, <3>1, <3>2, <4>1, <5>1 DEF KeysetInv
        <4>2. ASSUME NEW k \in page, observed' = table[k]
              PROVE  observed' <= at'
          BY <1>7, <2>3, <3>2, <4>2 DEF Before
        <4> QED
          BY <1>4, <4>1, <4>2
      <3>5. ASSUME NEW k \in Pk, table[k] # Absent, table[k] <= table[last]
            PROVE  Have(k)' = table[k] \/ (Lateness > 0 /\ Fresh(k))
        <4>1. CASE k \in page
          BY <1>6, <4>1
        <4>2. CASE k \in Beyond \ page
          <5>1. table[last] <= table[k] /\ k # last
            BY <1>8, <2>3, <4>2 DEF Before
          <5>2. table[last] = table[k]
            BY <1>2, <1>3, <3>5, <5>1
          <5> QED
            BY <1>3, <3>5, <5>1, <5>2 DEF WalkInv, DistinctInv
        <4>3. CASE k \notin Beyond /\ k \notin page
          <5>1. table[k] <= at
            BY <1>2, <2>3, <3>2, <3>5, <4>3, WalkAssumption
               DEF Beyond, WalkAssumption
          <5> QED
            BY <1>6, <3>1, <3>5, <4>3, <5>1 DEF KeysetInv
        <4> QED
          BY <4>1, <4>2, <4>3
      <3>6. KeysetInv'
        BY <1>1, <1>9, <3>2, <3>3, <3>4, <3>5 DEF KeysetInv, sourceVars
      <3> QED
        BY <2>1, <2>3, <3>6 DEF RunInv, Seed
    <2> QED
      BY <2>2, <2>3
  <1>11. \A k \in Pk : pending'[k] = pending[k] \/ pending'[k] = table[k]
    BY <1>3
  <1> QED
    BY <1>1, <1>5, <1>10, <1>11, Midway

LEMMA ReadNothingKeeps ==
    ASSUME TypeInv, GroundInv, WalkInv, ReadNothing
    PROVE  WalkInv'
  <1>1. /\ UNCHANGED <<sourceVars, began, landed, stateVars, startVars, at,
                       pending, sweeps>>
        /\ pc = "paging" /\ generator' = "returned" /\ Beyond = {}
    BY DEF ReadNothing, Return
  <1>2. /\ state \in Blob
        /\ walk = "sweep" => HandOver(state)
        /\ walk # "sweep" => state' = state /\ observed' = observed
    BY DEF ReadNothing, TypeInv, TypeOK
  <1>3. AtMost(observed', newest) /\ AtMost(state'.max, newest)
    BY <1>2, HandOverType DEF WalkInv, BoundInv, AtMost, TypeInv
  <1>4. RunInv'
    <2> SUFFICES ASSUME ~refresh PROVE RunInv'
      BY <1>1 DEF RunInv, startVars
    <2>1. CASE walk = "sweep"
      <3>1. ASSUME NEW k \in Pk, table[k] # Absent
            PROVE  Have(k) = table[k] \/ Fresh(k)
        <4>1. at \in Pk \cup {None}
          BY <2>1 DEF TypeInv, PlaceInv
        <4>2. at # None /\ k <= at
          BY <1>1, <2>1, <3>1, <4>1, PkType DEF Beyond
        <4> QED
          BY <1>1, <2>1, <3>1, <4>2 DEF WalkInv, RunInv, SweepInv
      <3> QED
        BY <1>1, <2>1, <3>1
           DEF WalkInv, RunInv, SweepInv, Have, Fresh, sourceVars, startVars,
               Seed
    <2>2. CASE walk # "sweep"
      BY <1>1, <1>2, <2>2
         DEF WalkInv, RunInv, KeysetInv, Have, Fresh, sourceVars, startVars,
             Seed
    <2> QED
      BY <2>1, <2>2
  <1> QED
    BY <1>1, <1>3, <1>4, Midway

LEMMA ResumeKeeps ==
    ASSUME TypeInv, GroundInv, WalkInv, Resume
    PROVE  WalkInv'
  <1>1. /\ UNCHANGED <<sourceVars, began, landed, stateVars, startVars, at,
                       pending, sweeps>>
        /\ pc = "resuming" /\ generator # "returned"
        /\ generator # "short" => generator' = generator
        /\ walk # "sweep" => state' = state /\ observed' = observed
    BY DEF Resume, TypeInv, TypeOK, PlaceInv
  <1>2. ASSUME walk = "sweep"
        PROVE  /\ at \in Pk /\ at # None
               /\ AtMost(observed', newest) /\ AtMost(state'.max, newest)
               /\ generator = "short" \/ state'.swept = state.swept
    <2>1. at \in Pk /\ at # None
      BY <1>1, <1>2 DEF TypeInv, PlaceInv
    <2>2. /\ Recorded \in Blob /\ Recorded.max \in {observed, state.max}
          /\ Recorded.swept = state.swept
      BY <2>1, RecordedType
    <2>3. AtMost(observed, newest) /\ AtMost(state.max, newest)
      BY DEF WalkInv, BoundInv
    <2>4. CASE generator = "short"
      <3>1. HandOver(Recorded)
        BY <1>2, <2>4 DEF Resume
      <3> QED
        BY <2>1, <2>2, <2>3, <2>4, <3>1, HandOverType DEF TypeInv, AtMost
    <2>5. CASE generator # "short"
      BY <1>2, <2>1, <2>2, <2>3, <2>5 DEF Resume, AtMost
    <2> QED
      BY <2>4, <2>5
  <1>3. AtMost(observed', newest) /\ AtMost(state'.max, newest)
    BY <1>1, <1>2 DEF WalkInv, BoundInv
  <1>4. RunInv'
    <2> SUFFICES ASSUME ~refresh PROVE RunInv'
      BY <1>1 DEF RunInv, startVars
    <2>1. CASE walk = "sweep"
      <3>1. SweepInv
        BY <1>1, <2>1 DEF WalkInv, RunInv
      <3>2. SweepInv'
        BY <1>1, <1>2, <2>1, <3>1 DEF SweepInv, Have, Fresh, sourceVars
      <3> QED
        BY <1>1, <2>1, <3>2 DEF WalkInv, RunInv, startVars, Seed
    <2>2. CASE walk # "sweep"
      BY <1>1, <2>2
         DEF WalkInv, RunInv, KeysetInv, Have, Fresh, sourceVars, startVars,
             Seed
    <2> QED
      BY <2>1, <2>2
  <1> QED
    BY <1>1, <1>3, <1>4, Midway

\* Writing over the destination: versions grow, none beyond the table.
LEMMA LandingGrows ==
    ASSUME TypeInv, WalkInv
    PROVE  \A k \in Pk :
               /\ Over(landed, pending)[k] = Have(k)
               /\ landed[k] <= Have(k) /\ Have(k) <= table[k]
               /\ landed[k] = table[k] => Have(k) = table[k]
  <1>1. \A k \in Pk : /\ landed[k] \in Nat /\ pending[k] \in Nat
                      /\ table[k] \in Nat
                      /\ Over(landed, pending)[k] = Have(k)
    BY OverType DEF TypeInv, TypeOK, Have
  <1> QED
    BY <1>1 DEF WalkInv, RowsInv, Have

LEMMA WriteKeeps ==
    ASSUME TypeInv, WalkInv, WriteBatch
    PROVE  WalkInv'
  <1> USE DEF WalkInv
  <1>1. /\ UNCHANGED <<sourceVars, began, stateVars, startVars, state, at,
                       generator, observed, sweeps>>
        /\ landed' = Over(landed, pending) /\ pc = "writing"
        /\ pc' = "written"
    BY DEF WriteBatch
  <1>2. \A k \in Pk : /\ pending'[k] = Absent
                      /\ landed'[k] = Have(k) /\ Have(k)' = Have(k)
                      /\ Fresh(k)' = Fresh(k)
    BY <1>1, NoRowsType, LandingGrows DEF WriteBatch, Have, Fresh, sourceVars
  <1>3. RowsInv'
    BY <1>1, <1>2, LandingGrows DEF RowsInv, sourceVars
  <1>4. DistinctInv' /\ BoundInv' /\ SpanInv'
    BY <1>1 DEF DistinctInv, BoundInv, SpanInv, Suspended, AtMost, sourceVars,
                stateVars, startVars
  <1>5. RunInv'
    BY <1>1, <1>2
       DEF RunInv, SweepInv, KeysetInv, sourceVars, startVars, Seed
  <1>6. PassedRowsLanded'
    BY <1>1, <1>2, LandingGrows
       DEF PassedRowsLanded, sourceVars, stateVars, Seed
  <1> QED
    BY <1>3, <1>4, <1>5, <1>6

\* The cursor that a run of an incremental stream persists.
LEMMA PersistedCursor ==
    ASSUME TypeInv, WalkInv, pc # "idle", ~refresh, NEW seen \in BOOLEAN,
           NEW c, c = Larger(IF seen /\ observed # None THEN observed ELSE seed,
                             prior)
    PROVE  c \in Int /\ c \in {observed, seed, prior}
  <1>1. seed \in Int
    BY SeedType DEF TypeInv, TypeOK, WalkInv, RunInv
  <1>2. observed \in MaybeInt /\ prior \in MaybeInt /\ seed \in MaybeInt
    BY DEF TypeInv, TypeOK
  <1>3. CASE seen /\ observed # None
    BY <1>2, <1>3, LargerType DEF MaybeInt
  <1>4. CASE ~(seen /\ observed # None)
    BY <1>1, <1>2, <1>4, LargerType
  <1> QED
    BY <1>3, <1>4

\* What a run may persist passes over no row: with the buffer written, the rows
\* up to its position are landed, and those stamped behind it are within the
\* lookback of any cursor it persists.
LEMMA Persisting ==
    ASSUME TypeInv, GroundInv, WalkInv, pc \in {"written", "committing"},
           ~refresh, NEW c \in Int, c \in {observed, seed, prior},
           blob' = state, cursor' = c,
           UNCHANGED <<sourceVars, began, landed, sweeps>>
    PROVE  /\ PassedRowsLanded'
           /\ Suspended' => newest + Lateness <= began + Lookback
           /\ AtMost(cursor', newest) /\ AtMost(blob'.max, newest)
  <1> USE DEF WalkInv, sourceVars
  <1>1. /\ AtMost(c, newest) /\ c \in MaybeInt /\ seed = Seed(prior)
        /\ AtMost(state.max, newest)
    BY DEF BoundInv, RunInv, MaybeInt
  <1>2. \A k \in Pk : /\ Have(k) = landed[k] /\ table[k] \in Nat
                      /\ k \in Int
    BY NoRowsType, PkType DEF Have, TypeInv, TypeOK, PlaceInv
  <1>3. CASE walk = "sweep"
    <2>1. newest + Lateness <= began + Lookback
      BY <1>3 DEF SpanInv
    <2> SUFFICES ASSUME NEW k \in Pk, table[k] # Absent,
                        landed[k] # table[k]
                 PROVE  IF sweeps /\ ~state.swept
                        THEN \/ state.lastPk = None \/ k > state.lastPk
                             \/ Fresh(k)
                        ELSE table[k] > Seed(c)
      BY <1>1, <2>1 DEF PassedRowsLanded, Fresh, Seed
    <2>2. CASE ~state.swept
      <3> SUFFICES ASSUME state.lastPk # None, ~(k > state.lastPk)
                   PROVE  Fresh(k)
        BY <1>3, <2>2 DEF GroundInv
      <3>1. state.lastPk \in Int /\ at \in Int /\ state.lastPk <= at /\ at # None
        BY <1>3, PkType DEF GroundInv, TypeInv, TypeOK, PlaceInv, Blob
      <3>2. k <= at
        BY <1>2, <3>1
      <3> QED
        BY <1>2, <1>3, <3>1, <3>2 DEF RunInv, SweepInv
    <2>3. CASE state.swept
      <3>1. Fresh(k)
        BY <1>2, <1>3, <2>3 DEF RunInv, SweepInv
      <3> QED
        BY <1>1, <2>1, <2>3, <3>1, FreshIsBeyond
    <2> QED
      BY <2>2, <2>3
  <1>4. CASE walk # "sweep"
    <2>1. state = blob /\ ~(sweeps /\ ~blob.swept)
      BY <1>4 DEF GroundInv
    <2>2. KeysetInv
      BY <1>4 DEF RunInv
    <2>3. ASSUME NEW k \in Pk, table[k] # Absent, landed[k] # table[k]
          PROVE  table[k] > Seed(c)
      <3>1. CASE table[k] <= at
        <4>1. Lateness > 0 /\ Fresh(k)
          BY <1>2, <2>2, <2>3, <3>1 DEF KeysetInv
        <4>2. newest + Lateness <= began + Lookback
          BY <4>1 DEF SpanInv
        <4> QED
          BY <1>1, <2>3, <4>1, <4>2, FreshIsBeyond
      <3>2. CASE ~(table[k] <= at)
        <4>1. at \in Int /\ Lookback \in Nat /\ seed \in Int
          BY <1>1, <2>2, SeedType, WalkAssumption
             DEF KeysetInv, WalkAssumption, TypeInv, TypeOK
        <4>2. Seed(c) = c - Lookback
          BY <1>1, WalkAssumption DEF Seed, WalkAssumption
        <4>3. Seed(c) <= at
          <5>1. c <= at \/ (c = prior /\ Seed(c) = seed)
            BY <1>1, <2>2, WalkAssumption DEF KeysetInv, WalkAssumption
          <5>2. seed <= at
            BY <2>2 DEF KeysetInv
          <5> QED
            BY <4>1, <4>2, <5>1, <5>2
        <4> QED
          BY <1>2, <3>2, <4>1, <4>2, <4>3
      <3> QED
        BY <3>1, <3>2
    <2> QED
      BY <1>1, <2>1, <2>3 DEF PassedRowsLanded, Suspended, Seed
  <1> QED
    BY <1>3, <1>4

LEMMA FlushKeeps ==
    ASSUME TypeInv, GroundInv, WalkInv, NEW due \in BOOLEAN, FlushState(due)
    PROVE  WalkInv'
  <1> USE DEF WalkInv
  <1>1. /\ UNCHANGED <<sourceVars, began, landed, startVars, state, at,
                       generator, observed, pending, sweeps>>
        /\ pc = "written" /\ pc' # "idle"
    BY DEF FlushState
  <1>2. RowsInv' /\ DistinctInv' /\ RunInv'
    BY <1>1 DEF RowsInv, DistinctInv, RunInv, SweepInv, KeysetInv, Have, Fresh,
                Seed, sourceVars, startVars
  <1>3. CASE due /\ ~refresh
    <2>1. /\ blob' = state
          /\ cursor' = Larger(IF ordered /\ observed # None THEN observed
                                                            ELSE seed, prior)
      BY <1>3 DEF FlushState, SkipState
    <2>2. ordered \in BOOLEAN
      BY DEF TypeInv, TypeOK
    <2>3. cursor' \in Int /\ cursor' \in {observed, seed, prior}
      BY <1>1, <1>3, <2>1, <2>2, PersistedCursor
    <2>4. /\ PassedRowsLanded'
          /\ Suspended' => newest + Lateness <= began + Lookback
          /\ AtMost(cursor', newest) /\ AtMost(blob'.max, newest)
      BY <1>1, <1>3, <2>1, <2>3, Persisting
    <2>5. BoundInv' /\ SpanInv'
      BY <1>1, <2>4 DEF BoundInv, SpanInv, AtMost, sourceVars, startVars
    <2> QED
      BY <1>2, <2>4, <2>5
  <1>4. CASE ~(due /\ ~refresh)
    <2>1. UNCHANGED stateVars
      BY <1>4 DEF FlushState, SkipState
    <2>2. BoundInv' /\ SpanInv' /\ PassedRowsLanded'
      BY <1>1, <2>1
         DEF BoundInv, SpanInv, Suspended, AtMost, PassedRowsLanded, Fresh,
             Seed, sourceVars, stateVars, startVars
    <2> QED
      BY <1>2, <2>2
  <1> QED
    BY <1>3, <1>4

\* The end of a run keeps WalkInv if what it persisted and landed does.
LEMMA Ending ==
    ASSUME TypeInv, WalkInv, EndRun, UNCHANGED <<sourceVars, began, sweeps>>,
           \A k \in Pk : landed'[k] = landed[k] \/ landed'[k] = Have(k),
           AtMost(cursor', newest), AtMost(blob'.max, newest),
           Suspended' => newest + Lateness <= began + Lookback,
           PassedRowsLanded'
    PROVE  WalkInv'
  <1> USE DEF WalkInv
  <1>1. /\ pc' = "idle" /\ seed' = None /\ prior' = None /\ observed' = None
        /\ state'.max = None /\ pending' = NoRows
    BY EndRunType DEF TypeInv
  <1>2. RowsInv'
    BY <1>1, NoRowsType, LandingGrows DEF RowsInv, sourceVars
  <1>3. DistinctInv' /\ BoundInv' /\ SpanInv' /\ RunInv'
    BY <1>1
       DEF DistinctInv, BoundInv, AtMost, SpanInv, RunInv, sourceVars
  <1> QED
    BY <1>2, <1>3

LEMMA FinalKeeps ==
    ASSUME TypeInv, GroundInv, WalkInv, FinalCommit
    PROVE  WalkInv'
  <1>1. /\ UNCHANGED <<sourceVars, began, landed, sweeps>>
        /\ pc = "committing" /\ EndRun
    BY DEF FinalCommit
  <1>2. /\ AtMost(cursor', newest) /\ AtMost(blob'.max, newest)
        /\ Suspended' => newest + Lateness <= began + Lookback
        /\ PassedRowsLanded'
    <2>1. CASE refresh
      BY <1>1, <2>1
         DEF FinalCommit, SkipState, WalkInv, BoundInv, AtMost, SpanInv,
             Suspended, PassedRowsLanded, Fresh, Seed, sourceVars, stateVars
    <2>2. CASE ~refresh
      <3>1. /\ blob' = state
            /\ cursor' = Larger(IF TRUE /\ observed # None THEN observed
                                                           ELSE seed, prior)
        BY <2>2 DEF FinalCommit, SkipState
      <3>2. cursor' \in Int /\ cursor' \in {observed, seed, prior}
        BY <1>1, <2>2, <3>1, PersistedCursor
      <3> QED
        BY <1>1, <2>2, <3>1, <3>2, Persisting
    <2> QED
      BY <2>1, <2>2
  <1> QED
    BY <1>1, <1>2, Ending

LEMMA InterruptKeeps ==
    ASSUME TypeInv, WalkInv, NEW inFlight \in BOOLEAN, Interrupt(inFlight)
    PROVE  WalkInv'
  <1>1. /\ UNCHANGED <<sourceVars, began, stateVars, sweeps>> /\ EndRun
        /\ pc # "idle"
    BY DEF Interrupt
  <1>2. \A k \in Pk : landed'[k] = landed[k] \/ landed'[k] = Have(k)
    BY LandingGrows DEF Interrupt
  <1>3. \A k \in Pk : landed[k] = table[k] => landed'[k] = table[k]
    BY <1>2, LandingGrows
  <1>4. /\ AtMost(cursor', newest) /\ AtMost(blob'.max, newest)
        /\ Suspended' => newest + Lateness <= began + Lookback
        /\ PassedRowsLanded'
    BY <1>1, <1>3
       DEF WalkInv, BoundInv, AtMost, SpanInv, Suspended, PassedRowsLanded,
           Fresh, Seed, sourceVars, stateVars
  <1> QED
    BY <1>1, <1>2, <1>4, Ending

LEMMA ResetKeeps ==
    ASSUME TypeInv, WalkInv, ResetState
    PROVE  WalkInv'
  <1>1. /\ UNCHANGED <<sourceVars, began, landed, pc, startVars, state, at,
                       generator, observed, pending, sweeps>>
        /\ pc = "idle" /\ cursor' = None /\ blob' = NoBlob
    BY DEF ResetState
  <1>2. RowsInv' /\ DistinctInv' /\ RunInv'
    BY <1>1 DEF WalkInv, RowsInv, DistinctInv, RunInv, sourceVars
  <1>3. BoundInv' /\ SpanInv'
    BY <1>1, NoBlobType
       DEF WalkInv, BoundInv, SpanInv, Suspended, AtMost, sourceVars, startVars
  <1>4. PassedRowsLanded'
    <2>1. \A k \in Pk : table[k] \in Nat
      BY DEF TypeInv, TypeOK
    <2> QED
      BY <1>1, <2>1, NoBlobType DEF PassedRowsLanded, Seed, sourceVars
  <1> QED
    BY <1>2, <1>3, <1>4 DEF WalkInv

LEMMA StepWalk ==
    ~Bulk => (TypeInv /\ GroundInv /\ WalkInv /\ [Next]_vars => WalkInv')
  <1> SUFFICES ASSUME ~Bulk, TypeInv, GroundInv, WalkInv, [Next]_vars
               PROVE  WalkInv'
    OBVIOUS
  <1>1. CASE UNCHANGED vars
    BY <1>1
       DEF vars, sourceVars, stateVars, startVars, WalkInv, RowsInv,
           DistinctInv, BoundInv, AtMost, SpanInv, Suspended, RunInv, SweepInv,
           KeysetInv, Have, Fresh, Seed, PassedRowsLanded
  <1>2. ASSUME NEW keys \in SUBSET Pk, NEW stamp \in 1 .. MaxStamp,
               Commit(keys, stamp)
        PROVE  WalkInv'
    BY <1>2, CommitKeeps
  <1>3. ASSUME NEW fullRefresh \in BOOLEAN, Begin(fullRefresh)
        PROVE  WalkInv'
    BY <1>3, BeginKeeps
  <1>4. CASE RunStep
    BY <1>4, PauseKeeps, ReadPageKeeps, ReadNothingKeeps, ResumeKeeps,
       WriteKeeps, FlushKeeps, FinalKeeps DEF RunStep
  <1>5. ASSUME NEW inFlight \in BOOLEAN, Interrupt(inFlight)
        PROVE  WalkInv'
    BY <1>5, InterruptKeeps
  <1>6. CASE ResetState
    BY <1>6, ResetKeeps
  <1> QED
    BY <1>1, <1>2, <1>3, <1>4, <1>5, <1>6 DEF Next

\* Whatever is interrupted, updated behind the walk or resumed in a later run,
\* the persisted state has passed no row that is not in the destination in its
\* current version, for every page size, page cap, throttle and set of keys,
\* provided that no transaction stamps two rows alike.
THEOREM PassesNoRow == ~Bulk => (Spec => []PassedRowsLanded)
  <1> SUFFICES ASSUME ~Bulk PROVE Spec => []PassedRowsLanded
    OBVIOUS
  <1>1. TypeInv /\ GroundInv /\ WalkInv /\ [Next]_vars => WalkInv'
    BY StepWalk
  <1>2. WalkInv => PassedRowsLanded
    BY DEF WalkInv
  <1> QED
    BY <1>1, <1>2, InitWalk, AlwaysGround, PTL DEF Spec
=============================================================================
