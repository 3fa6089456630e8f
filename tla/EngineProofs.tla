--------------------------- MODULE EngineProofs ---------------------------
(***************************************************************************)
(* Proofs about the engine, for every value of the constants.              *)
(*                                                                         *)
(* StreamLoad: its loop never skips a row, never moves the persisted       *)
(* cursor back, and implements AtLeastOnce, provided that tied cursor      *)
(* values are covered (TiesCovered) and no `since:` is ahead of the resume *)
(* point.  NoSkip is not inductive: it says nothing of a run under way.    *)
(* LoadInv adds what the run knows: which rows of its snapshot are where,  *)
(* that the rows it will still yield are at or after the observed maximum  *)
(* of an ordered stream, and that its floor and its own view of table and  *)
(* cursor skip nothing either.                                             *)
(*                                                                         *)
(* TagSweep: no destination ever has more writers than its cap, the        *)
(* sweep's answers agree with the run records, and only a signal or a      *)
(* close hook ends a sweep early.                                          *)
(***************************************************************************)
EXTENDS StreamLoad, TagSweep, TLAPS, FiniteSetTheorems

\* The guarantees hold when ties cannot be stepped over and an operator's
\* `since:` does not jump ahead.
Careful == TiesCovered /\ ~SinceAhead

\* Rows that have landed, or that a run resuming from c will ask for.
SafeFrom(rows, c) ==
    \A r \in source : r \in rows \/ Reaches(CursorOf[r], Seed(c))

\* A persisted cursor is never beyond the newest row of the source.
Bounded(c) ==
    c = None \/ c <= Initial \/ \E q \in source : c <= CursorOf[q]

NotAbove(a, b) == a = None \/ (b # None /\ a <= b)

\* Facts about the committed row and table.
CommittedInv ==
    /\ target \subseteq source
    /\ SafeFrom(target, cursor)
    /\ Bounded(cursor)

\* Where the rows of the run's snapshot are.
SnapshotInv ==
    /\ snapshot \subseteq source
    /\ unread \subseteq snapshot /\ pending \subseteq snapshot
    /\ \A r \in source \ snapshot, q \in snapshot :
           Reaches(CursorOf[r], CursorOf[q] - Lookback)
    /\ pc \in {"written", "committing", "closing"} => pending = {}
    /\ pc \in {"committing", "closing"} => unread = {}

\* What the observed maximum says of the rows not yet yielded.
ObservedInv ==
    /\ observed # None =>
         /\ \E q \in snapshot \ unread : CursorOf[q] = observed
         /\ ordered => \A r \in unread : CursorOf[r] >= observed
    /\ \A r \in unread : ~FullRefresh => CursorOf[r] >= seed
    /\ ~FullRefresh /\ observed # None => observed >= seed

\* The seed is at or before the point the prior cursor resumes from, and
\* every snapshot row the seed reaches is unread, buffered or loaded.
SeedInv ==
    IF FullRefresh
    THEN seed = None /\ floor = None /\ flushed = cursor
    ELSE /\ seed \in Int /\ seed <= Seed(floor)
         /\ \A r \in snapshot : Reaches(CursorOf[r], seed)
                                  => r \in unread \cup pending \cup loaded
         /\ NotAbove(flushed, FinalCursor)
         /\ ~ordered /\ pc # "closing" => NotAbove(flushed, Floor(seed, floor))

\* The run's own view of table and cursor.
OwnInv ==
    /\ target \subseteq loaded /\ loaded \subseteq source
    /\ SafeFrom(loaded, flushed) /\ SafeFrom(loaded, floor)
    /\ Bounded(flushed) /\ Bounded(floor)
    /\ NotAbove(cursor, flushed)
    /\ ~transactional => target = loaded /\ cursor = flushed

LoadInv ==
    /\ TypeOK
    /\ CommittedInv
    /\ pc # "idle" => SnapshotInv /\ ObservedInv /\ SeedInv /\ OwnInv
-----------------------------------------------------------------------------
\* Every action leaves the kind of stream and destination alone.
USE DEF kindVars

\* A filter starting earlier returns no less.
LEMMA ReachesEarlier ==
    ASSUME NEW v \in Int, NEW s \in Int, NEW t \in Int, t <= s, Reaches(v, s)
    PROVE  Reaches(v, t)
  BY DEF Reaches

\* Every row is in the declared range of the stream.
LEMMA ReachesInitial ==
    ASSUME NEW r \in Row, NEW t \in Int, t <= Initial
    PROVE  Reaches(CursorOf[r], t)
  BY StreamAssumption, ConnectorAssumption
     DEF StreamAssumption, ConnectorAssumption, Reaches

LEMMA SeedType ==
    ASSUME NEW c \in MaybeInt
    PROVE  Seed(c) \in Int
  BY StreamAssumption DEF StreamAssumption, Seed, MaybeInt

\* The clamp returns one of its arguments, and nothing below either.
LEMMA FloorType ==
    ASSUME NEW a \in MaybeInt, NEW b \in MaybeInt
    PROVE  /\ Floor(a, b) \in {a, b}
           /\ NotAbove(a, Floor(a, b)) /\ NotAbove(b, Floor(a, b))
  BY StreamAssumption DEF StreamAssumption, Floor, MaybeInt, NotAbove

LEMMA NotAboveTransitive ==
    ASSUME NEW a \in MaybeInt, NEW b \in MaybeInt, NEW c \in MaybeInt,
           NotAbove(a, b), NotAbove(b, c)
    PROVE  NotAbove(a, c)
  BY StreamAssumption DEF StreamAssumption, MaybeInt, NotAbove

\* The clamp is monotone in the value clamped.
LEMMA FloorMonotone ==
    ASSUME NEW a \in MaybeInt, NEW b \in MaybeInt, NEW f \in MaybeInt,
           NotAbove(a, b)
    PROVE  NotAbove(Floor(a, f), Floor(b, f))
  BY StreamAssumption DEF StreamAssumption, Floor, MaybeInt, NotAbove

\* A row that arrives in time is behind no cursor the source's rows bound.
LEMMA ArrivalInTime ==
    ASSUME TypeOK, NEW r \in Row, Arrive(r),
           NEW c \in MaybeInt, Bounded(c)
    PROVE  Reaches(CursorOf[r], Seed(c))
  <1> USE StreamAssumption, ConnectorAssumption
          DEF StreamAssumption, ConnectorAssumption
  <1>1. CASE c = None \/ c <= Initial
    <2>1. Seed(c) \in Int /\ Seed(c) <= Initial
      BY <1>1, SeedType DEF Seed, MaybeInt
    <2> QED
      BY <2>1, ReachesInitial
  <1>2. ASSUME NEW q \in source, c # None, c <= CursorOf[q]
        PROVE  Reaches(CursorOf[r], Seed(c))
    <2>1. q \in Row /\ CursorOf[q] \in Int /\ CursorOf[r] \in Int
      BY <1>2 DEF TypeOK
    <2>2. Reaches(CursorOf[r], CursorOf[q] - Lateness)
      BY <1>2 DEF Arrive
    <2>3. Seed(c) \in Int /\ Seed(c) <= CursorOf[q] - Lateness
      BY <1>2, <2>1, SeedType DEF Seed, MaybeInt
    <2> QED
      BY <2>1, <2>2, <2>3, ReachesEarlier
  <1> QED
    BY <1>1, <1>2 DEF Bounded

\* So no new row is skipped by such a cursor.
LEMMA ArrivalSafe ==
    ASSUME TypeOK, NEW r \in Row, Arrive(r), NEW rows,
           NEW c \in MaybeInt, Bounded(c), SafeFrom(rows, c)
    PROVE  /\ \A q \in source' : q \in rows \/ Reaches(CursorOf[q], Seed(c))
           /\ c = None \/ c <= Initial \/ \E q \in source' : c <= CursorOf[q]
  BY ArrivalInTime DEF Arrive, SafeFrom, Bounded

\* The seed of a careful run skips no row that its floor does not skip.
LEMMA SeedSafe ==
    ASSUME TypeOK, NEW rows, NEW f \in MaybeInt, NEW start \in Int,
           start <= Seed(f), SafeFrom(rows, f), Bounded(f)
    PROVE  SafeFrom(rows, start) /\ Bounded(start)
  <1> USE StreamAssumption DEF StreamAssumption
  <1>1. Seed(f) \in Int /\ Seed(start) \in Int /\ Seed(start) <= Seed(f)
    BY SeedType DEF Seed, MaybeInt
  <1>2. SafeFrom(rows, start)
    BY <1>1, ReachesEarlier DEF SafeFrom, TypeOK
  <1>3. Bounded(start)
    <2>1. CASE f = None \/ f <= Initial
      BY <2>1 DEF Seed, Bounded, MaybeInt
    <2>2. ASSUME NEW q \in source, f # None, f <= CursorOf[q]
          PROVE  start <= CursorOf[q]
      BY <2>2 DEF Seed, MaybeInt, TypeOK
    <2> QED
      BY <2>1, <2>2 DEF Bounded
  <1> QED
    BY <1>2, <1>3

\* Whatever the run's cursor is clamped to, no row is skipped.
LEMMA FloorSafe ==
    ASSUME NEW rows, NEW a \in MaybeInt, NEW b \in MaybeInt,
           SafeFrom(rows, a), SafeFrom(rows, b), Bounded(a), Bounded(b)
    PROVE  SafeFrom(rows, Floor(a, b)) /\ Bounded(Floor(a, b))
  BY FloorType DEF SafeFrom, Bounded

\* Once the buffer is written, the observed maximum is a safe resume point of
\* an ordered stream, and of any stream that has been read to the end.
LEMMA ObservedSafe ==
    ASSUME Careful, TypeOK, SnapshotInv, ObservedInv, SeedInv, OwnInv,
           ~FullRefresh, observed # None, pending = {},
           ordered \/ unread = {}
    PROVE  SafeFrom(loaded, observed) /\ Bounded(observed)
  <1> USE StreamAssumption DEF StreamAssumption
  <1>1. PICK q \in snapshot \ unread : CursorOf[q] = observed
    BY DEF ObservedInv
  <1>2. q \in source /\ q \in Row /\ observed \in Int
        /\ Seed(observed) = observed - Lookback
    BY <1>1 DEF SnapshotInv, TypeOK, Seed
  <1>3. ASSUME NEW r \in source, r \notin loaded
        PROVE  Reaches(CursorOf[r], Seed(observed))
    <2>1. r \in Row /\ CursorOf[r] \in Int /\ Seed(floor) \in Int
      BY SeedType DEF TypeOK
    <2>2. CASE r \notin snapshot
      BY <2>2, <1>1, <1>2 DEF SnapshotInv
    <2>3. CASE r \in snapshot
      <3>1. Reaches(CursorOf[r], seed)
        BY <1>3, <2>1, ReachesEarlier DEF OwnInv, SafeFrom, SeedInv
      <3>2. r \in unread
        BY <1>3, <2>3, <3>1 DEF SeedInv
      <3>3. CursorOf[r] >= observed /\ r # q
        BY <1>1, <3>2 DEF ObservedInv
      <3> QED
        BY <3>3, <2>1, <1>1, <1>2 DEF Careful, TiesCovered, Reaches
    <2> QED
      BY <2>2, <2>3
  <1> QED
    BY <1>1, <1>2, <1>3 DEF SafeFrom, Bounded

\* The type invariant: every step of the load keeps each variable in its set.
THEOREM Typing == Spec => []TypeOK
  <1>1. Init => TypeOK
    BY StreamAssumption DEF StreamAssumption, Init, TypeOK, MaybeInt
  <1>2. TypeOK /\ [Next]_vars => TypeOK'
    <2> SUFFICES ASSUME TypeOK, [Next]_vars PROVE TypeOK'
      OBVIOUS
    <2> USE StreamAssumption DEF StreamAssumption
    <2>1. ASSUME NEW r \in Row, Arrive(r) PROVE TypeOK'
      BY <2>1 DEF TypeOK, Arrive, tableVars, seedVars, readVars, ownVars
    <2>2. ASSUME NEW m \in {"incremental", "full_refresh"},
                 NEW start \in Int, Begin(m, start)
          PROVE TypeOK'
      BY <2>2 DEF TypeOK, Begin, tableVars, MaybeInt
    <2>3. CASE BeginIncremental
      BY <2>2, <2>3, SeedType DEF BeginIncremental, TypeOK
    <2>4. CASE BeginFullRefresh
      BY <2>2, <2>4 DEF BeginFullRefresh
    <2>5. ASSUME NEW since \in SinceValues, BeginSince(since) PROVE TypeOK'
      BY <2>2, <2>5 DEF BeginSince
    <2>6. ASSUME NEW batch \in SUBSET unread, PullBatch(batch) PROVE TypeOK'
      BY <2>6 DEF TypeOK, PullBatch, Observe, tableVars, seedVars, ownVars,
                  MaybeInt
    <2>7. CASE SourceExhausted
      BY <2>7 DEF TypeOK, SourceExhausted, tableVars, seedVars, readVars,
                  ownVars
    <2>8. CASE WriteBatch
      BY <2>8 DEF TypeOK, WriteBatch, Publish, tableVars, seedVars, readVars
    <2>9. CASE FlushState
      <3>1. FlushCursor \in MaybeInt
        BY FloorType DEF TypeOK, FlushCursor
      <3>2. flushed' \in MaybeInt /\ sinceFlush' \in 0 .. FlushInterval
        BY <2>9, <3>1 DEF FlushState, TypeOK
      <3> QED
        BY <2>9, <3>2 DEF TypeOK, FlushState, Publish, tableVars, seedVars,
                          readVars
    <2>10. EndRun =>
             /\ pc' = "idle" /\ mode' \in {"incremental", "full_refresh"}
             /\ seed' \in MaybeInt /\ floor' \in MaybeInt
             /\ observed' \in MaybeInt /\ flushed' \in MaybeInt
             /\ snapshot' = {} /\ unread' = {} /\ pending' = {} /\ loaded' = {}
             /\ sinceFlush' \in 0 .. FlushInterval
      BY DEF EndRun, MaybeInt
    <2>11. CASE FinalCommit
      <3>1. FinalCursor \in MaybeInt
        BY FloorType DEF TypeOK, FinalCursor
      <3>2. CASE transactional
        BY <2>11, <3>1, <3>2 DEF TypeOK, FinalCommit, tableVars, seedVars,
                                 readVars
      <3>3. CASE ~transactional
        BY <2>11, <3>1, <3>3, <2>10 DEF TypeOK, FinalCommit
      <3> QED
        BY <3>2, <3>3
    <2>12. CASE CommitTransaction
      BY <2>12, <2>10 DEF TypeOK, CommitTransaction
    <2>13. ASSUME NEW part \in SUBSET pending, Interrupt(part) PROVE TypeOK'
      BY <2>13, <2>10 DEF TypeOK, Interrupt
    <2>14. CASE ResetState
      BY <2>14 DEF TypeOK, ResetState, seedVars, readVars, ownVars, MaybeInt
    <2>15. CASE Tick
      BY <2>15 DEF TypeOK, Tick, tableVars, seedVars, readVars, ownVars
    <2>16. CASE UNCHANGED vars
      BY <2>16 DEF TypeOK, vars, tableVars, seedVars, readVars, ownVars
    <2> QED
      BY <2>1, <2>3, <2>4, <2>5, <2>6, <2>7, <2>8, <2>9, <2>11, <2>12, <2>13,
         <2>14, <2>15, <2>16 DEF Next, RunStep
  <1> QED
    BY <1>1, <1>2, PTL DEF Spec
-----------------------------------------------------------------------------
\* One lemma per action: LoadInv is preserved.

LEMMA ArriveKeepsInv ==
    ASSUME LoadInv, TypeOK', NEW r \in Row, Arrive(r)
    PROVE  LoadInv'
  <1> USE DEF LoadInv
  <1>1. /\ source' = source \cup {r}
        /\ UNCHANGED <<target, cursor, pc, mode, seed, floor, snapshot, unread,
                       pending, observed, loaded, flushed, ordered,
                       transactional>>
    BY DEF Arrive, tableVars, seedVars, readVars, ownVars
  <1>2. CommittedInv'
    BY <1>1, ArrivalSafe DEF CommittedInv, SafeFrom, Bounded, TypeOK
  <1>3. ASSUME pc # "idle" PROVE (SnapshotInv /\ ObservedInv /\ SeedInv /\ OwnInv)'
    <2>1. ASSUME NEW q \in snapshot
          PROVE  Reaches(CursorOf[r], CursorOf[q] - Lookback)
      <3>1. q \in source /\ CursorOf[q] \in Int /\ CursorOf[r] \in Int
        BY <1>3, <2>1, StreamAssumption
           DEF SnapshotInv, TypeOK, StreamAssumption
      <3> QED
        BY <3>1, ReachesEarlier, StreamAssumption, ConnectorAssumption
           DEF Arrive, StreamAssumption, ConnectorAssumption
    <2>2. SnapshotInv'
      BY <1>1, <1>3, <2>1 DEF SnapshotInv
    <2>3. (ObservedInv /\ SeedInv)'
      BY <1>1, <1>3 DEF ObservedInv, SeedInv, FinalCursor, FullRefresh
    <2>4. OwnInv'
      BY <1>1, <1>3, ArrivalSafe DEF OwnInv, SafeFrom, Bounded, TypeOK
    <2> QED
      BY <2>2, <2>3, <2>4
  <1> QED
    BY <1>1, <1>2, <1>3

LEMMA BeginKeepsInv ==
    ASSUME LoadInv, TypeOK', NEW m \in {"incremental", "full_refresh"},
           NEW start \in Int, start <= Seed(cursor), Begin(m, start)
    PROVE  LoadInv'
  <1> USE DEF LoadInv
  <1> USE StreamAssumption DEF StreamAssumption
  <1>1. CommittedInv'
    BY DEF Begin, tableVars, CommittedInv, SafeFrom, Bounded
  <1>2. SnapshotInv'
    BY DEF Begin, SnapshotInv
  <1>3. ObservedInv'
    BY DEF Begin, ObservedInv, FullRefresh, Reaches, TypeOK
  <1>4. SafeFrom(target, cursor) /\ Bounded(cursor) /\ target \subseteq source
    BY DEF CommittedInv
  <1>5. SafeFrom(target, None) /\ Bounded(None)
    BY ReachesInitial DEF SafeFrom, Bounded, Seed, TypeOK
  <1>6. OwnInv'
    BY <1>4, <1>5 DEF Begin, OwnInv, SafeFrom, Bounded, NotAbove, tableVars,
                      TypeOK, MaybeInt
  <1>7. SeedInv'
    <2>1. CASE m = "full_refresh"
      BY <2>1 DEF Begin, SeedInv, FullRefresh, tableVars
    <2>2. CASE m = "incremental"
      <3>1. NotAbove(cursor, Floor(start, cursor)) /\ start \in MaybeInt
        BY FloorType DEF MaybeInt, TypeOK
      <3>2. ~FullRefresh' /\ seed' = start /\ floor' = cursor /\ observed' = None
            /\ flushed' = cursor /\ pc' = "pulling" /\ snapshot' = source
            /\ unread' = {r \in source : Reaches(CursorOf[r], start)}
        BY <2>2 DEF Begin, FullRefresh
      <3> QED
        BY <3>1, <3>2 DEF SeedInv, FinalCursor
    <2> QED
      BY <2>1, <2>2
  <1> QED
    BY <1>1, <1>2, <1>3, <1>6, <1>7

LEMMA PullKeepsInv ==
    ASSUME LoadInv, TypeOK', NEW batch \in SUBSET unread, PullBatch(batch)
    PROVE  LoadInv'
  <1> USE DEF LoadInv
  <1> USE StreamAssumption DEF StreamAssumption
  <1>1. /\ unread' = unread \ batch /\ pending' = pending \cup batch
        /\ UNCHANGED <<source, target, cursor, mode, seed, floor, snapshot,
                       loaded, flushed, ordered, transactional>>
        /\ pc = "pulling" /\ pc' \in {"pulling", "writing"}
    BY DEF PullBatch, tableVars, seedVars, ownVars
  <1>2. PICK newest \in batch :
          /\ \A r \in batch : CursorOf[r] <= CursorOf[newest]
          /\ observed' = Observe(observed, CursorOf[newest])
    BY DEF PullBatch
  <1>3. newest \in snapshot /\ CursorOf[newest] \in Int /\ newest \in unread
    BY <1>1 DEF SnapshotInv, TypeOK
  <1>4. CommittedInv' /\ SnapshotInv' /\ OwnInv'
    BY <1>1 DEF CommittedInv, SnapshotInv, OwnInv, SafeFrom, Bounded
  <1>5. ObservedInv'
    <2>1. \E q \in snapshot' \ unread' : CursorOf[q] = observed'
      BY <1>1, <1>2, <1>3 DEF ObservedInv, Observe
    <2>2. ASSUME ordered, NEW r \in unread' PROVE CursorOf[r] >= observed'
      <3>1. CursorOf[r] >= CursorOf[newest] /\ CursorOf[r] \in Int
        BY <2>2, <1>1, <1>3 DEF PullBatch, TypeOK
      <3> QED
        BY <1>1, <1>2, <1>3, <2>2, <3>1 DEF ObservedInv, Observe
    <2>3. ASSUME ~FullRefresh PROVE observed' >= seed'
      BY <2>3, <1>1, <1>2, <1>3 DEF ObservedInv, SeedInv, Observe, TypeOK,
                                    MaybeInt
    <2> QED
      BY <1>1, <2>1, <2>2, <2>3 DEF ObservedInv, FullRefresh
  <1>6. SeedInv'
    <2>1. CASE FullRefresh
      BY <2>1, <1>1 DEF SeedInv, FullRefresh
    <2>2. CASE ~FullRefresh
      <3>1. NotAbove(FinalCursor, FinalCursor')
        <4>1. NotAbove(IF observed # None THEN observed ELSE seed, observed')
              /\ observed' \in Int
          BY <2>2, <1>2, <1>3 DEF Observe, NotAbove, ObservedInv, SeedInv,
                                  TypeOK, MaybeInt
        <4> QED
          BY <4>1, <1>1, FloorMonotone DEF FinalCursor, TypeOK, MaybeInt
      <3>2. NotAbove(flushed', FinalCursor')
        <4>1. FinalCursor \in MaybeInt /\ FinalCursor' \in MaybeInt
          BY FloorType DEF FinalCursor, TypeOK
        <4> QED
          BY <2>2, <1>1, <3>1, <4>1, NotAboveTransitive DEF SeedInv, TypeOK
      <3> QED
        BY <2>2, <1>1, <3>2 DEF SeedInv, FullRefresh
    <2> QED
      BY <2>1, <2>2
  <1> QED
    BY <1>1, <1>4, <1>5, <1>6

LEMMA ExhaustedKeepsInv ==
    ASSUME LoadInv, TypeOK', SourceExhausted
    PROVE  LoadInv'
  BY DEF LoadInv, SourceExhausted, tableVars, seedVars, readVars, ownVars,
         CommittedInv, SnapshotInv, ObservedInv, SeedInv, OwnInv, SafeFrom,
         Bounded, FinalCursor, FullRefresh

LEMMA WriteKeepsInv ==
    ASSUME LoadInv, TypeOK', WriteBatch
    PROVE  LoadInv'
  <1> USE DEF LoadInv
  <1>1. /\ loaded' = loaded \cup pending /\ pending' = {}
        /\ pc = "writing" /\ pc' = "written"
        /\ target' \in {target, loaded'} /\ cursor' \in {cursor, flushed}
        /\ ~transactional => target' = loaded' /\ cursor' = flushed
        /\ UNCHANGED <<source, mode, seed, floor, snapshot, unread, observed,
                       flushed, ordered, transactional>>
    BY DEF WriteBatch, Publish, tableVars, seedVars, readVars
  <1>2. pending \subseteq source
    BY <1>1 DEF SnapshotInv
  <1>3. SnapshotInv' /\ ObservedInv' /\ SeedInv'
    BY <1>1 DEF SnapshotInv, ObservedInv, SeedInv, FinalCursor, FullRefresh
  <1>4. OwnInv'
    BY <1>1, <1>2 DEF OwnInv, SafeFrom, Bounded, NotAbove, TypeOK, MaybeInt
  <1>5. CommittedInv'
    BY <1>1, <1>2 DEF CommittedInv, OwnInv, SafeFrom, Bounded, WriteBatch,
                      Publish, tableVars
  <1> QED
    BY <1>1, <1>3, <1>4, <1>5

\* The value a flush persists, and the value a run ends with.
LEMMA FlushSafe ==
    ASSUME Careful, TypeOK, SnapshotInv, ObservedInv, SeedInv, OwnInv,
           ~FullRefresh, pending = {}, pc # "closing"
    PROVE  /\ FlushCursor \in MaybeInt
           /\ SafeFrom(loaded, FlushCursor) /\ Bounded(FlushCursor)
           /\ NotAbove(flushed, FlushCursor)
           /\ NotAbove(FlushCursor, FinalCursor)
           /\ ~ordered => FlushCursor = Floor(seed, floor)
           /\ NotAbove(Floor(seed, floor), FinalCursor)
  <1> DEFINE value == IF observed # None /\ ordered THEN observed ELSE seed
             last == IF observed # None THEN observed ELSE seed
  <1>1. value \in MaybeInt /\ last \in MaybeInt /\ floor \in MaybeInt
        /\ flushed \in MaybeInt /\ seed \in Int /\ seed \in MaybeInt
    BY DEF TypeOK, SeedInv
  <1>2. SafeFrom(loaded, seed) /\ Bounded(seed)
    BY <1>1, SeedSafe DEF SeedInv, OwnInv
  <1>3. SafeFrom(loaded, value) /\ Bounded(value)
    BY <1>2, ObservedSafe
  <1>4. SafeFrom(loaded, Floor(value, floor)) /\ Bounded(Floor(value, floor))
    BY <1>1, <1>3, FloorSafe DEF OwnInv
  <1>5. NotAbove(value, last) /\ NotAbove(seed, last)
    BY <1>1 DEF ObservedInv, NotAbove, TypeOK, MaybeInt
  <1>6. /\ NotAbove(Floor(value, floor), Floor(last, floor))
        /\ NotAbove(Floor(seed, floor), Floor(last, floor))
    BY <1>1, <1>5, FloorMonotone
  <1>7. NotAbove(flushed, Floor(value, floor))
    BY DEF SeedInv, FinalCursor
  <1>8. Floor(value, floor) \in MaybeInt
    BY <1>1, FloorType
  <1>9. FlushCursor = Floor(value, floor) /\ FinalCursor = Floor(last, floor)
    BY DEF FlushCursor, FinalCursor
  <1> QED
    BY <1>4, <1>6, <1>7, <1>8, <1>9

LEMMA FinalSafe ==
    ASSUME Careful, TypeOK, SnapshotInv, ObservedInv, SeedInv, OwnInv,
           ~FullRefresh, pending = {}, unread = {}
    PROVE  /\ FinalCursor \in MaybeInt
           /\ SafeFrom(loaded, FinalCursor) /\ Bounded(FinalCursor)
           /\ NotAbove(flushed, FinalCursor)
  <1> DEFINE last == IF observed # None THEN observed ELSE seed
  <1>1. last \in MaybeInt /\ floor \in MaybeInt /\ seed \in Int
    BY DEF TypeOK, SeedInv
  <1>2. SafeFrom(loaded, seed) /\ Bounded(seed)
    BY <1>1, SeedSafe DEF SeedInv, OwnInv
  <1>3. SafeFrom(loaded, last) /\ Bounded(last)
    BY <1>2, ObservedSafe
  <1>4. /\ SafeFrom(loaded, Floor(last, floor)) /\ Bounded(Floor(last, floor))
        /\ Floor(last, floor) \in MaybeInt
    BY <1>1, <1>3, FloorSafe, FloorType DEF OwnInv
  <1> QED
    BY <1>4 DEF FinalCursor, SeedInv

LEMMA FlushKeepsInv ==
    ASSUME Careful, LoadInv, TypeOK', FlushState
    PROVE  LoadInv'
  <1> USE DEF LoadInv
  <1>1. /\ pc = "written" /\ pc' = "pulling" /\ pending = {}
        /\ FullRefresh => flushed' = flushed
        /\ flushed' \in {flushed, FlushCursor}
        /\ UNCHANGED <<source, loaded, mode, seed, floor, snapshot, unread,
                       observed, pending, ordered, transactional>>
    BY DEF FlushState, seedVars, readVars, SnapshotInv
  <1>5. /\ transactional => target' = target /\ cursor' = cursor
        /\ ~transactional => target' = loaded' /\ cursor' = flushed'
    BY DEF FlushState, Publish, tableVars
  <1>2. SnapshotInv' /\ ObservedInv'
    BY <1>1 DEF SnapshotInv, ObservedInv, FullRefresh
  <1>3. CASE flushed' = flushed
    <2>1. target' = target /\ cursor' = cursor
      BY <1>5, <1>1, <1>3 DEF OwnInv
    <2> QED
      BY <1>1, <1>2, <1>3, <2>1 DEF CommittedInv, SeedInv, OwnInv, SafeFrom,
                                    Bounded, FinalCursor, FullRefresh
  <1>4. CASE ~FullRefresh /\ flushed' = FlushCursor
    <2>1. /\ flushed' \in MaybeInt
          /\ SafeFrom(loaded, flushed') /\ Bounded(flushed')
          /\ NotAbove(flushed, flushed') /\ NotAbove(flushed', FinalCursor)
          /\ ~ordered => flushed' = Floor(seed, floor)
      BY <1>1, <1>4, FlushSafe
    <2>2. NotAbove(cursor, flushed')
      BY <1>1, <2>1, NotAboveTransitive DEF OwnInv, TypeOK
    <2>3. OwnInv'
      BY <1>5, <1>1, <2>1, <2>2, FloorType DEF OwnInv, SafeFrom, Bounded, NotAbove,
                              TypeOK, MaybeInt
    <2>4. CommittedInv'
      BY <1>5, <1>1, <2>1 DEF CommittedInv, OwnInv, SafeFrom, Bounded
    <2>5. NotAbove(Floor(seed, floor), Floor(seed, floor))
      BY FloorType DEF NotAbove, TypeOK, MaybeInt, SeedInv
    <2>6. SeedInv'
      BY <1>1, <1>4, <2>1, <2>5 DEF SeedInv, FinalCursor, FullRefresh
    <2> QED
      BY <1>1, <1>2, <2>3, <2>4, <2>6
  <1> QED
    BY <1>1, <1>3, <1>4

LEMMA FinalCommitKeepsInv ==
    ASSUME Careful, LoadInv, TypeOK', FinalCommit
    PROVE  LoadInv'
  <1> USE DEF LoadInv
  <1> DEFINE cursorAfter == IF FullRefresh THEN flushed ELSE FinalCursor
  <1>1. /\ pc = "committing" /\ pending = {} /\ unread = {}
        /\ source' = source
    BY DEF FinalCommit, SnapshotInv
  <1>2. /\ cursorAfter \in MaybeInt
        /\ SafeFrom(loaded, cursorAfter) /\ Bounded(cursorAfter)
        /\ NotAbove(flushed, cursorAfter)
    BY <1>1, FinalSafe, FloorType DEF OwnInv, TypeOK, NotAbove, MaybeInt
  <1>3. CASE transactional
    <2>1. /\ flushed' = cursorAfter /\ pc' = "closing"
          /\ UNCHANGED <<target, cursor, mode, seed, floor, snapshot, unread,
                         observed, pending, loaded, ordered, transactional>>
      BY <1>3 DEF FinalCommit, tableVars, seedVars, readVars
    <2>2. CommittedInv' /\ SnapshotInv' /\ ObservedInv'
      BY <1>1, <2>1 DEF CommittedInv, SafeFrom, Bounded, SnapshotInv,
                        ObservedInv, FullRefresh
    <2>3. NotAbove(cursor, cursorAfter)
      BY <1>1, <1>2, NotAboveTransitive DEF OwnInv, TypeOK
    <2>4. OwnInv'
      BY <1>1, <1>2, <1>3, <2>1, <2>3 DEF OwnInv, SafeFrom, Bounded, NotAbove
    <2>5. SeedInv'
      BY <1>1, <1>2, <2>1 DEF SeedInv, FinalCursor, FullRefresh, NotAbove,
                              TypeOK, MaybeInt
    <2> QED
      BY <2>2, <2>4, <2>5
  <1>4. CASE ~transactional
    <2>1. /\ cursor' = cursorAfter /\ target' = target /\ target = loaded
          /\ pc' = "idle"
      BY <1>1, <1>4 DEF FinalCommit, EndRun, OwnInv
    <2> QED
      BY <1>1, <1>2, <2>1 DEF CommittedInv, SafeFrom, Bounded
  <1> QED
    BY <1>3, <1>4

LEMMA CommitKeepsInv ==
    ASSUME LoadInv, TypeOK', CommitTransaction
    PROVE  LoadInv'
  BY DEF LoadInv, CommitTransaction, EndRun, CommittedInv, OwnInv, SafeFrom,
         Bounded

LEMMA InterruptKeepsInv ==
    ASSUME LoadInv, TypeOK', NEW part \in SUBSET pending, Interrupt(part)
    PROVE  LoadInv'
  BY DEF LoadInv, Interrupt, EndRun, CommittedInv, SnapshotInv, SafeFrom,
         Bounded

LEMMA ResetKeepsInv ==
    ASSUME LoadInv, TypeOK', ResetState
    PROVE  LoadInv'
  <1>1. CommittedInv'
    BY ReachesInitial, StreamAssumption
       DEF LoadInv, ResetState, CommittedInv, SafeFrom, Bounded, Seed, TypeOK,
           StreamAssumption
  <1> QED
    BY <1>1 DEF LoadInv, ResetState

LEMMA IdleStepKeepsInv ==
    ASSUME LoadInv, TypeOK', Tick \/ UNCHANGED vars
    PROVE  LoadInv'
  BY DEF LoadInv, Tick, vars, tableVars, seedVars, readVars, ownVars,
         CommittedInv, SnapshotInv, ObservedInv, SeedInv, OwnInv, SafeFrom,
         Bounded, FinalCursor, FullRefresh
-----------------------------------------------------------------------------
\* LoadInv holds initially and in every step.
LEMMA InitLoadInv == Init => LoadInv
  BY Typing, StreamAssumption
     DEF Init, LoadInv, TypeOK, CommittedInv, SafeFrom, Bounded, MaybeInt,
         StreamAssumption

LEMMA StepKeepsInv ==
    ASSUME Careful, LoadInv, TypeOK', [Next]_vars
    PROVE  LoadInv'
  <1> USE StreamAssumption DEF StreamAssumption
  <1>1. ASSUME NEW r \in Row, Arrive(r) PROVE LoadInv'
    BY <1>1, ArriveKeepsInv
  <1>2. cursor \in MaybeInt /\ Seed(cursor) \in Int
    BY SeedType DEF LoadInv, TypeOK
  <1>3. CASE BeginIncremental
    BY <1>2, <1>3, BeginKeepsInv DEF BeginIncremental
  <1>4. CASE BeginFullRefresh
    <2>1. Begin("full_refresh", IF Initial <= Seed(cursor) THEN Initial
                                                          ELSE Seed(cursor))
      BY <1>4 DEF BeginFullRefresh, Begin
    <2> QED
      BY <1>2, <2>1, BeginKeepsInv
  <1>5. ASSUME NEW since \in SinceValues, BeginSince(since) PROVE LoadInv'
    BY <1>2, <1>5, BeginKeepsInv DEF BeginSince, Careful
  <1>6. ASSUME NEW batch \in SUBSET unread, PullBatch(batch) PROVE LoadInv'
    BY <1>6, PullKeepsInv
  <1>7. CASE SourceExhausted
    BY <1>7, ExhaustedKeepsInv
  <1>8. CASE WriteBatch
    BY <1>8, WriteKeepsInv
  <1>9. CASE FlushState
    BY <1>9, FlushKeepsInv
  <1>10. CASE FinalCommit
    BY <1>10, FinalCommitKeepsInv
  <1>11. CASE CommitTransaction
    BY <1>11, CommitKeepsInv
  <1>12. ASSUME NEW part \in SUBSET pending, Interrupt(part) PROVE LoadInv'
    BY <1>12, InterruptKeepsInv
  <1>13. CASE ResetState
    BY <1>13, ResetKeepsInv
  <1>14. CASE Tick \/ UNCHANGED vars
    BY <1>14, IdleStepKeepsInv
  <1> QED
    BY <1>1, <1>3, <1>4, <1>5, <1>6, <1>7, <1>8, <1>9, <1>10, <1>11, <1>12,
       <1>13, <1>14 DEF Next, RunStep

\* The inductive invariant of the load.
THEOREM Invariance ==
    ASSUME Careful
    PROVE  Spec => []LoadInv
  <1>1. LoadInv /\ TypeOK' /\ [Next]_vars => LoadInv'
    BY StepKeepsInv
  <1> QED
    BY <1>1, InitLoadInv, Typing, PTL DEF Spec

\* No interleaving of writes, flushes, interruptions, resets and late rows
\* steps over a row of the source (docs/05 section 5.3).
THEOREM NeverSkips ==
    ASSUME Careful
    PROVE  Spec => []NoSkip
  <1>1. LoadInv => NoSkip
    BY DEF LoadInv, CommittedInv, SafeFrom, NoSkip
  <1> QED
    BY <1>1, Invariance, PTL

\* Except for a reset, no step moves the committed cursor back.
LEMMA StepAdvances ==
    ASSUME Careful, LoadInv, Next, ~ResetState
    PROVE  NotAbove(cursor, cursor')
  <1> USE DEF LoadInv
  <1> USE StreamAssumption DEF StreamAssumption
  <1>1. cursor \in MaybeInt /\ flushed \in MaybeInt
    BY DEF TypeOK
  <1>2. NotAbove(cursor, cursor)
    BY <1>1 DEF NotAbove, MaybeInt
  <1>3. ASSUME NEW r \in Row, Arrive(r) PROVE cursor' = cursor
    BY <1>3 DEF Arrive, tableVars
  <1>4. ASSUME BeginIncremental \/ BeginFullRefresh
                 \/ \E since \in SinceValues : BeginSince(since)
        PROVE  cursor' = cursor
    BY <1>4 DEF BeginIncremental, BeginFullRefresh, BeginSince, Begin, tableVars
  <1>5. ASSUME NEW batch \in SUBSET unread, PullBatch(batch)
        PROVE  cursor' = cursor
    BY <1>5 DEF PullBatch, tableVars
  <1>6. CASE SourceExhausted \/ Tick
    BY <1>2, <1>6 DEF SourceExhausted, Tick, tableVars
  <1>7. CASE WriteBatch
    BY <1>2, <1>7 DEF WriteBatch, Publish, tableVars, OwnInv
  <1>8. CASE FlushState
    <2>1. pc = "written" /\ pending = {}
      BY <1>8 DEF FlushState, SnapshotInv
    <2>2. NotAbove(cursor, flushed)
      BY <2>1 DEF OwnInv
    <2>3. ~FullRefresh => NotAbove(flushed, FlushCursor)
      BY <2>1, FlushSafe
    <2>4. CASE ~transactional
      BY <1>8, <2>1, <2>2, <2>3, <2>4, <1>2 DEF FlushState, Publish, OwnInv
    <2>5. CASE transactional
      BY <1>2, <1>8, <2>5 DEF FlushState, Publish, tableVars
    <2> QED
      BY <2>4, <2>5
  <1>9. CASE FinalCommit
    <2>1. pc = "committing" /\ pending = {} /\ unread = {}
      BY <1>9 DEF FinalCommit, SnapshotInv
    <2>2. ~FullRefresh => FinalCursor \in MaybeInt /\ NotAbove(flushed, FinalCursor)
      BY <2>1, FinalSafe
    <2>3. NotAbove(cursor, flushed)
      BY <2>1 DEF OwnInv
    <2>4. CASE FullRefresh
      BY <1>2, <1>9, <2>3, <2>4 DEF FinalCommit, tableVars
    <2>5. CASE ~FullRefresh
      <3>1. NotAbove(cursor, FinalCursor)
        BY <1>1, <2>2, <2>3, <2>5, NotAboveTransitive
      <3> QED
        BY <1>2, <1>9, <2>5, <3>1 DEF FinalCommit, tableVars
    <2> QED
      BY <2>4, <2>5
  <1>10. CASE CommitTransaction
    BY <1>10 DEF CommitTransaction, OwnInv
  <1>11. ASSUME NEW part \in SUBSET pending, Interrupt(part)
         PROVE  cursor' = cursor
    BY <1>11 DEF Interrupt
  <1> QED
    BY <1>2, <1>3, <1>4, <1>5, <1>6, <1>7, <1>8, <1>9, <1>10, <1>11
       DEF Next, RunStep

\* The persisted cursor is a high-water mark: only `dtex state reset` removes
\* it, and nothing moves it back (_floor_cursor).
THEOREM CursorIsMonotone ==
    ASSUME Careful
    PROVE  Spec => CursorNeverRegresses
  <1>1. LoadInv /\ [Next]_vars =>
          [\/ cursor = None
           \/ cursor' # None /\ cursor' >= cursor
           \/ ResetState]_cursor
    BY StepAdvances, StreamAssumption
       DEF vars, tableVars, NotAbove, LoadInv, TypeOK, MaybeInt,
           StreamAssumption
  <1> QED
    BY <1>1, Invariance, PTL DEF Spec, CursorNeverRegresses
-----------------------------------------------------------------------------
\* A step of the load lands rows of the source only, and forgets none.
LEMMA StepLands ==
    ASSUME LoadInv, Next
    PROVE  target \subseteq target'
  <1> USE DEF LoadInv
  <1>1. ASSUME NEW r \in Row, Arrive(r) PROVE target' = target
    BY <1>1 DEF Arrive, tableVars
  <1>2. ASSUME BeginIncremental \/ BeginFullRefresh
                 \/ \E since \in SinceValues : BeginSince(since)
        PROVE  target' = target
    BY <1>2 DEF BeginIncremental, BeginFullRefresh, BeginSince, Begin, tableVars
  <1>3. ASSUME NEW batch \in SUBSET unread, PullBatch(batch)
        PROVE  target' = target
    BY <1>3 DEF PullBatch, tableVars
  <1>4. CASE SourceExhausted \/ Tick \/ ResetState
    BY <1>4 DEF SourceExhausted, Tick, ResetState, tableVars
  <1>5. CASE WriteBatch
    BY <1>5 DEF WriteBatch, Publish, tableVars, OwnInv
  <1>6. CASE FlushState
    BY <1>6 DEF FlushState, Publish, tableVars, OwnInv
  <1>7. CASE FinalCommit
    BY <1>7 DEF FinalCommit, tableVars
  <1>8. CASE CommitTransaction
    BY <1>8 DEF CommitTransaction, OwnInv
  <1>9. ASSUME NEW part \in SUBSET pending, Interrupt(part)
        PROVE  target \subseteq target'
    BY <1>9 DEF Interrupt
  <1> QED
    BY <1>1, <1>2, <1>3, <1>4, <1>5, <1>6, <1>7, <1>8, <1>9 DEF Next, RunStep

\* The load implements the at-least-once promise: every step offers a row,
\* lands rows and advances the mark without leaving a row behind, forgets the
\* mark, or changes nothing the promise speaks of.
THEOREM ImplementsAtLeastOnce ==
    ASSUME Careful
    PROVE  Spec => ImplementsPromise
  <1> USE StreamAssumption DEF StreamAssumption
  <1>1. Init => Promise!Init
    BY DEF Init, Promise!Init
  <1>2. ASSUME LoadInv, LoadInv', [Next]_vars
        PROVE  [Promise!Next]_(Promise!vars)
    <2>1. /\ Promise!Covered(source, target, cursor)
          /\ Promise!Covered(source', target', cursor')
      BY <1>2 DEF LoadInv, CommittedInv, SafeFrom, Promise!Covered, Seed,
                  Promise!Resume, Reaches, Promise!Reaches
    <2>2. ASSUME NEW r \in Row, Arrive(r) PROVE Promise!Offer(r)
      BY <2>1, <2>2 DEF Arrive, tableVars, Promise!Offer
    <2>3. ASSUME ResetState PROVE Promise!Forget
      BY <2>3 DEF ResetState, Promise!Forget
    <2>4. CASE UNCHANGED vars
      BY <2>4 DEF vars, tableVars, Promise!vars
    <2>5. ASSUME Next, ~ResetState, \A r \in Row : ~Arrive(r)
          PROVE  Promise!LandAndAdvance
      <3>1. source' = source
        BY <2>5 DEF Next, RunStep, BeginIncremental, BeginFullRefresh,
                    BeginSince, Begin, PullBatch, SourceExhausted, WriteBatch,
                    FlushState, FinalCommit, CommitTransaction, Interrupt, Tick
      <3>2. target \subseteq target' /\ target' \subseteq source
        BY <1>2, <2>5, <3>1, StepLands DEF LoadInv, CommittedInv
      <3>3. /\ target' \ target \in SUBSET source
            /\ target' = target \cup (target' \ target)
        BY <3>2
      <3>4. cursor' = cursor
              \/ (cursor' \in Int /\ (cursor = None \/ cursor' >= cursor))
        BY <1>2, <2>5, StepAdvances DEF NotAbove, LoadInv, TypeOK, MaybeInt
      <3> QED
        BY <2>1, <3>1, <3>3, <3>4 DEF Promise!LandAndAdvance
    <2> QED
      BY <1>2, <2>2, <2>3, <2>4, <2>5 DEF Promise!Next
  <1> QED
    BY <1>1, <1>2, Invariance, PTL DEF Spec, ImplementsPromise, Promise!Spec
-----------------------------------------------------------------------------
\* Is the cursor value of every one of these rows at most v?
Covers(v, rows) ==
    rows # {} => v # None /\ \A r \in rows : CursorOf[r] <= v

\* What an incremental run on a transactional destination has yielded and not
\* published is covered by its observed maximum, and in the end by the cursor
\* it publishes with the rows.
FlipInv ==
    /\ TypeOK
    /\ pc \in {"written", "committing", "closing"} => pending = {}
    /\ pc \in {"committing", "closing"} => unread = {}
    /\ transactional /\ ~FullRefresh /\ pc # "idle" =>
           /\ Covers(observed, pending \cup (loaded \ target))
           /\ pc = "closing" => Covers(flushed, loaded \ target)

LEMMA FlipStep ==
    ASSUME FlipInv, TypeOK', [Next]_vars
    PROVE  FlipInv'
  <1> USE StreamAssumption DEF StreamAssumption
  <1> USE DEF FlipInv, FullRefresh
  <1>1. ASSUME NEW r \in Row, Arrive(r) PROVE FlipInv'
    BY <1>1 DEF Arrive, tableVars, seedVars, readVars, ownVars, Covers
  <1>2. ASSUME NEW m, NEW start, Begin(m, start) PROVE FlipInv'
    BY <1>2 DEF Begin, tableVars, Covers
  <1>3. ASSUME NEW batch \in SUBSET unread, PullBatch(batch) PROVE FlipInv'
    <2>1. /\ pc = "pulling" /\ pc' \in {"writing", "pulling"}
          /\ UNCHANGED <<loaded, target, mode, transactional>>
          /\ pending' = pending \cup batch
      BY <1>3 DEF PullBatch, tableVars, seedVars, ownVars
    <2>2. PICK newest \in batch :
            /\ \A r \in batch : CursorOf[r] <= CursorOf[newest]
            /\ observed' = Observe(observed, CursorOf[newest])
      BY <1>3 DEF PullBatch
    <2>3. batch \subseteq Row /\ pending \subseteq Row /\ loaded \subseteq Row
          /\ observed \in MaybeInt
      BY DEF TypeOK
    <2>4. /\ observed' \in Int
          /\ CursorOf[newest] <= observed'
          /\ observed # None => observed <= observed'
      BY <2>2, <2>3 DEF Observe, MaybeInt
    <2>5. \A r \in batch : CursorOf[r] \in Int /\ CursorOf[r] <= observed'
      BY <2>2, <2>3, <2>4
    <2>6. Covers(observed, pending \cup (loaded \ target))
            => Covers(observed', pending' \cup (loaded' \ target'))
      <3>1. SUFFICES ASSUME Covers(observed, pending \cup (loaded \ target)),
                            NEW r \in pending \cup (loaded \ target)
                     PROVE  CursorOf[r] <= observed'
        BY <2>1, <2>4, <2>5 DEF Covers
      <3>2. observed \in Int /\ CursorOf[r] \in Int /\ CursorOf[r] <= observed
        BY <2>3, <3>1 DEF Covers, MaybeInt
      <3> QED
        BY <2>4, <3>2
    <2> QED
      BY <2>1, <2>6
  <1>4. CASE SourceExhausted
    BY <1>4 DEF SourceExhausted, tableVars, seedVars, readVars, ownVars, Covers
  <1>5. CASE WriteBatch
    <2>1. /\ pc' = "written" /\ pending' = {} /\ loaded' = loaded \cup pending
          /\ UNCHANGED <<observed, mode, transactional, unread>>
          /\ transactional => target' = target
      BY <1>5 DEF WriteBatch, Publish, tableVars, seedVars, readVars
    <2> QED
      BY <1>5, <2>1 DEF WriteBatch, Covers
  <1>6. CASE FlushState
    BY <1>6 DEF FlushState, Publish, tableVars, seedVars, readVars, Covers
  <1>7. CASE FinalCommit
    <2>1. CASE transactional
      <3>1. /\ pc = "committing" /\ pc' = "closing" /\ pending = {}
            /\ UNCHANGED <<target, loaded, observed, mode, transactional,
                           unread, pending>>
            /\ ~FullRefresh => flushed' = FinalCursor
        BY <1>7, <2>1 DEF FinalCommit, tableVars, seedVars, readVars
      <3>2. /\ observed \in MaybeInt /\ floor \in MaybeInt
            /\ loaded \subseteq Row
        BY DEF TypeOK
      <3>3. observed # None => FinalCursor # None /\ FinalCursor >= observed
                               /\ FinalCursor \in Int /\ observed \in Int
        BY <3>2 DEF FinalCursor, Floor, MaybeInt
      <3>4. ASSUME ~FullRefresh PROVE Covers(flushed', loaded' \ target')
        <4>1. Covers(observed, loaded \ target)
          BY <2>1, <3>1, <3>4
        <4>2. \A r \in loaded \ target : CursorOf[r] \in Int
          BY <3>2
        <4> QED
          BY <3>1, <3>3, <3>4, <4>1, <4>2 DEF Covers
      <3> QED
        BY <2>1, <3>1, <3>4
    <2>2. CASE ~transactional
      BY <1>7, <2>2 DEF FinalCommit, EndRun
    <2> QED
      BY <2>1, <2>2
  <1>8. CASE CommitTransaction
    BY <1>8 DEF CommitTransaction, EndRun
  <1>9. ASSUME NEW part \in SUBSET pending, Interrupt(part) PROVE FlipInv'
    BY <1>9 DEF Interrupt, EndRun
  <1>10. CASE ResetState \/ Tick \/ UNCHANGED vars
    BY <1>10 DEF ResetState, Tick, vars, tableVars, seedVars, readVars, ownVars,
                 Covers
  <1> QED
    BY <1>1, <1>2, <1>3, <1>4, <1>5, <1>6, <1>7, <1>8, <1>9, <1>10
       DEF Next, RunStep, BeginIncremental, BeginFullRefresh, BeginSince

\* Where the destination has transactions, a reader sees the rows of an
\* incremental run all at once, and with a cursor that covers them: whatever
\* the ties, the lookback and the `since:` (docs/05 section 5.3).
THEOREM DataFlipsWithCursor == Spec => DataAndCursorFlipTogether
  <1> USE StreamAssumption DEF StreamAssumption
  <1>1. Init /\ TypeOK => FlipInv
    BY DEF Init, FlipInv
  <1>2. FlipInv /\ TypeOK' /\ [Next]_vars => FlipInv'
    BY FlipStep
  <1>3. FlipInv /\ [Next]_vars =>
          [transactional /\ ~FullRefresh =>
             /\ unread \cup pending = {}
             /\ \A r \in target' \ target :
                    cursor' # None /\ CursorOf[r] <= cursor']_target
    <2> SUFFICES ASSUME FlipInv, Next, target' # target, transactional,
                        ~FullRefresh
                 PROVE  /\ unread \cup pending = {}
                        /\ \A r \in target' \ target :
                               cursor' # None /\ CursorOf[r] <= cursor'
      BY DEF vars, tableVars
    <2>1. CommitTransaction
      BY DEF Next, RunStep, Arrive, BeginIncremental, BeginFullRefresh,
             BeginSince, Begin, PullBatch, SourceExhausted, WriteBatch,
             FlushState, Publish, FinalCommit, Interrupt, ResetState, Tick,
             tableVars
    <2>2. pc = "closing" /\ target' = loaded /\ cursor' = flushed
      BY <2>1 DEF CommitTransaction
    <2> QED
      BY <2>2 DEF FlipInv, Covers
  <1> QED
    BY <1>1, <1>2, <1>3, Typing, PTL DEF Spec, DataAndCursorFlipTogether
-----------------------------------------------------------------------------
USE TagSweepAssumption DEF TagSweepAssumption

\* A set of pipelines has a first one: initial segments are well-founded.
LEMMA LeastOfSome ==
    ASSUME NEW T, T \subseteq Pipelines, T # {}
    PROVE  \E p \in T : \A q \in T : p <= q
  <1> DEFINE segments == {1..p : p \in T}
             inclusion == StrictSubsetOrdering(Pipelines)
  <1>1. IsFiniteSet(Pipelines)
    BY FS_Interval DEF Pipelines
  <1>2. IsWellFoundedOn(inclusion, SUBSET Pipelines)
    BY <1>1, FS_StrictSubsetOrderingWellFounded, FS_FiniteSubsetsOfFinite
  <1>3. segments \subseteq SUBSET Pipelines /\ segments # {}
    <2>1. ASSUME NEW p \in T PROVE 1..p \subseteq 1..N
      BY DEF Pipelines
    <2> QED  BY <2>1 DEF Pipelines
  <1>4. \E x \in segments : \A y \in segments : ~ (<<y, x>> \in inclusion)
    <2> HIDE DEF segments, inclusion
    <2> QED  BY <1>2, <1>3, WFMin
  <1>5. PICK p \in T : \A q \in T : ~ (<<1..q, 1..p>> \in inclusion)
    BY <1>4
  <1>6. ASSUME NEW q \in T PROVE p <= q
    <2>1. p \in 1..N /\ q \in 1..N
      BY DEF Pipelines
    <2>2. SUFFICES ASSUME q < p PROVE FALSE
      BY <2>1
    <2>3. 1..q \subseteq 1..p /\ 1..q # 1..p /\ 1..q \in SUBSET Pipelines
          /\ 1..p \in SUBSET Pipelines
      BY <2>1, <2>2 DEF Pipelines
    <2> QED  BY <1>5, <2>3 DEF StrictSubsetOrdering
  <1> QED  BY <1>6

\* The cap a destination's hook gives, or none at all, is a number.
LEMMA CapType ==
    ASSUME NEW d \in Dests
    PROVE  Cap(d) \in Nat
  <1>1. CASE \E p \in Pipelines : DestOf[p] = d
    <2> DEFINE T == {p \in Pipelines : DestOf[p] = d}
    <2>1. \E p \in T : \A q \in T : p <= q
      BY <1>1, LeastOfSome
    <2>2. \E p \in Pipelines :
              DestOf[p] = d /\ \A q \in Pipelines : DestOf[q] = d => p <= q
      BY <2>1
    <2>3. Representative(d) \in Pipelines
      BY <2>2 DEF Representative
    <2> QED  BY <2>3 DEF Cap, Unlimited
  <1>2. CASE ~ \E p \in Pipelines : DestOf[p] = d
    BY <1>2 DEF Cap, Unlimited
  <1> QED  BY <1>1, <1>2

\* The caps are settled before the first pipeline starts.
LEMMA CapsStay ==
    ASSUME UNCHANGED broken, NEW d \in Dests
    PROVE  Cap(d)' = Cap(d)
  BY DEF Cap, Representative

\* There are finitely many pipelines.
LEMMA PipelinesFinite == IsFiniteSet(Pipelines)
  BY FS_Interval DEF Pipelines

\* A set that gains or loses one element.
LEMMA CountOneMove ==
    ASSUME NEW S, IsFiniteSet(S), NEW T, NEW x, NEW goesIn \in BOOLEAN,
           T = IF goesIn THEN S \cup {x} ELSE S \ {x}
    PROVE  /\ Cardinality(S) \in Nat /\ Cardinality(T) \in Nat
           /\ Cardinality(T) = Cardinality(S) + (IF goesIn /\ x \notin S THEN 1 ELSE 0)
                                             - (IF ~goesIn /\ x \in S THEN 1 ELSE 0)
  <1>1. Cardinality(S) \in Nat
    BY FS_CardinalityType
  <1>2. CASE goesIn
    BY <1>1, <1>2, FS_AddElement, FS_CardinalityType
  <1>3. CASE ~goesIn
    BY <1>1, <1>3, FS_RemoveElement, FS_CardinalityType
  <1> QED  BY <1>2, <1>3

\* What a pipeline that changes its phase does to the counts.
LEMMA Moves ==
    ASSUME SweepTypeOK, NEW p \in Pipelines, NEW ph \in Phases, Enter(p, ph)
    PROVE  /\ Cardinality(In(InPool)) \in Nat
           /\ Cardinality(In(InPool))' =
                  Cardinality(In(InPool))
                  + (IF ph \in InPool /\ phase[p] \notin InPool THEN 1 ELSE 0)
                  - (IF ph \notin InPool /\ phase[p] \in InPool THEN 1 ELSE 0)
           /\ \A d \in Dests :
                  /\ Cardinality(Holders(d)) \in Nat
                  /\ Cardinality(Holders(d))' =
                         Cardinality(Holders(d))
                         + (IF d = DestOf[p] /\ ph \in Holding /\ phase[p] \notin Holding
                            THEN 1 ELSE 0)
                         - (IF d = DestOf[p] /\ ph \notin Holding /\ phase[p] \in Holding
                            THEN 1 ELSE 0)
  <1>1. IsFiniteSet(In(InPool)) /\ \A d \in Dests : IsFiniteSet(Holders(d))
    BY PipelinesFinite, FS_Subset DEF In, Holders
  <1>2. In(InPool)' = IF ph \in InPool THEN In(InPool) \cup {p} ELSE In(InPool) \ {p}
    BY DEF In, Enter, SweepTypeOK
  <1>3. p \in In(InPool) <=> phase[p] \in InPool
    BY DEF In
  <1>4. ASSUME NEW d \in Dests
        PROVE  Holders(d)' = IF ph \in Holding /\ DestOf[p] = d
                             THEN Holders(d) \cup {p} ELSE Holders(d) \ {p}
    BY DEF Holders, In, Enter, SweepTypeOK
  <1>5. ASSUME NEW d \in Dests
        PROVE  p \in Holders(d) <=> phase[p] \in Holding /\ DestOf[p] = d
    BY DEF Holders, In
  <1>6. Cardinality(In(InPool)') =
            Cardinality(In(InPool))
            + (IF ph \in InPool /\ p \notin In(InPool) THEN 1 ELSE 0)
            - (IF ~(ph \in InPool) /\ p \in In(InPool) THEN 1 ELSE 0)
    <2> DEFINE S == In(InPool)
               T == In(InPool)'
               goesIn == ph \in InPool
    <2>1. IsFiniteSet(S) /\ goesIn \in BOOLEAN /\ T = IF goesIn THEN S \cup {p} ELSE S \ {p}
      BY <1>1, <1>2
    <2> HIDE DEF S, T, goesIn
    <2>2. Cardinality(T) = Cardinality(S) + (IF goesIn /\ p \notin S THEN 1 ELSE 0)
                                          - (IF ~goesIn /\ p \in S THEN 1 ELSE 0)
      BY <2>1, CountOneMove
    <2> QED  BY <2>2 DEF S, T, goesIn
  <1>7. ASSUME NEW d \in Dests
        PROVE  Cardinality(Holders(d)') =
                   Cardinality(Holders(d))
                   + (IF (ph \in Holding /\ DestOf[p] = d) /\ p \notin Holders(d) THEN 1 ELSE 0)
                   - (IF ~(ph \in Holding /\ DestOf[p] = d) /\ p \in Holders(d) THEN 1 ELSE 0)
    <2> DEFINE S == Holders(d)
               T == Holders(d)'
               goesIn == ph \in Holding /\ DestOf[p] = d
    <2>1. IsFiniteSet(S) /\ goesIn \in BOOLEAN /\ T = IF goesIn THEN S \cup {p} ELSE S \ {p}
      BY <1>1, <1>4
    <2> HIDE DEF S, T, goesIn
    <2>2. Cardinality(T) = Cardinality(S) + (IF goesIn /\ p \notin S THEN 1 ELSE 0)
                                          - (IF ~goesIn /\ p \in S THEN 1 ELSE 0)
      BY <2>1, CountOneMove
    <2> QED  BY <2>2 DEF S, T, goesIn
  <1> QED  BY <1>1, <1>3, <1>5, <1>6, <1>7, FS_CardinalityType
-----------------------------------------------------------------------------
(* Every variable keeps its type: in particular no semaphore's count of       *)
(* permits ever goes below zero.                                              *)
THEOREM SweepTyping == SweepSpec => []SweepTypeOK
  <1>1. SweepInit => SweepTypeOK
    BY CapType DEF SweepInit, SweepTypeOK, Phases, Outcomes
  <1>2. SweepTypeOK /\ [SweepNext]_sweepVars => SweepTypeOK'
    <2> SUFFICES ASSUME SweepTypeOK, [SweepNext]_sweepVars PROVE SweepTypeOK'
      OBVIOUS
    <2> USE DEF SweepTypeOK, Phases, Outcomes, Fixed, Enter, Fault, Alive
    <2>1. ASSUME NEW p \in Pipelines, Step(p) PROVE SweepTypeOK'
      <3>1. CASE Start(p) \/ Take(p) \/ Plan(p)
        BY <3>1 DEF Start, Take, Plan
      <3>2. CASE Acquire(p) \/ Release(p)
        BY <3>2 DEF Acquire, Release
      <3>3. CASE Open(p) \/ Load(p)
        BY <3>3 DEF Open, Load
      <3>4. CASE Record(p)
        BY <3>4 DEF Record, RecordOf
      <3>5. CASE Close(p)
        <4>1. phase' \in [Pipelines -> Phases]
          BY <3>5 DEF Close
        <4>2. CASE Closed(p)
          BY <3>5, <4>1, <4>2 DEF Close, Closed
        <4>3. CASE CloseFails(p)
          BY <3>5, <4>1, <4>3 DEF Close, CloseFails
        <4> QED  BY <3>5, <4>2, <4>3 DEF Close
      <3> QED  BY <2>1, <3>1, <3>2, <3>3, <3>4, <3>5 DEF Step
    <2>2. CASE Return
      BY <2>2 DEF Return, life
    <2>3. CASE Signal
      <3>1. ASSUME NEW p \in Pipelines, Abort(p) PROVE SweepTypeOK'
        BY <2>3, <3>1 DEF Signal, Abort
      <3>2. CASE Terminated \/ KeyboardInterrupt
        BY <2>3, <3>2 DEF Signal, Terminated, KeyboardInterrupt, life, In
      <3> QED  BY <2>3, <3>1, <3>2 DEF Signal
    <2>4. CASE UNCHANGED sweepVars
      BY <2>4 DEF sweepVars, life
    <2> QED  BY <2>1, <2>2, <2>3, <2>4 DEF SweepNext, Over
  <1> QED  BY <1>1, <1>2, PTL DEF SweepSpec
-----------------------------------------------------------------------------
(* Who holds what: an open connection belongs to a run that holds its permit, *)
(* and the permits given and taken add up to the cap.                         *)
PoolInv ==
    /\ conn \subseteq In({"loading", "recording", "closing"})
    /\ Parallel => /\ Cardinality(In(InPool)) <= threads
                   /\ \A d \in Dests : free[d] + Cardinality(Holders(d)) = Cap(d)
    /\ ~Parallel => /\ \A p, q \in In(InPool) : p = q
                    /\ \A p \in Pipelines : phase[p] \notin {"waiting", "printing"}

\* Nothing is held before the sweep starts.
LEMMA InitPool == SweepInit => PoolInv
  <1> SUFFICES ASSUME SweepInit PROVE PoolInv
    OBVIOUS
  <1>1. In(InPool) = {} /\ \A d \in Dests : Holders(d) = {}
    BY DEF SweepInit, In, Holders, InPool, Holding, Interruptible, Ending
  <1>2. Cardinality(In(InPool)) = 0 /\ \A d \in Dests : Cardinality(Holders(d)) = 0
    BY <1>1, FS_EmptySet
  <1>3. \A d \in Dests : free[d] + Cardinality(Holders(d)) = Cap(d)
    BY <1>2, CapType DEF SweepInit
  <1> QED  BY <1>1, <1>2, <1>3 DEF SweepInit, PoolInv

\* A step of one pipeline takes and gives back what it says.
LEMMA StepPool ==
    ASSUME SweepTypeOK, PoolInv, NEW p \in Pipelines, Step(p)
    PROVE  PoolInv'
  <1> USE DEF Phases, Fixed, Fault, Alive
  <1>1. UNCHANGED <<threads, broken>> /\ \E ph \in Phases : Enter(p, ph)
    BY DEF Step, Start, Take, Acquire, Plan, Open, Load, Record, Close, Release
  <1>2. PICK ph \in Phases : Enter(p, ph)
    BY <1>1
  <1>3. Parallel' = Parallel /\ \A d \in Dests : Cap(d)' = Cap(d) /\ Cap(d) \in Nat
    BY <1>1, CapsStay, CapType DEF Parallel
  <1>4. phase' = [phase EXCEPT ![p] = ph] /\ phase'[p] = ph
    BY <1>2 DEF Enter, SweepTypeOK
  <1>5. (conn \subseteq In({"loading", "recording", "closing"}))'
    <2>1. conn \subseteq In({"loading", "recording", "closing"})
      BY DEF PoolInv
    <2>2. CASE Start(p) \/ Take(p) \/ Acquire(p) \/ Plan(p) \/ Release(p)
      BY <2>1, <2>2 DEF Start, Take, Acquire, Plan, Release, Enter, In, SweepTypeOK, NextQueued
    <2>3. CASE Open(p) \/ Load(p) \/ Record(p)
      BY <2>1, <2>3 DEF Open, Load, Record, Enter, In, SweepTypeOK
    <2>4. CASE Close(p)
      BY <2>1, <2>4 DEF Close, Closed, CloseFails, Enter, In, SweepTypeOK
    <2> QED  BY <2>2, <2>3, <2>4 DEF Step
  <1>6. CASE Parallel
    <2>1. (Cardinality(In(InPool)) <= threads)'
      <3>1. phase[p] \notin InPool /\ ph \in InPool => Take(p)
        BY <1>4, <1>6 DEF Step, Start, Take, Acquire, Plan, Open, Load, Record, Close, Release,
              Enter, SweepTypeOK, InPool, Holding, Interruptible, Ending, NextQueued
      <3>2. Cardinality(In(InPool)) <= threads
        BY <1>6 DEF PoolInv
      <3>3. Take(p) => Cardinality(In(InPool)) < threads
        BY DEF Take
      <3> QED  BY <1>1, <1>2, <3>1, <3>2, <3>3, Moves DEF SweepTypeOK
    <2>2. ASSUME NEW d \in Dests
          PROVE  (free[d] + Cardinality(Holders(d)) = Cap(d))'
      <3>1. free[d] \in Nat /\ free[d] + Cardinality(Holders(d)) = Cap(d)
        BY <1>6 DEF PoolInv, SweepTypeOK
      <3>2. CASE Acquire(p)
        <4>1. phase[p] \notin Holding /\ ph \in Holding
          BY <1>4, <3>2 DEF Acquire, Enter, SweepTypeOK, Holding, Interruptible, Ending
        <4>2. free'[d] = IF d = DestOf[p] THEN free[d] - 1 ELSE free[d]
          BY <3>2 DEF Acquire, SweepTypeOK
        <4> QED  BY <1>2, <1>3, <3>1, <4>1, <4>2, Moves
      <3>3. CASE Release(p)
        <4>1. phase[p] \in Holding /\ ph \notin Holding
          BY <1>4, <3>3 DEF Release, Enter, SweepTypeOK, Holding, Interruptible, Ending
        <4>2. free'[d] = IF d = DestOf[p] THEN free[d] + 1 ELSE free[d]
          BY <3>3 DEF Release, SweepTypeOK
        <4> QED  BY <1>2, <1>3, <3>1, <4>1, <4>2, Moves
      <3>4. CASE ~Acquire(p) /\ ~Release(p)
        <4>1. free' = free
          BY <3>4 DEF Step, Start, Take, Plan, Open, Load, Record, Close
        <4>2. phase[p] \in Holding <=> ph \in Holding
          BY <1>4, <1>6, <3>4 DEF Step, Start, Take, Plan, Open, Load, Record, Close,
                Enter, SweepTypeOK, Holding, Interruptible, Ending, NextQueued
        <4> QED  BY <1>2, <1>3, <3>1, <4>1, <4>2, Moves
      <3> QED  BY <3>2, <3>3, <3>4
    <2> QED  BY <1>3, <1>5, <1>6, <2>1, <2>2 DEF PoolInv
  <1>7. CASE ~Parallel
    <2>1. /\ \A x, y \in In(InPool) : x = y
          /\ \A x \in Pipelines : phase[x] \notin {"waiting", "printing"}
      BY <1>7 DEF PoolInv
    <2>2. phase[p] \in InPool \/ In(InPool) = {}
      BY <1>7 DEF Step, Start, Take, Acquire, Plan, Open, Load, Record, Close, Release,
            SweepTypeOK, InPool, Holding, Interruptible, Ending
    <2>3. In(InPool)' \subseteq In(InPool) \cup {p}
      BY <1>4 DEF In, SweepTypeOK
    <2>4. \A x, y \in In(InPool)' : x = y
      BY <2>1, <2>2, <2>3 DEF In
    <2>5. ph \notin {"waiting", "printing"}
      BY <1>4, <1>7, <2>1 DEF Step, Start, Take, Acquire, Plan, Open, Load, Record, Close, Release,
            Enter, SweepTypeOK
    <2> QED  BY <1>3, <1>4, <1>5, <1>7, <2>1, <2>4, <2>5 DEF PoolInv, SweepTypeOK
  <1> QED  BY <1>6, <1>7

\* PoolInv is inductive.
LEMMA NextPool == SweepTypeOK /\ PoolInv /\ [SweepNext]_sweepVars => PoolInv'
  <1> SUFFICES ASSUME SweepTypeOK, PoolInv, [SweepNext]_sweepVars PROVE PoolInv'
    OBVIOUS
  <1>1. CASE UNCHANGED <<phase, free, conn, threads, broken>>
    <2>1. \A d \in Dests : Cap(d)' = Cap(d)
      BY <1>1, CapsStay
    <2> QED  BY <1>1, <2>1 DEF PoolInv, Parallel, In, Holders
  <1>2. ASSUME NEW p \in Pipelines, Abort(p), Signal PROVE PoolInv'
    <2>1. ~Parallel /\ ~Parallel'
      BY <1>2 DEF Abort, Signal, Parallel
    <2>2. phase' = [phase EXCEPT ![p] = "recording"] /\ conn' = conn
      BY <1>2 DEF Abort, Enter
    <2>3. In(InPool)' = In(InPool)
      BY <1>2, <2>2 DEF Abort, In, InPool, Holding, Ending, Interruptible, SweepTypeOK
    <2>4. (conn \subseteq In({"loading", "recording", "closing"}))'
      BY <2>2 DEF In, PoolInv, SweepTypeOK
    <2> QED  BY <2>1, <2>2, <2>3, <2>4 DEF PoolInv, SweepTypeOK
  <1>3. ASSUME NEW p \in Pipelines, Step(p) PROVE PoolInv'
    BY <1>3, StepPool
  <1>4. CASE Signal
    BY <1>1, <1>2, <1>4 DEF Signal, Terminated, KeyboardInterrupt, life
  <1> QED  BY <1>1, <1>3, <1>4 DEF SweepNext, Return, Over, Fixed, sweepVars, life

\* The counts of connections follow from who holds what.
LEMMA PoolGivesCaps == SweepTypeOK /\ PoolInv => CapsHold
  <1> SUFFICES ASSUME SweepTypeOK, PoolInv, NEW d \in Dests
               PROVE  /\ Cardinality(WritersTo(d)) <= threads
                      /\ Parallel => Cardinality(WritersTo(d)) <= Cap(d)
    BY DEF CapsHold
  <1>1. WritersTo(d) \subseteq Holders(d) /\ WritersTo(d) \subseteq In(InPool)
    BY DEF WritersTo, Holders, PoolInv, In, InPool, Holding, Interruptible, Ending
  <1>2. IsFiniteSet(Holders(d)) /\ IsFiniteSet(In(InPool))
    BY PipelinesFinite, FS_Subset DEF Holders, In
  <1>3. /\ Cardinality(WritersTo(d)) \in Nat
        /\ Cardinality(WritersTo(d)) <= Cardinality(Holders(d))
        /\ Cardinality(WritersTo(d)) <= Cardinality(In(InPool))
        /\ Cardinality(Holders(d)) \in Nat /\ Cardinality(In(InPool)) \in Nat
    BY <1>1, <1>2, FS_Subset, FS_CardinalityType
  <1>4. CASE Parallel
    BY <1>3, <1>4, CapType DEF PoolInv, SweepTypeOK
  <1>5. CASE ~Parallel
    <2>1. WritersTo(d) = {} \/ \E x : WritersTo(d) = {x}
      <3>1. \A p, q \in WritersTo(d) : p = q
        BY <1>1, <1>5 DEF PoolInv
      <3>2. ASSUME NEW p \in WritersTo(d) PROVE WritersTo(d) = {p}
        BY <3>1
      <3> QED
        BY <3>2
    <2>2. Cardinality(WritersTo(d)) = 0 \/ Cardinality(WritersTo(d)) = 1
      <3>1. CASE WritersTo(d) = {}
        BY <3>1, FS_EmptySet
      <3>2. ASSUME NEW x, WritersTo(d) = {x} PROVE Cardinality(WritersTo(d)) = 1
        BY <3>2, FS_Singleton
      <3> QED  BY <2>1, <3>1, <3>2
    <2> QED  BY <1>3, <1>5, <2>2 DEF SweepTypeOK
  <1> QED  BY <1>4, <1>5

(* run_tag never lets more pipelines write to a destination at a time than    *)
(* its threads, nor, in parallel, than the cap it asked for                   *)
(* (runner.py:1909-1914).                                                     *)
THEOREM CapsAlwaysHold == SweepSpec => []CapsHold
  <1>1. SweepSpec => []SweepTypeOK
    BY SweepTyping
  <1>2. SweepTypeOK /\ PoolInv /\ [SweepNext]_sweepVars => PoolInv'
    BY NextPool
  <1> QED  BY <1>1, <1>2, InitPool, PoolGivesCaps, PTL DEF SweepSpec
-----------------------------------------------------------------------------
(* What a run has said so far, pipeline by pipeline.                          *)
Unsaid == {"queued", "waiting"} \cup Interruptible
Said   == {"closing", "printing", "done"}

StoryOf(p) ==
    /\ phase[p] \in Unsaid => outcome[p] = "none" /\ record[p] = "none"
    /\ phase[p] \notin Unsaid => outcome[p] # "none"
    /\ phase[p] = "loading" => p \in conn
    /\ phase[p] = "recording" =>
           record[p] = "none" /\ (outcome[p] = "succeeded" => p \in conn)
    /\ phase[p] = "closing" /\ p \in conn => record[p] # "none"
    /\ phase[p] \in Said /\ outcome[p] = "succeeded" => record[p] \in {"succeeded", "lost"}
    /\ answer[p] = "succeeded" => outcome[p] = "succeeded"
    /\ phase[p] \notin {"printing", "done"} => answer[p] = "none"
    /\ phase[p] \in {"printing", "done"} => answer[p] # "none" \/ (sweep = "raised" /\ ~Parallel)
    /\ outcome[p] = "aborted" => signals > 0 /\ ~Parallel

\* How the sweep stands, and why.
SweepStory ==
    /\ sweep \in {"killed", "raising"} => signals > 0
    /\ sweep = "raising" => Parallel
    /\ OnlySignalsStopTheSweep
    /\ NothingLeftOpen

StoryInv == (\A p \in Pipelines : StoryOf(p)) /\ SweepStory

\* Before the sweep starts nothing has been said.
LEMMA InitStory == SweepInit => StoryInv
  BY DEF SweepInit, StoryInv, StoryOf, SweepStory, OnlySignalsStopTheSweep, NothingLeftOpen,
         Unsaid, Said, Interruptible

\* What a step of one pipeline makes of the story of any.
LEMMA StepStoryOf ==
    ASSUME SweepTypeOK, PoolInv, StoryInv, NEW p \in Pipelines, Step(p), NEW q \in Pipelines
    PROVE  StoryOf(q)'
  <1> USE DEF Unsaid, Said, Interruptible, Alive, Fixed, Fault, Enter, Parallel
  <1>1. StoryOf(q) /\ SweepStory
    BY DEF StoryInv
  <1>2. CASE Start(p) \/ Take(p) \/ Acquire(p) \/ Plan(p)
    BY <1>1, <1>2 DEF StoryOf, SweepStory, SweepTypeOK, Start, Take, Acquire, Plan, NextQueued
  <1>3. CASE Open(p) \/ Load(p)
    <2>1. phase[p] = "loading" => p \in conn /\ outcome[p] = "none" /\ record[p] = "none"
      BY DEF StoryInv, StoryOf
    <2>2. CASE Open(p)
      BY <1>1, <2>2 DEF StoryOf, SweepStory, SweepTypeOK, Open
    <2>3. CASE Load(p)
      BY <1>1, <2>1, <2>3 DEF StoryOf, SweepStory, SweepTypeOK, Load
    <2> QED  BY <1>3, <2>2, <2>3
  <1>4. CASE Record(p)
    BY <1>1, <1>4 DEF StoryOf, SweepStory, SweepTypeOK, Record, RecordOf
  <1>5. CASE Close(p)
    BY <1>1, <1>5 DEF StoryOf, SweepStory, SweepTypeOK, Close, Closed, CloseFails, Outcomes
  <1>6. CASE Release(p)
    BY <1>1, <1>6 DEF StoryOf, SweepStory, SweepTypeOK, Release
  <1> QED  BY <1>2, <1>3, <1>4, <1>5, <1>6 DEF Step

\* What the sweep itself says, after a step of a pipeline.
LEMMA StepSweepStory ==
    ASSUME SweepTypeOK, PoolInv, StoryInv, NEW p \in Pipelines, Step(p)
    PROVE  SweepStory'
  <1> USE DEF Alive, Fixed, Fault, Parallel
  <1>1. StoryOf(p) /\ SweepStory
    BY DEF StoryInv
  <1>2. CASE UNCHANGED sweep
    <2>1. Alive /\ UNCHANGED <<threads, signals>>
      BY DEF Step, Start, Take, Acquire, Plan, Open, Load, Record, Close, Release
    <2> QED  BY <1>1, <1>2, <2>1 DEF SweepStory, OnlySignalsStopTheSweep, NothingLeftOpen
  <1>3. CASE ~ UNCHANGED sweep
    <2>1. Close(p) /\ sweep' = "raised" /\ conn' = conn \ {p} /\ UNCHANGED <<threads, signals>>
      BY <1>3 DEF Step, Start, Take, Acquire, Plan, Open, Load, Record, Close, Closed,
            CloseFails, Release
    <2>2. ~Parallel
      BY <1>1, <1>3, <2>1 DEF Close, Closed, CloseFails, StoryOf
    <2>3. conn' = {}
      <3>1. conn \subseteq {p}
        BY <2>1, <2>2 DEF PoolInv, Close, In, InPool, Holding, Interruptible, Ending
      <3> QED  BY <2>1, <3>1
    <2>4. signals' > 0 \/ (faults' > 0 /\ phase'[p] = "done" /\ record'[p] # "none"
                             /\ answer'[p] = "none")
      <3>1. CASE Closed(p)
        BY <1>1, <1>3, <2>1, <3>1 DEF Closed, StoryOf
      <3>2. CASE CloseFails(p)
        BY <1>1, <2>1, <2>2, <3>2 DEF Close, CloseFails, StoryOf, SweepTypeOK, Enter
      <3> QED  BY <1>3, <2>1, <3>1, <3>2 DEF Close
    <2> QED  BY <2>1, <2>2, <2>3, <2>4
             DEF SweepStory, OnlySignalsStopTheSweep, NothingLeftOpen
  <1> QED  BY <1>2, <1>3

\* StoryInv is inductive.
LEMMA NextStory == SweepTypeOK /\ PoolInv /\ StoryInv /\ [SweepNext]_sweepVars => StoryInv'
  <1> SUFFICES ASSUME SweepTypeOK, PoolInv, StoryInv, [SweepNext]_sweepVars PROVE StoryInv'
    OBVIOUS
  <1>0. SweepStory /\ \A q \in Pipelines : StoryOf(q)
    BY DEF StoryInv
  <1>1. ASSUME NEW p \in Pipelines, Step(p) PROVE StoryInv'
    BY <1>1, StepStoryOf, StepSweepStory DEF StoryInv
  <1>2. CASE Return
    <2>1. \A q \in Pipelines : phase[q] = "done"
      BY <1>2 DEF Return, In
    <2>2. conn = {}
      BY <2>1 DEF PoolInv, In
    <2>3. \A q \in Pipelines : answer[q] # "none"
      BY <1>0, <1>2, <2>1 DEF StoryOf, Return, Alive
    <2>4. SweepStory'
      BY <1>0, <1>2, <2>2, <2>3 DEF SweepStory, OnlySignalsStopTheSweep, NothingLeftOpen,
            Return, Alive, Fixed, life, Parallel
    <2>5. ASSUME NEW q \in Pipelines PROVE StoryOf(q)'
      BY <1>0, <1>2, <2>3 DEF StoryOf, Return, Fixed, life, Parallel
    <2> QED  BY <2>4, <2>5 DEF StoryInv
  <1>3. CASE Signal
    <2> USE DEF Alive, Parallel
    <2>0. signals' = signals + 1 /\ signals' > 0 /\ UNCHANGED threads /\ Alive
      BY <1>3 DEF Signal, SweepTypeOK
    <2>1. ASSUME NEW p \in Pipelines, Abort(p) PROVE StoryInv'
      <3>1. SweepStory'
        BY <1>0, <2>0, <2>1 DEF SweepStory, OnlySignalsStopTheSweep, NothingLeftOpen, Abort
      <3>2. ASSUME NEW q \in Pipelines PROVE StoryOf(q)'
        <4>1. StoryOf(q) /\ StoryOf(p)
          BY <1>0
        <4> QED  BY <2>0, <2>1, <4>1 DEF StoryOf, Abort, Enter, SweepTypeOK, Unsaid, Said, Interruptible
      <3> QED  BY <3>1, <3>2 DEF StoryInv
    <2>2. CASE Terminated
      <3>1. SweepStory'
        BY <2>0, <2>2 DEF SweepStory, OnlySignalsStopTheSweep, NothingLeftOpen, Terminated
      <3>2. ASSUME NEW q \in Pipelines PROVE StoryOf(q)'
        BY <1>0, <2>0, <2>2 DEF StoryOf, Terminated, life, SweepTypeOK
      <3> QED  BY <3>1, <3>2 DEF StoryInv
    <2>3. CASE KeyboardInterrupt
      <3>1. ~Parallel => conn \subseteq cut'
        BY <2>3 DEF KeyboardInterrupt, PoolInv, In, Interruptible, Ending
      <3>2. SweepStory'
        BY <2>0, <2>3, <3>1
           DEF SweepStory, OnlySignalsStopTheSweep, NothingLeftOpen, KeyboardInterrupt, life
      <3>3. ASSUME NEW q \in Pipelines PROVE StoryOf(q)'
        BY <1>0, <2>0, <2>3 DEF StoryOf, KeyboardInterrupt, life, SweepTypeOK
      <3> QED  BY <3>2, <3>3 DEF StoryInv
    <2> QED  BY <1>3, <2>1, <2>2, <2>3 DEF Signal
  <1>4. CASE UNCHANGED sweepVars
    BY <1>0, <1>4 DEF sweepVars, life, StoryInv, StoryOf, SweepStory, OnlySignalsStopTheSweep,
          NothingLeftOpen, Parallel
  <1> QED  BY <1>1, <1>2, <1>3, <1>4 DEF SweepNext, Over

(* The sweep's answers and the run records agree, only a signal or a close    *)
(* hook ends a sweep early, and a sweep leaves no connection open but one     *)
(* whose finally block a signal cut (runner.py:1626, 2615-2660).              *)
THEOREM SweepStoryHolds ==
    SweepSpec => [](AnswersMatchRecords /\ OnlySignalsStopTheSweep /\ NothingLeftOpen)
  <1>1. SweepSpec => []SweepTypeOK
    BY SweepTyping
  <1>2. SweepTypeOK /\ PoolInv /\ [SweepNext]_sweepVars => PoolInv'
    BY NextPool
  <1>3. SweepTypeOK /\ PoolInv /\ StoryInv /\ [SweepNext]_sweepVars => StoryInv'
    BY NextStory
  <1>4. SweepTypeOK /\ StoryInv => AnswersMatchRecords /\ OnlySignalsStopTheSweep /\ NothingLeftOpen
    BY DEF StoryInv, StoryOf, SweepStory, AnswersMatchRecords, ExitCode, SweepTypeOK, Said, Unsaid,
           Interruptible, Phases
  <1> QED  BY <1>1, <1>2, <1>3, <1>4, InitPool, InitStory, PTL DEF SweepSpec

(* A fault of one pipeline never ends the sweep of the others: only a signal  *)
(* or a close hook that raises does (runner.py:1626).                         *)
THEOREM OnlySignalsStop == SweepSpec => []OnlySignalsStopTheSweep
  BY SweepStoryHolds, PTL

(* No run closes its connection before it has written its record, or failed   *)
(* to (runner.py:2632-2660).                                                  *)
THEOREM RunsAreRecorded == SweepSpec => RecordedBeforeClosed
  <1>1. SweepTypeOK /\ PoolInv /\ StoryInv /\ [SweepNext]_sweepVars
            => [\A p \in conn \ conn' : record[p] # "none"]_sweepVars
    <2> SUFFICES ASSUME SweepTypeOK, StoryInv, SweepNext, NEW p \in conn \ conn' PROVE record[p] # "none"
      OBVIOUS
    <2>1. p \in Pipelines /\ Close(p)
      BY DEF SweepTypeOK, SweepNext, Step, Start, Take, Acquire, Plan, Open, Load, Record, Close, Closed,
            CloseFails, Release, Return, Signal, Abort, Terminated, KeyboardInterrupt, Over, life, sweepVars
    <2> QED  BY <2>1 DEF StoryInv, StoryOf, Close
  <1>2. SweepSpec => []SweepTypeOK
    BY SweepTyping
  <1>3. SweepTypeOK /\ PoolInv /\ [SweepNext]_sweepVars => PoolInv'
    BY NextPool
  <1>4. SweepTypeOK /\ PoolInv /\ StoryInv /\ [SweepNext]_sweepVars => StoryInv'
    BY NextStory
  <1> QED  BY <1>1, <1>2, <1>3, <1>4, InitPool, InitStory, PTL DEF SweepSpec, RecordedBeforeClosed
=============================================================================
