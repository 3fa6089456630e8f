----------------------------- MODULE LeasesProofs -----------------------------
(***************************************************************************)
(* Proofs about Leases, for any number of runs and streams.  Sequential    *)
(* runs never execute a stream at the same time, and never lose a lease    *)
(* they work under, when the heartbeats they may miss fit in the time      *)
(* after which a lease is stale; runs that use their pools do only while   *)
(* one of them waits, interrupted, for its threads.                        *)
(*                                                                         *)
(* NoDoubleRun is not inductive.  WorkInv adds that a run that beats owns  *)
(* the row of every stream it holds, and bounds the age of that row by     *)
(* what the coordinator knows: the beats missed, the time since _last_beat *)
(* and the time since the last occasion to beat (a batch or a wake-up of   *)
(* the pump).  That a build respects the cap of its project needs no       *)
(* timing: CapInv counts the rows of a run since its only acquire.         *)
(***************************************************************************)
EXTENDS SharedStream, TLAPS, FiniteSetTheorems, WellFoundedInduction

\* The longest time between two beats.
Period == Interval + MaxGap

\* Time enough to miss MaxMissed beats.
InTime == (MaxMissed + 1) * Period <= Stale

\* The heartbeat callback beats for a sequential run only with one thread
\* configured, the pump for a run that uses its pool.
Beats(r) == pc[r] = "running" /\ (Threads = 1 \/ ~Sequential(r))

\* Time since the last beat that may have been missed, as far as it is known.
SinceBeat(r) == IF beatAge[r] < Interval THEN beatAge[r] ELSE Interval + gap[r]

\* Where the streams of a run are.  With one thread only a run in progress
\* executes any; the threads of a pool may outlive it.
PlaceInv ==
    \A r \in Run :
        /\ pc[r] = "running" => active[r] \cup todo[r] \subseteq held[r]
        /\ pc[r] \in {"new", "read"} \/ (Threads = 1 /\ pc[r] # "running") =>
               active[r] = {} /\ todo[r] = {}

\* A run that beats owns the rows of what it holds, and they are fresh.
OwnInv ==
    \A r \in Run : Beats(r) =>
        \A s \in held[r] :
            /\ lease[s].run = r
            /\ lease[s].status = "running"
            /\ lease[s].age <= missed[r] * Period + SinceBeat(r)

WorkInv == TypeOK /\ PlaceInv /\ OwnInv
-----------------------------------------------------------------------------
\* Only the fields of a row matter, whatever their values.
LEMMA RowType ==
    ASSUME NEW r \in Run, NEW status \in {"running", "done", "failed"},
           NEW age \in 0 .. Stale + 1
    PROVE  [run |-> r, status |-> status, age |-> age] \in LeaseRow
  BY DEF LeaseRow

LEMMA TakeType ==
    ASSUME TypeOK, NEW r \in Run, NEW won, Take(r, won)
    PROVE  lease' \in [Stream -> LeaseRow]
  BY RowType, LeaseAssumption DEF LeaseAssumption, Take, TypeOK

LEMMA UpdateType ==
    ASSUME TypeOK, NEW r \in Run,
           NEW statusOf \in [Stream -> {"running", "done", "failed"}],
           Update(r, statusOf)
    PROVE  lease' \in [Stream -> LeaseRow]
  BY RowType, LeaseAssumption DEF LeaseAssumption, Update, TypeOK

LEMMA TerminalType ==
    ASSUME NEW r \in Run
    PROVE  Terminal(r) \in [Stream -> {"running", "done", "failed"}]
  BY DEF Terminal

LEMMA BeatType ==
    ASSUME TypeOK, NEW r \in Run, Beat(r)
    PROVE  /\ lease' \in [Stream -> LeaseRow]
           /\ beatAge' \in [Run -> 0 .. Interval]
           /\ missed' \in [Run -> 0 .. MaxMissed]
  <1> USE LeaseAssumption DEF LeaseAssumption
  <1> DEFINE alive == [s \in Stream |-> "running"]
  <1>1. alive \in [Stream -> {"running", "done", "failed"}]
    OBVIOUS
  <1>2. Update(r, alive) => lease' \in [Stream -> LeaseRow]
    BY <1>1, UpdateType
  <1>3. lease' \in [Stream -> LeaseRow]
    BY <1>2 DEF Beat, beatVars, TypeOK
  <1>4. missed' \in [Run -> 0 .. MaxMissed]
    <2>1. missed' = missed \/ missed' = [missed EXCEPT ![r] = 0]
          \/ (missed[r] < MaxMissed /\ missed' = [missed EXCEPT ![r] = @ + 1])
      BY DEF Beat, beatVars
    <2> QED
      BY <2>1 DEF TypeOK
  <1>5. beatAge' \in [Run -> 0 .. Interval]
    BY DEF Beat, beatVars, TypeOK
  <1> QED
    BY <1>3, <1>4, <1>5

\* A row stays a row when it gets older.
LEMMA TickType ==
    ASSUME TypeOK, Tick
    PROVE  lease' \in [Stream -> LeaseRow]
  <1> USE LeaseAssumption DEF LeaseAssumption
  <1> SUFFICES ASSUME NEW s \in Stream
               PROVE  (IF lease[s].status = "running" /\ lease[s].age <= Stale
                       THEN [lease[s] EXCEPT !.age = @ + 1] ELSE lease[s])
                        \in LeaseRow
    BY DEF Tick
  <1>1. lease[s] \in LeaseRow
    BY DEF TypeOK
  <1>2. CASE lease[s].status = "running" /\ lease[s].age <= Stale
    <2>1. lease[s] # NoLease
      BY <1>2 DEF NoLease
    <2>2. lease[s] \in [run : Run, status : {"running", "done", "failed"},
                        age : 0 .. Stale + 1]
      BY <1>1, <2>1 DEF LeaseRow
    <2>3. [lease[s] EXCEPT !.age = @ + 1] \in
            [run : Run, status : {"running", "done", "failed"},
             age : 0 .. Stale + 1]
      BY <1>2, <2>2
    <2> QED
      BY <1>2, <2>3 DEF LeaseRow
  <1>3. CASE ~(lease[s].status = "running" /\ lease[s].age <= Stale)
    BY <1>1, <1>3
  <1> QED
    BY <1>2, <1>3

\* The type invariant.
THEOREM LeaseTyping == Spec => []TypeOK
  <1> USE LeaseAssumption DEF LeaseAssumption
  <1>1. Init => TypeOK
    BY DEF Init, TypeOK, LeaseRow
  <1>2. TypeOK /\ [Next]_vars => TypeOK'
    <2> SUFFICES ASSUME TypeOK, [Next]_vars PROVE TypeOK'
      OBVIOUS
    <2> USE DEF selectionVars, workVars, beatVars
    <2>1. ASSUME NEW r \in Run, NEW streams \in Selections,
                 ReadLeases(r, streams)
          PROVE  TypeOK'
      BY <2>1 DEF ReadLeases, TypeOK
    <2>2. ASSUME NEW r \in Run, AcquireAll(r) PROVE TypeOK'
      BY <2>2, TakeType DEF AcquireAll, LookedUp, TypeOK, Candidates
    <2>3. ASSUME NEW r \in Run, NEW s \in Stream, StartStream(r, s)
          PROVE  TypeOK'
      BY <2>3 DEF StartStream, TypeOK
    <2>4. ASSUME NEW r \in Run, Batch(r) PROVE TypeOK'
      BY <2>4, BeatType DEF Batch, TypeOK
    <2>5. ASSUME NEW r \in Run, Pump(r) PROVE TypeOK'
      BY <2>5, BeatType DEF Pump, TypeOK
    <2>6. ASSUME NEW r \in Run, NEW s \in Stream,
                 NEW status \in {"done", "failed"}, EndStream(r, s, status)
          PROVE  TypeOK'
      BY <2>6 DEF EndStream, TypeOK
    <2>7. ASSUME NEW r \in Run, ReleaseAll(r) PROVE TypeOK'
      BY <2>7, UpdateType, TerminalType DEF ReleaseAll, Close, TypeOK
    <2>8. ASSUME NEW r \in Run, ShutDown(r) PROVE TypeOK'
      BY <2>8 DEF ShutDown, TypeOK
    <2>9. ASSUME NEW r \in Run, AcquireLost(r) PROVE TypeOK'
      BY <2>9, TakeType DEF AcquireLost, LookedUp, TypeOK
    <2>10. ASSUME NEW r \in Run, ReleaseFails(r) PROVE TypeOK'
      <3> DEFINE OwnType ==
                   /\ held \in [Run -> SUBSET Stream]
                   /\ outcome \in [Run -> [Stream ->
                                              {"none", "done", "failed"}]]
                   /\ beatAge \in [Run -> 0 .. Interval]
                   /\ gap \in [Run -> 0 .. MaxGap]
                   /\ missed \in [Run -> 0 .. MaxMissed]
      <3>1. /\ UNCHANGED <<held, outcome, beatVars, gap>> \/ Close(r)
            /\ UNCHANGED <<lease, wanted, seen, todo, active>>
        BY <2>10 DEF ReleaseFails, selectionVars
      <3>5. pc' \in [Run -> {"new", "read", "running", "shutdown", "final",
                            "ended", "dead"}]
        BY <2>10 DEF ReleaseFails, TypeOK
      <3>6. /\ lease' \in [Stream -> LeaseRow]
            /\ wanted' \in [Run -> SUBSET Stream]
            /\ seen' \in [Run -> SUBSET Stream]
            /\ todo' \in [Run -> SUBSET Stream]
            /\ active' \in [Run -> SUBSET Stream]
        BY <3>1 DEF TypeOK
      <3>2. ASSUME Close(r) PROVE OwnType'
        BY <3>2 DEF Close, TypeOK
      <3>3. ASSUME UNCHANGED <<held, outcome, beatVars, gap>> PROVE OwnType'
        BY <3>3 DEF beatVars, TypeOK
      <3>4. OwnType'
        BY <3>1, <3>2, <3>3
      <3> QED
        BY <3>4, <3>5, <3>6 DEF TypeOK
    <2>11. ASSUME NEW r \in Run, Interrupt(r) PROVE TypeOK'
      BY <2>11 DEF Interrupt, TypeOK
    <2>12. ASSUME NEW r \in Run, Crash(r) PROVE TypeOK'
      BY <2>12 DEF Crash, LookedUp, Close, TypeOK
    <2>13. CASE Tick
      <3>1. /\ beatAge' \in [Run -> 0 .. Interval]
            /\ gap' \in [Run -> 0 .. MaxGap]
        BY <2>13 DEF Tick, TypeOK
      <3> QED
        BY <2>13, <3>1, TickType DEF Tick, TypeOK
    <2>14. CASE UNCHANGED vars
      BY <2>14 DEF vars, TypeOK
    <2> QED
      BY <2>1, <2>2, <2>3, <2>4, <2>5, <2>6, <2>7, <2>8, <2>9, <2>10, <2>11,
         <2>12, <2>13, <2>14 DEF Next, RunStep
  <1> QED
    BY <1>1, <1>2, PTL DEF Spec
-----------------------------------------------------------------------------
\* What the proof needs of products.
LEMMA ProductMonotone ==
    ASSUME NEW m \in Nat, NEW n \in Nat, m <= n, NEW p \in Nat
    PROVE  m * p \in Nat /\ m * p <= n * p /\ (m + 1) * p = m * p + p
  <1>1. (n - m) * p >= 0 /\ n - m \in Nat
    OBVIOUS
  <1>2. (n - m) * p = n * p - m * p
    OBVIOUS
  <1> QED
    BY <1>1, <1>2

LEMMA SinceBeatType ==
    ASSUME TypeOK, NEW r \in Run
    PROVE  /\ Period \in Nat /\ missed[r] \in Nat
           /\ missed[r] * Period \in Nat
           /\ missed[r] * Period <= MaxMissed * Period
           /\ SinceBeat(r) \in Nat /\ SinceBeat(r) <= Period
  <1> USE LeaseAssumption DEF LeaseAssumption
  <1>1. Period \in Nat /\ missed[r] \in Nat /\ missed[r] <= MaxMissed
        /\ MaxMissed \in Nat
    BY DEF Period, TypeOK
  <1>2. missed[r] * Period \in Nat /\ missed[r] * Period <= MaxMissed * Period
    BY <1>1, ProductMonotone
  <1>3. SinceBeat(r) \in Nat /\ SinceBeat(r) <= Period
    BY DEF SinceBeat, Period, TypeOK
  <1> QED
    BY <1>1, <1>2, <1>3

\* A run that beats works under live leases of its own.
LEMMA HeldIsLive ==
    ASSUME InTime, WorkInv, NEW r \in Run, Beats(r), NEW s \in held[r]
    PROVE  lease[s].run = r /\ Live(lease[s]) /\ s \in Stream
  <1> USE LeaseAssumption DEF LeaseAssumption
  <1>1. s \in Stream /\ lease[s].age \in Int
    BY DEF WorkInv, TypeOK, LeaseRow, NoLease
  <1>2. lease[s].age <= missed[r] * Period + SinceBeat(r)
    BY DEF WorkInv, OwnInv
  <1>3. (MaxMissed + 1) * Period = MaxMissed * Period + Period
        /\ MaxMissed * Period \in Nat
    BY ProductMonotone, SinceBeatType DEF WorkInv
  <1>4. missed[r] * Period + SinceBeat(r) <= MaxMissed * Period + Period
    BY SinceBeatType, <1>3 DEF WorkInv
  <1>5. lease[s].age <= Stale
    BY <1>1, <1>2, <1>3, <1>4, SinceBeatType DEF WorkInv, InTime
  <1> QED
    BY <1>1, <1>5 DEF WorkInv, OwnInv, Live

\* No other run writes the rows a run that beats holds.
LEMMA OthersKeepRows ==
    ASSUME InTime, WorkInv, NEW r \in Run, NEW q \in Run, q # r,
           Beats(q), NEW s \in held[q], NEW statusOf,
           Take(r, {t \in Candidates(r) : Wins(r, t)}) \/ Update(r, statusOf)
    PROVE  lease'[s] = lease[s]
  <1>1. lease[s].run = q /\ Live(lease[s]) /\ s \in Stream
    BY HeldIsLive
  <1>2. CASE Take(r, {t \in Candidates(r) : Wins(r, t)})
    BY <1>1, <1>2 DEF Take, Wins
  <1>3. CASE Update(r, statusOf)
    BY <1>1, <1>3 DEF Update
  <1> QED
    BY <1>2, <1>3

\* So it is enough to look at the run that moves.
LEMMA OthersKeepOwn ==
    ASSUME InTime, WorkInv, NEW r \in Run, NEW statusOf,
           \/ Take(r, {t \in Candidates(r) : Wins(r, t)})
           \/ Update(r, statusOf)
           \/ UNCHANGED lease,
           \A q \in Run \ {r} :
               /\ pc'[q] = pc[q] /\ held'[q] = held[q] /\ missed'[q] = missed[q]
               /\ beatAge'[q] = beatAge[q] /\ gap'[q] = gap[q],
           Beats(r)' =>
               \A s \in held'[r] :
                   /\ lease'[s].run = r /\ lease'[s].status = "running"
                   /\ lease'[s].age <= missed'[r] * Period + SinceBeat(r)'
    PROVE  OwnInv'
  <1> SUFFICES ASSUME NEW q \in Run, Beats(q)', q # r,
                      NEW s \in (held[q])'
               PROVE  /\ (lease[s].run)' = q /\ (lease[s].status)' = "running"
                      /\ (lease[s].age)' <= (missed[q])' * Period + SinceBeat(q)'
    BY DEF OwnInv
  <1>1. Beats(q) /\ s \in held[q] /\ missed'[q] = missed[q]
        /\ SinceBeat(q)' = SinceBeat(q)
    BY DEF SinceBeat, Beats, Sequential
  <1>2. lease'[s] = lease[s]
    BY <1>1, OthersKeepRows
  <1> QED
    BY <1>1, <1>2 DEF WorkInv, OwnInv

\* A step of a run that is not in progress afterwards keeps the invariant,
\* whatever happens to its own rows.
LEMMA StoppedKeepsInv ==
    ASSUME InTime, WorkInv, TypeOK', NEW r \in Run, NEW statusOf,
           \/ Take(r, {t \in Candidates(r) : Wins(r, t)})
           \/ Update(r, statusOf)
           \/ UNCHANGED lease,
           \A q \in Run \ {r} :
               /\ pc'[q] = pc[q] /\ held'[q] = held[q] /\ missed'[q] = missed[q]
               /\ beatAge'[q] = beatAge[q] /\ gap'[q] = gap[q]
               /\ active'[q] = active[q] /\ todo'[q] = todo[q],
           pc'[r] # "running",
           pc'[r] = "read" \/ Threads = 1 => active'[r] = {} /\ todo'[r] = {},
           pc'[r] # "new"
    PROVE  WorkInv'
  <1>1. OwnInv'
    BY OthersKeepOwn DEF Beats
  <1>2. PlaceInv'
    BY DEF WorkInv, PlaceInv
  <1> QED
    BY <1>1, <1>2 DEF WorkInv

\* A beat, due or not, landed or lost, keeps the bound on the age of the rows.
LEMMA BeatKeepsInv ==
    ASSUME InTime, WorkInv, TypeOK', PlaceInv', NEW r \in Run,
           Beats(r), Beat(r), gap' = [gap EXCEPT ![r] = 0],
           UNCHANGED <<pc, held>>
    PROVE  WorkInv'
  <1> USE LeaseAssumption DEF LeaseAssumption
  <1> DEFINE alive == [s \in Stream |-> "running"]
  <1>1. /\ Beats(r) /\ Beat(r)
        /\ gap' = [gap EXCEPT ![r] = 0]
        /\ UNCHANGED <<pc, held>>
    OBVIOUS
  <1>2. PlaceInv'
    OBVIOUS
  <1>3. ASSUME NEW s \in held[r]
        PROVE  /\ s \in Stream /\ lease[s].run = r /\ lease[s].status = "running"
               /\ lease[s].age \in Int
               /\ lease[s].age <= missed[r] * Period + SinceBeat(r)
    BY <1>1 DEF WorkInv, OwnInv, TypeOK, LeaseRow, NoLease
  <1>4. Period \in Nat /\ SinceBeat(r) \in Nat /\ SinceBeat(r) <= Period
        /\ missed[r] \in Nat /\ missed[r] * Period \in Nat
    BY SinceBeatType DEF WorkInv
  <1>5. CASE held[r] = {} \/ beatAge[r] < Interval
    <2>1. UNCHANGED <<lease, beatVars>>
      BY <1>1, <1>5 DEF Beat
    <2>2. beatAge[r] < Interval => SinceBeat(r)' = SinceBeat(r)
      BY <2>1 DEF SinceBeat, beatVars
    <2> QED
      BY <1>1, <1>2, <1>3, <1>5, <2>1, <2>2, OthersKeepOwn DEF beatVars, WorkInv
  <1>6. CASE /\ beatAge' = [beatAge EXCEPT ![r] = 0]
             /\ Update(r, alive) /\ missed' = [missed EXCEPT ![r] = 0]
    <2>1. SinceBeat(r)' \in Nat /\ missed'[r] * Period \in Nat
      BY <1>1, <1>4, <1>6 DEF SinceBeat, WorkInv, TypeOK
    <2>2. ASSUME NEW s \in held[r]
          PROVE  lease'[s].run = r /\ lease'[s].status = "running"
                 /\ lease'[s].age = 0
      BY <1>3, <1>6 DEF Update
    <2>3. ASSUME NEW s \in held[r]
          PROVE  /\ lease'[s].run = r /\ lease'[s].status = "running"
                 /\ lease'[s].age <= missed'[r] * Period + SinceBeat(r)'
      BY <2>1, <2>2
    <2>4. \A q \in Run \ {r} :
             /\ pc'[q] = pc[q] /\ held'[q] = held[q] /\ missed'[q] = missed[q]
             /\ beatAge'[q] = beatAge[q] /\ gap'[q] = gap[q]
      BY <1>1, <1>6 DEF WorkInv, TypeOK
    <2>5. held'[r] = held[r]
      BY <1>1
    <2> HIDE DEF alive
    <2> QED
      BY <1>2, <1>6, <2>3, <2>4, <2>5, OthersKeepOwn DEF WorkInv
  <1>7. CASE /\ beatAge' = [beatAge EXCEPT ![r] = 0] /\ UNCHANGED lease
             /\ missed' = [missed EXCEPT ![r] = @ + 1]
    <2>1. SinceBeat(r)' \in Nat /\ missed'[r] = missed[r] + 1
      BY <1>1, <1>4, <1>7 DEF SinceBeat, WorkInv, TypeOK
    <2>2. (missed[r] + 1) * Period = missed[r] * Period + Period
      BY <1>4, ProductMonotone
    <2>3. ASSUME NEW s \in held[r]
          PROVE  /\ lease'[s].run = r /\ lease'[s].status = "running"
                 /\ lease'[s].age <= missed'[r] * Period + SinceBeat(r)'
      BY <1>3, <1>4, <1>7, <2>1, <2>2
    <2> QED
      BY <1>1, <1>2, <1>7, <2>3, OthersKeepOwn DEF WorkInv, TypeOK
  <1> QED
    BY <1>1, <1>5, <1>6, <1>7 DEF Beat

\* Every row grows older by at most one unit, and so does the bound.
LEMMA TickKeepsInv ==
    ASSUME InTime, WorkInv, TypeOK', Tick
    PROVE  WorkInv'
  <1> USE LeaseAssumption DEF LeaseAssumption
  <1>1. PlaceInv'
    BY DEF WorkInv, PlaceInv, Tick, workVars
  <1>2. ASSUME NEW r \in Run, Beats(r)', NEW s \in held'[r]
        PROVE  /\ lease'[s].run = r /\ lease'[s].status = "running"
               /\ lease'[s].age <= missed'[r] * Period + SinceBeat(r)'
    <2>1. Beats(r) /\ pc[r] = "running" /\ s \in held[r] /\ missed' = missed
      BY <1>2 DEF Tick, Beats, Sequential
    <2>2. /\ s \in Stream /\ lease[s].run = r /\ lease[s].status = "running"
          /\ lease[s].age <= missed[r] * Period + SinceBeat(r)
          /\ lease[s].age \in Int /\ lease[s] # NoLease
      BY <2>1 DEF WorkInv, OwnInv, TypeOK, LeaseRow, NoLease
    <2>3. lease[s] \in [run : Run, status : {"running", "done", "failed"},
                        age : 0 .. Stale + 1]
      BY <2>2 DEF WorkInv, TypeOK, LeaseRow
    <2>4. /\ lease'[s].run = r /\ lease'[s].status = "running"
          /\ lease'[s].age <= lease[s].age + 1 /\ lease'[s].age \in Int
      BY <2>2, <2>3 DEF Tick
    <2>5. SinceBeat(r)' >= SinceBeat(r) + 1 /\ SinceBeat(r)' \in Int
          /\ SinceBeat(r) \in Int
      BY <2>1 DEF Tick, SinceBeat, WorkInv, TypeOK
    <2>6. missed[r] * Period \in Int
      BY SinceBeatType DEF WorkInv
    <2> QED
      BY <2>1, <2>2, <2>4, <2>5, <2>6
  <1>3. OwnInv'
    BY <1>2 DEF OwnInv
  <1> QED
    BY <1>1, <1>3 DEF WorkInv

\* Every step keeps the invariant.
LEMMA WorkStep ==
    ASSUME InTime, WorkInv, TypeOK', [Next]_vars
    PROVE  WorkInv'
  <1> USE LeaseAssumption DEF LeaseAssumption
  <1> USE DEF selectionVars, workVars, beatVars
  <1>0. ASSUME Threads = 1, NEW r \in Run PROVE Sequential(r)
    BY <1>0 DEF Sequential
  <1>1. ASSUME NEW r \in Run, NEW streams \in Selections, ReadLeases(r, streams)
        PROVE  WorkInv'
    <2>1. pc[r] = "new" /\ pc'[r] = "read" /\ active[r] = {} /\ todo[r] = {}
      BY <1>1 DEF ReadLeases, WorkInv, TypeOK, PlaceInv
    <2> QED
      BY <1>1, <2>1, StoppedKeepsInv DEF ReadLeases, WorkInv, TypeOK
  <1>2. ASSUME NEW r \in Run, AcquireAll(r) PROVE WorkInv'
    <2> DEFINE won == {t \in Candidates(r) : Wins(r, t)}
    <2>1. /\ pc[r] = "read" /\ active[r] = {} /\ todo[r] = {}
          /\ Take(r, won) /\ held' = [held EXCEPT ![r] = won]
          /\ todo' = [todo EXCEPT ![r] = won]
          /\ UNCHANGED <<active, missed, beatAge, gap>>
          /\ pc' = [pc EXCEPT ![r] = "running"]
      BY <1>2 DEF AcquireAll, WorkInv, PlaceInv
    <2>2. won \subseteq Stream
      BY DEF Candidates, WorkInv, TypeOK
    <2>3. PlaceInv'
      BY <2>1 DEF WorkInv, PlaceInv, TypeOK
    <2>4. missed'[r] * Period + SinceBeat(r)' >= 0
      <3>1. missed[r] * Period \in Nat /\ SinceBeat(r) \in Nat
        BY SinceBeatType DEF WorkInv
      <3>2. SinceBeat(r)' = SinceBeat(r)
        BY <2>1 DEF SinceBeat
      <3> QED
        BY <2>1, <3>1, <3>2
    <2>5. ASSUME NEW s \in held'[r]
          PROVE  /\ lease'[s].run = r /\ lease'[s].status = "running"
                 /\ lease'[s].age <= missed'[r] * Period + SinceBeat(r)'
      <3>1. s \in won /\ s \in Stream
        BY <2>1, <2>2 DEF WorkInv, TypeOK
      <3>2. lease'[s] = [run |-> r, status |-> "running", age |-> 0]
        BY <2>1, <3>1 DEF Take
      <3> QED
        BY <2>4, <3>2
    <2>6. \A q \in Run \ {r} :
             /\ pc'[q] = pc[q] /\ held'[q] = held[q] /\ missed'[q] = missed[q]
             /\ beatAge'[q] = beatAge[q] /\ gap'[q] = gap[q]
      BY <2>1 DEF WorkInv, TypeOK
    <2> QED
      BY <2>1, <2>3, <2>5, <2>6, OthersKeepOwn DEF WorkInv
  <1>3. ASSUME NEW r \in Run, NEW s \in Stream, StartStream(r, s)
        PROVE  WorkInv'
    <2>1. OwnInv'
      BY <1>3 DEF StartStream, WorkInv, OwnInv, SinceBeat, Beats, Sequential
    <2>2. PlaceInv'
      BY <1>3 DEF StartStream, WorkInv, PlaceInv, TypeOK
    <2> QED
      BY <2>1, <2>2 DEF WorkInv
  <1>4. ASSUME NEW r \in Run, Batch(r) PROVE WorkInv'
    <2>1. /\ gap' = [gap EXCEPT ![r] = 0] /\ UNCHANGED <<pc, held, todo, active>>
          /\ active[r] # {} /\ Sequential(r)
      BY <1>4 DEF Batch
    <2>2. PlaceInv'
      BY <2>1 DEF WorkInv, PlaceInv
    <2>3. CASE Threads = 1
      <3>1. Beats(r) /\ Beat(r)
        BY <1>4, <2>1, <2>3 DEF Batch, Beats, WorkInv, PlaceInv
      <3> QED
        BY <2>1, <2>2, <3>1, BeatKeepsInv
    <2>4. CASE Threads # 1
      <3>1. UNCHANGED <<lease, beatAge, missed>>
        BY <1>4, <2>4 DEF Batch
      <3>2. ~Beats(r)'
        BY <2>1, <2>4 DEF Beats, Sequential
      <3> QED
        BY <2>1, <2>2, <3>1, <3>2, OthersKeepOwn DEF WorkInv, TypeOK
    <2> QED
      BY <2>3, <2>4
  <1>5. ASSUME NEW r \in Run, Pump(r) PROVE WorkInv'
    <2>1. /\ Beats(r) /\ Beat(r) /\ gap' = [gap EXCEPT ![r] = 0]
          /\ UNCHANGED <<pc, held, active>>
          /\ todo' = [todo EXCEPT ![r] = todo'[r]] /\ todo'[r] \subseteq todo[r]
      BY <1>5 DEF Pump, Beats, WorkInv, TypeOK
    <2>2. PlaceInv'
      BY <2>1 DEF WorkInv, PlaceInv, TypeOK
    <2> QED
      BY <2>1, <2>2, BeatKeepsInv
  <1>6. ASSUME NEW r \in Run, NEW s \in Stream,
               NEW status \in {"done", "failed"}, EndStream(r, s, status)
        PROVE  WorkInv'
    <2>1. OwnInv'
      BY <1>6 DEF EndStream, WorkInv, OwnInv, SinceBeat, Beats, Sequential
    <2>2. PlaceInv'
      BY <1>6 DEF EndStream, WorkInv, PlaceInv, TypeOK
    <2> QED
      BY <2>1, <2>2 DEF WorkInv
  <1>7. ASSUME NEW r \in Run, ReleaseAll(r) PROVE WorkInv'
    <2>1. /\ pc'[r] = "ended" /\ UNCHANGED <<active, todo>>
          /\ Threads = 1 => active[r] = {} /\ todo[r] = {}
      BY <1>7 DEF ReleaseAll, Drained, WorkInv, PlaceInv, TypeOK
    <2>2. Update(r, Terminal(r))
      BY <1>7 DEF ReleaseAll
    <2> QED
      BY <1>7, <2>1, <2>2, StoppedKeepsInv DEF ReleaseAll, Close, WorkInv, TypeOK
  <1>8. ASSUME NEW r \in Run, ShutDown(r) PROVE WorkInv'
    BY <1>8, StoppedKeepsInv DEF ShutDown, WorkInv, TypeOK
  <1>9. ASSUME NEW r \in Run, AcquireLost(r) PROVE WorkInv'
    <2>1. active[r] = {} /\ todo[r] = {} /\ pc'[r] = "ended"
      BY <1>9 DEF AcquireLost, WorkInv, PlaceInv, TypeOK
    <2> QED
      BY <1>9, <2>1, StoppedKeepsInv DEF AcquireLost, WorkInv, TypeOK
  <1>10. ASSUME NEW r \in Run, ReleaseFails(r) PROVE WorkInv'
    <2>1. /\ pc'[r] \in {"final", "ended"}
          /\ Threads = 1 => active[r] = {} /\ todo[r] = {}
      BY <1>10 DEF ReleaseFails, Drained, WorkInv, PlaceInv, TypeOK
    <2>2. \A q \in Run \ {r} :
             /\ pc'[q] = pc[q] /\ held'[q] = held[q] /\ missed'[q] = missed[q]
             /\ beatAge'[q] = beatAge[q] /\ gap'[q] = gap[q]
      BY <1>10 DEF ReleaseFails, Close, WorkInv, TypeOK
    <2>3. UNCHANGED <<lease, todo, active>>
      BY <1>10 DEF ReleaseFails
    <2> QED
      BY <2>1, <2>2, <2>3, StoppedKeepsInv
  <1>11. ASSUME NEW r \in Run, Interrupt(r) PROVE WorkInv'
    <2>1. /\ pc' = [pc EXCEPT ![r] = "shutdown"] \/ pc' = [pc EXCEPT ![r] = "final"]
          /\ \/ Threads # 1 /\ UNCHANGED <<todo, active>>
             \/ /\ todo' = [todo EXCEPT ![r] = {}]
                /\ active' = [active EXCEPT ![r] = {}]
          /\ UNCHANGED <<lease, held, missed, beatAge, gap>>
      BY <1>0, <1>11 DEF Interrupt, beatVars
    <2>2. /\ pc \in [Run -> {"new", "read", "running", "shutdown", "final",
                             "ended", "dead"}]
          /\ todo \in [Run -> SUBSET Stream]
          /\ active \in [Run -> SUBSET Stream]
      BY DEF WorkInv, TypeOK
    <2>3. /\ pc'[r] \in {"shutdown", "final"}
          /\ Threads = 1 => active'[r] = {} /\ todo'[r] = {}
          /\ \A q \in Run \ {r} :
                /\ pc'[q] = pc[q] /\ held'[q] = held[q]
                /\ missed'[q] = missed[q] /\ beatAge'[q] = beatAge[q]
                /\ gap'[q] = gap[q] /\ active'[q] = active[q]
                /\ todo'[q] = todo[q]
      BY <2>1, <2>2
    <2> QED
      BY <2>1, <2>3, StoppedKeepsInv
  <1>12. ASSUME NEW r \in Run, Crash(r) PROVE WorkInv'
    BY <1>12, StoppedKeepsInv DEF Crash, Close, WorkInv, TypeOK
  <1>13. CASE Tick
    BY <1>13, TickKeepsInv
  <1>14. CASE UNCHANGED vars
    BY <1>14 DEF vars, WorkInv, PlaceInv, OwnInv, SinceBeat, Beats, Sequential
  <1> QED
    BY <1>1, <1>2, <1>3, <1>4, <1>5, <1>6, <1>7, <1>8, <1>9, <1>10, <1>11,
       <1>12, <1>13, <1>14 DEF Next, RunStep

\* The inductive invariant.
THEOREM WorkInvariance ==
    ASSUME InTime
    PROVE  Spec => []WorkInv
  <1>1. Init => PlaceInv /\ OwnInv
    BY DEF Init, PlaceInv, OwnInv, Beats
  <1>2. TypeOK /\ PlaceInv /\ OwnInv => WorkInv
    BY DEF WorkInv
  <1>3. WorkInv /\ TypeOK' /\ [Next]_vars => WorkInv'
    BY WorkStep
  <1> QED
    BY <1>1, <1>2, <1>3, LeaseTyping, PTL DEF Spec

\* Sequential runs never execute one stream at the same time, for any number
\* of runs and streams (CHANGELOG.md:987).
THEOREM SequentialRunsExclude ==
    ASSUME InTime, Threads = 1
    PROVE  Spec => []NoDoubleRun
  <1>1. WorkInv => NoDoubleRun
    BY HeldIsLive DEF WorkInv, PlaceInv, Beats, NoDoubleRun
  <1> QED
    BY <1>1, WorkInvariance, PTL

\* A run that gives signs of life in time is not taken for dead.
THEOREM WorkingLeaseStaysLive ==
    ASSUME InTime, Threads = 1
    PROVE  Spec => []WorkingLeaseIsLive
  <1>1. WorkInv => WorkingLeaseIsLive
    BY HeldIsLive DEF WorkInv, PlaceInv, Beats, WorkingLeaseIsLive
  <1> QED
    BY <1>1, WorkInvariance, PTL
-----------------------------------------------------------------------------
\* The rest needs no assumption on time: at most one signal per run.

\* Outside the dispatcher and the pool's shutdown a run executes nothing.
QuietInv ==
    /\ TypeOK
    /\ \A r \in Run : pc[r] \notin {"running", "shutdown"} =>
                        active[r] = {} /\ todo[r] = {}

LEMMA QuietStep ==
    ASSUME Signals <= 1, QuietInv, TypeOK', [Next]_vars
    PROVE  QuietInv'
  <1> USE LeaseAssumption DEF LeaseAssumption, QuietInv
  <1> USE DEF selectionVars, workVars, beatVars
  <1> SUFFICES ASSUME NEW q \in Run, (pc[q])' \notin {"running", "shutdown"}
               PROVE  (active[q])' = {} /\ (todo[q])' = {}
    OBVIOUS
  <1>1. ASSUME NEW r \in Run, NEW streams \in Selections, ReadLeases(r, streams)
        PROVE  active'[q] = {} /\ todo'[q] = {}
    BY <1>1 DEF ReadLeases, TypeOK
  <1>2. ASSUME NEW r \in Run, AcquireAll(r)
        PROVE  active'[q] = {} /\ todo'[q] = {}
    BY <1>2 DEF AcquireAll, TypeOK
  <1>3. ASSUME NEW r \in Run, NEW s \in Stream, StartStream(r, s)
        PROVE  active'[q] = {} /\ todo'[q] = {}
    BY <1>3 DEF StartStream, TypeOK
  <1>4. ASSUME NEW r \in Run, Batch(r)
        PROVE  active'[q] = {} /\ todo'[q] = {}
    BY <1>4 DEF Batch
  <1>5. ASSUME NEW r \in Run, Pump(r)
        PROVE  active'[q] = {} /\ todo'[q] = {}
    BY <1>5 DEF Pump, TypeOK
  <1>6. ASSUME NEW r \in Run, NEW s \in Stream,
               NEW status \in {"done", "failed"}, EndStream(r, s, status)
        PROVE  active'[q] = {} /\ todo'[q] = {}
    BY <1>6 DEF EndStream, TypeOK
  <1>7. ASSUME NEW r \in Run,
               ReleaseAll(r) \/ ReleaseFails(r) \/ ShutDown(r) \/ AcquireLost(r)
        PROVE  active'[q] = {} /\ todo'[q] = {}
    <2>1. \/ pc[r] \notin {"running", "shutdown"}
          \/ active[r] = {} /\ todo[r] = {}
      BY <1>7 DEF ReleaseAll, ReleaseFails, ShutDown, AcquireLost, Drained
    <2>2. q # r => pc'[q] = pc[q]
      BY <1>7 DEF ReleaseAll, ReleaseFails, ShutDown, AcquireLost, TypeOK
    <2>3. UNCHANGED <<active, todo>>
      BY <1>7 DEF ReleaseAll, ReleaseFails, ShutDown, AcquireLost
    <2> QED
      BY <2>1, <2>2, <2>3
  <1>8. ASSUME NEW r \in Run, Interrupt(r)
        PROVE  active'[q] = {} /\ todo'[q] = {}
    BY <1>8 DEF Interrupt, TypeOK
  <1>9. ASSUME NEW r \in Run, Crash(r)
        PROVE  active'[q] = {} /\ todo'[q] = {}
    BY <1>9 DEF Crash, TypeOK
  <1>10. CASE Tick \/ UNCHANGED vars
    BY <1>10 DEF Tick, vars
  <1> QED
    BY <1>1, <1>2, <1>3, <1>4, <1>5, <1>6, <1>7, <1>8, <1>9, <1>10
       DEF Next, RunStep

\* Taking or updating rows never harms the live lease of another run.
LEMMA TakeSparesLive ==
    ASSUME TypeOK, NEW r \in Run, Take(r, {t \in Candidates(r) : Wins(r, t)}),
           NEW s \in Stream, Live(lease[s])
    PROVE  lease'[s].run = lease[s].run /\ lease'[s].status = "running"
  BY DEF Take, Wins, Live

LEMMA BeatSparesLive ==
    ASSUME TypeOK, NEW r \in Run, Beat(r), NEW s \in Stream, Live(lease[s])
    PROVE  lease'[s].run = lease[s].run /\ lease'[s].status = "running"
  BY DEF Beat, Update, Live

\* However late a run's acquire, heartbeat or release arrives, it does not
\* take over or end a live lease of another run.
THEOREM LiveLeasesAreKept ==
    ASSUME Signals <= 1
    PROVE  Spec => LiveLeaseKeepsOwner
  <1> USE LeaseAssumption DEF LeaseAssumption
  <1>1. Init => \A r \in Run : active[r] = {} /\ todo[r] = {}
    BY DEF Init
  <1>2. QuietInv /\ TypeOK' /\ [Next]_vars => QuietInv'
    BY QuietStep
  <1>3. ASSUME QuietInv, Next, NEW s \in Stream, Live(lease[s])
        PROVE  /\ lease'[s].run = lease[s].run
               /\ lease'[s].status \in {"done", "failed"} =>
                      s \notin active'[lease[s].run] /\ pc'[lease[s].run] = "ended"
    <2>1. ASSUME NEW r \in Run, AcquireAll(r) \/ AcquireLost(r)
          PROVE  lease'[s].run = lease[s].run /\ lease'[s].status = "running"
      BY <1>3, <2>1, TakeSparesLive DEF AcquireAll, AcquireLost, QuietInv
    <2>2. ASSUME NEW r \in Run, Batch(r) \/ Pump(r)
          PROVE  lease'[s].run = lease[s].run /\ lease'[s].status = "running"
      <3>1. Beat(r) \/ UNCHANGED lease
        BY <2>2 DEF Batch, Pump
      <3> QED
        BY <1>3, <3>1, BeatSparesLive DEF QuietInv, Live
    <2>3. ASSUME NEW r \in Run, ReleaseAll(r)
          PROVE  /\ lease'[s].run = lease[s].run
                 /\ \/ lease'[s] = lease[s]
                    \/ lease[s].run = r /\ active'[r] = {} /\ pc'[r] = "ended"
      <3>1. active'[r] = {} /\ pc'[r] = "ended" /\ Update(r, Terminal(r))
        BY <1>3, <2>3 DEF ReleaseAll, Drained, QuietInv, TypeOK
      <3> QED
        BY <3>1 DEF Update
    <2>4. CASE Tick
      <3>1. lease[s] \in LeaseRow /\ lease[s] # NoLease
        BY <1>3 DEF QuietInv, TypeOK, Live, NoLease
      <3>2. lease[s] \in [run : Run, status : {"running", "done", "failed"},
                          age : 0 .. Stale + 1]
        BY <3>1 DEF LeaseRow
      <3> QED
        BY <1>3, <2>4, <3>2 DEF Tick, Live
    <2>5. ASSUME UNCHANGED lease
          PROVE  lease'[s].run = lease[s].run /\ lease'[s].status = "running"
      BY <1>3, <2>5 DEF Live
    <2>6. ASSUME NEW r \in Run,
                 \/ \E streams \in Selections : ReadLeases(r, streams)
                 \/ \E t \in Stream : StartStream(r, t)
                 \/ \E t \in Stream, status \in {"done", "failed"} :
                        EndStream(r, t, status)
                 \/ ShutDown(r) \/ ReleaseFails(r) \/ Interrupt(r) \/ Crash(r)
          PROVE  UNCHANGED lease
      BY <2>6 DEF ReadLeases, StartStream, EndStream, ShutDown, ReleaseFails,
                  Interrupt, Crash
    <2>7. lease[s].status = "running"
      BY <1>3 DEF Live
    <2> QED
      BY <1>3, <2>1, <2>2, <2>3, <2>4, <2>5, <2>6, <2>7 DEF Next, RunStep
  <1>4. QuietInv /\ [Next]_vars =>
          [\A s \in Stream : Live(lease[s]) =>
             /\ lease'[s].run = lease[s].run
             /\ lease'[s].status \in {"done", "failed"} =>
                    /\ s \notin active'[lease[s].run]
                    /\ pc'[lease[s].run] = "ended"]_lease
    BY <1>3 DEF vars
  <1>5. TypeOK /\ (\A r \in Run : active[r] = {} /\ todo[r] = {}) => QuietInv
    BY DEF QuietInv
  <1> QED
    BY <1>1, <1>2, <1>4, <1>5, LeaseTyping, PTL DEF Spec, LiveLeaseKeepsOwner
-----------------------------------------------------------------------------
\* Pools.

\* Two runs that beat never execute one stream at the same time, be they pools
\* or sequential, and however other runs behave.
THEOREM BeatingRunsExclude ==
    ASSUME InTime
    PROVE  Spec => [](\A r, q \in Run : r # q /\ Beats(r) /\ Beats(q) =>
                          active[r] \cap active[q] = {})
  <1>1. WorkInv => \A r, q \in Run : r # q /\ Beats(r) /\ Beats(q) =>
                       active[r] \cap active[q] = {}
    BY HeldIsLive DEF WorkInv, PlaceInv, Beats
  <1> QED
    BY <1>1, WorkInvariance, PTL

\* Every run that executes a stream leased enough of them to use its pool.
PoolsUsed == \A r \in Run : active[r] # {} => Threads = 1 \/ ~Sequential(r)

\* When every run uses its pool, two runs execute one stream only while one of
\* them, interrupted once, waits for its streams.
THEOREM OnlyShutdownsOverlap ==
    ASSUME InTime, Signals <= 1
    PROVE  Spec /\ []PoolsUsed => []OverlapOnlyInShutdown
  <1>1. Init => QuietInv
    BY LeaseAssumption DEF LeaseAssumption, Init, QuietInv, TypeOK, LeaseRow
  <1>2. QuietInv /\ TypeOK' /\ [Next]_vars => QuietInv'
    BY QuietStep
  <1>3. Spec => []QuietInv
    BY <1>1, <1>2, LeaseTyping, PTL DEF Spec
  <1>4. ASSUME WorkInv, QuietInv, PoolsUsed PROVE OverlapOnlyInShutdown
    <2> SUFFICES ASSUME NEW r \in Run, NEW q \in Run, r # q,
                        active[r] \cap active[q] # {},
                        pc[r] # "shutdown", pc[q] # "shutdown"
                 PROVE  FALSE
      BY DEF OverlapOnlyInShutdown
    <2>1. pc[r] = "running" /\ pc[q] = "running"
      BY <1>4 DEF QuietInv
    <2>2. Beats(r) /\ Beats(q)
      BY <1>4, <2>1 DEF Beats, PoolsUsed
    <2>3. PICK s : s \in active[r] /\ s \in active[q]
      OBVIOUS
    <2>4. s \in held[r] /\ s \in held[q]
      BY <1>4, <2>1, <2>3 DEF WorkInv, PlaceInv
    <2> QED
      BY <1>4, <2>2, <2>4, HeldIsLive
  <1> QED
    BY <1>3, <1>4, WorkInvariance, PTL
-----------------------------------------------------------------------------
\* The cap of a build, whatever the time and the signals.  A live row is one
\* the run wrote in its only acquire, so it is enough to count its rows.

RowsOf(r) == {s \in Stream : lease[s].run = r}

\* A run has no row before it acquires, and never more than the cap.
CapInv ==
    /\ TypeOK
    /\ \A r \in Run : /\ pc[r] \in {"new", "read"} => RowsOf(r) = {}
                      /\ Cardinality(RowsOf(r)) <= MaxParallel

\* A finite set of streams has a last one: the streams after it are fewest.
LEMMA LastOfSome ==
    ASSUME NEW T, T \subseteq Stream, T # {}
    PROVE  \E m \in T : \A s \in T : s <= m
  <1> USE LeaseAssumption DEF LeaseAssumption
  <1> DEFINE after(m) == {q \in T : m < q}
             tails == {after(m) : m \in T}
             inclusion == StrictSubsetOrdering(T)
  <1>1. IsFiniteSet(T)
    BY FS_Subset
  <1>2. IsWellFoundedOn(inclusion, SUBSET T)
    BY <1>1, FS_StrictSubsetOrderingWellFounded, FS_FiniteSubsetsOfFinite
  <1>3. tails \subseteq SUBSET T /\ tails # {}
    OBVIOUS
  <1>4. \E x \in tails : \A y \in tails : ~ (<<y, x>> \in inclusion)
    <2> HIDE DEF tails, inclusion
    <2> QED
      BY <1>2, <1>3, WFMin
  <1>5. PICK m \in T : \A q \in T : ~ (<<after(q), after(m)>> \in inclusion)
    BY <1>4
  <1>6. ASSUME NEW s \in T, m < s PROVE FALSE
    <2>1. m \in Nat /\ s \in Nat /\ T \subseteq Nat
      OBVIOUS
    <2>2. ASSUME NEW q \in after(s) PROVE q \in after(m)
      <3>1. q \in T /\ s < q /\ q \in Nat
        BY <2>1
      <3> QED
        BY <1>6, <2>1, <3>1
    <2>3. s \in after(m) /\ s \notin after(s)
      BY <1>6, <2>1
    <2>4. <<after(s), after(m)>> \in inclusion
      BY <2>2, <2>3 DEF StrictSubsetOrdering
    <2> QED
      BY <1>5, <2>4
  <1> QED
    BY <1>6

\* One element more counts at most one more.
LEMMA OneMore ==
    ASSUME NEW S, IsFiniteSet(S), NEW x
    PROVE  /\ IsFiniteSet(S \cup {x})
           /\ Cardinality(S) \in Nat /\ Cardinality(S \cup {x}) \in Nat
           /\ Cardinality(S \cup {x}) <= Cardinality(S) + 1
  <1>1. /\ IsFiniteSet(S \cup {x}) /\ Cardinality(S) \in Nat
        /\ Cardinality(S \cup {x}) = IF x \in S THEN Cardinality(S)
                                               ELSE Cardinality(S) + 1
    BY FS_AddElement, FS_CardinalityType
  <1> QED
    BY <1>1

\* The streams of a set that have fewer than MaxParallel before them are at
\* most MaxParallel: those before the last of them, and itself.
LEMMA FirstFew ==
    ASSUME NEW W, W \subseteq Stream
    PROVE  Cardinality({s \in W : Cardinality({q \in W : q < s}) < MaxParallel})
             <= MaxParallel
  <1> USE LeaseAssumption DEF LeaseAssumption
  <1> DEFINE before(s) == {q \in W : q < s}
             few == {s \in W : Cardinality(before(s)) < MaxParallel}
  <1> SUFFICES Cardinality(few) <= MaxParallel
    OBVIOUS
  <1>1. few \subseteq Stream /\ \A s \in few : Cardinality(before(s)) < MaxParallel
    OBVIOUS
  <1>2. CASE few = {}
    <2> HIDE DEF few
    <2>1. Cardinality(few) = 0
      BY <1>2, FS_EmptySet
    <2> QED
      BY <2>1
  <1>3. CASE few # {}
    <2>1. PICK m \in few : \A s \in few : s <= m
      <3> HIDE DEF few
      <3> QED
        BY <1>1, <1>3, LastOfSome
    <2>2. ASSUME NEW s \in few PROVE s \in before(m) \cup {m}
      <3>1. s \in W /\ s \in Nat /\ m \in Nat /\ s <= m
        BY <2>1
      <3> QED
        BY <3>1
    <2>3. IsFiniteSet(before(m))
      <3>1. IsFiniteSet(W) /\ before(m) \subseteq W
        BY FS_Subset
      <3> HIDE DEF before
      <3> QED
        BY <3>1, FS_Subset
    <2>4. Cardinality(before(m)) < MaxParallel
      BY <1>1, <2>1
    <2> HIDE DEF before, few
    <2>5. /\ IsFiniteSet(before(m) \cup {m})
          /\ Cardinality(before(m)) \in Nat
          /\ Cardinality(before(m) \cup {m}) \in Nat
          /\ Cardinality(before(m) \cup {m}) <= Cardinality(before(m)) + 1
      BY <2>3, OneMore
    <2>6. Cardinality(few) <= Cardinality(before(m) \cup {m})
          /\ Cardinality(few) \in Nat
      BY <2>2, <2>5, FS_Subset, FS_CardinalityType
    <2> QED
      BY <2>4, <2>5, <2>6
  <1> QED
    BY <1>2, <1>3

LEMMA FewCandidates ==
    ASSUME TypeOK, NEW r \in Run
    PROVE  Cardinality(Candidates(r)) <= MaxParallel
  BY FirstFew DEF TypeOK, Candidates

\* A smaller set of streams counts no more.
LEMMA CountSubset ==
    ASSUME NEW T, T \subseteq Stream, NEW U, U \subseteq T
    PROVE  /\ Cardinality(U) <= Cardinality(T)
           /\ Cardinality(U) \in Nat /\ Cardinality(T) \in Nat
  <1>1. IsFiniteSet(T)
    BY LeaseAssumption, FS_Subset DEF LeaseAssumption
  <1> QED
    BY <1>1, FS_Subset, FS_CardinalityType

\* Only an acquire gives a run rows, and it leaves "new" and "read".
LEMMA RowsOnlyFromAcquire ==
    ASSUME TypeOK, Next, NEW q \in Run, ~ AcquireAll(q), ~ AcquireLost(q)
    PROVE  /\ RowsOf(q)' \subseteq RowsOf(q)
           /\ pc'[q] \in {"new", "read"} => pc[q] \in {"new", "read"}
  <1> USE LeaseAssumption DEF LeaseAssumption
  <1> USE DEF selectionVars, workVars, beatVars
  <1>1. ASSUME NEW r \in Run, AcquireAll(r) \/ AcquireLost(r)
        PROVE  RowsOf(q)' \subseteq RowsOf(q) /\ pc'[q] = pc[q]
    <2>1. r # q /\ Take(r, {t \in Candidates(r) : Wins(r, t)})
      BY <1>1 DEF AcquireAll, AcquireLost
    <2>2. pc'[q] = pc[q]
      BY <1>1, <2>1 DEF AcquireAll, AcquireLost, TypeOK
    <2> QED
      BY <2>1, <2>2 DEF Take, RowsOf
  <1>2. ASSUME NEW r \in Run, NEW statusOf, Update(r, statusOf)
        PROVE  RowsOf(q)' \subseteq RowsOf(q)
    BY <1>2 DEF Update, RowsOf
  <1>3. ASSUME NEW r \in Run, Batch(r) \/ Pump(r)
        PROVE  RowsOf(q)' \subseteq RowsOf(q) /\ pc'[q] = pc[q]
    <2>1. Beat(r) \/ UNCHANGED lease
      BY <1>3 DEF Batch, Pump
    <2>2. RowsOf(q)' \subseteq RowsOf(q)
      BY <1>2, <2>1 DEF Beat, RowsOf
    <2> QED
      BY <1>3, <2>2 DEF Batch, Pump
  <1>4. ASSUME NEW r \in Run, ReleaseAll(r)
        PROVE  /\ RowsOf(q)' \subseteq RowsOf(q)
               /\ pc'[q] \in {"new", "read"} => pc'[q] = pc[q]
    BY <1>2, <1>4 DEF ReleaseAll, TypeOK
  <1>5. CASE Tick
    <2>1. ASSUME NEW s \in Stream PROVE lease'[s].run = lease[s].run
      <3>1. lease[s] \in LeaseRow
        BY DEF TypeOK
      <3>2. lease'[s] = lease[s] \/ lease'[s] = [lease[s] EXCEPT !.age = @ + 1]
        BY <1>5 DEF Tick
      <3>3. [lease[s] EXCEPT !.age = @ + 1].run = lease[s].run
        BY <3>1 DEF LeaseRow, NoLease
      <3> QED
        BY <3>2, <3>3
    <2> QED
      BY <1>5, <2>1 DEF Tick, RowsOf
  <1>6. ASSUME NEW r \in Run,
               \/ \E streams \in Selections : ReadLeases(r, streams)
               \/ \E t \in Stream : StartStream(r, t)
               \/ \E t \in Stream, status \in {"done", "failed"} :
                      EndStream(r, t, status)
               \/ ShutDown(r) \/ ReleaseFails(r) \/ Interrupt(r) \/ Crash(r)
        PROVE  /\ UNCHANGED lease
               /\ pc'[q] \in {"new", "read"} => pc[q] \in {"new", "read"}
    <2>1. UNCHANGED lease
      BY <1>6 DEF ReadLeases, StartStream, EndStream, ShutDown, ReleaseFails,
                  Interrupt, Crash
    <2>2. ASSUME \E streams \in Selections : ReadLeases(r, streams)
          PROVE  pc'[q] \in {"new", "read"} => pc[q] \in {"new", "read"}
      BY <2>2 DEF ReadLeases, TypeOK
    <2>3. ASSUME \/ \E t \in Stream : StartStream(r, t)
                 \/ \E t \in Stream, status \in {"done", "failed"} :
                        EndStream(r, t, status)
          PROVE  pc' = pc
      BY <2>3 DEF StartStream, EndStream
    <2>4. ASSUME ShutDown(r) \/ ReleaseFails(r) \/ Interrupt(r) \/ Crash(r)
          PROVE  pc'[q] \in {"new", "read"} => pc[q] \in {"new", "read"}
      BY <2>4 DEF ShutDown, ReleaseFails, Interrupt, Crash, Drained, TypeOK
    <2> QED
      BY <1>6, <2>1, <2>2, <2>3, <2>4
  <1> QED
    BY <1>1, <1>3, <1>4, <1>5, <1>6 DEF Next, RunStep, RowsOf

LEMMA CapStep ==
    ASSUME CapInv, TypeOK', [Next]_vars
    PROVE  CapInv'
  <1> USE LeaseAssumption DEF LeaseAssumption
  <1>1. CASE UNCHANGED vars
    BY <1>1 DEF vars, CapInv, RowsOf
  <1>2. CASE Next
    <2> SUFFICES ASSUME NEW q \in Run
                 PROVE  /\ pc'[q] \in {"new", "read"} => RowsOf(q)' = {}
                        /\ Cardinality(RowsOf(q)') <= MaxParallel
      BY DEF CapInv, RowsOf
    <2>1. CASE AcquireAll(q) \/ AcquireLost(q)
      <3>1. /\ pc[q] = "read" /\ pc'[q] \notin {"new", "read"}
            /\ Take(q, {t \in Candidates(q) : Wins(q, t)})
        BY <2>1 DEF AcquireAll, AcquireLost, CapInv, TypeOK
      <3>2. RowsOf(q) = {}
        BY <3>1 DEF CapInv
      <3>3. RowsOf(q)' \subseteq Candidates(q)
        BY <3>1, <3>2 DEF Take, RowsOf
      <3>4. Candidates(q) \subseteq Stream
        BY DEF Candidates, CapInv, TypeOK
      <3>5. Cardinality(Candidates(q)) <= MaxParallel
        BY FewCandidates DEF CapInv
      <3> QED
        BY <3>1, <3>3, <3>4, <3>5, CountSubset
    <2>2. CASE ~ AcquireAll(q) /\ ~ AcquireLost(q)
      <3>1. /\ RowsOf(q)' \subseteq RowsOf(q)
            /\ pc'[q] \in {"new", "read"} => pc[q] \in {"new", "read"}
        BY <1>2, <2>2, RowsOnlyFromAcquire DEF CapInv
      <3>2. RowsOf(q) \subseteq Stream
        BY DEF RowsOf
      <3>3. Cardinality(RowsOf(q)) <= MaxParallel
        BY DEF CapInv
      <3> QED
        BY <3>1, <3>2, <3>3, CountSubset DEF CapInv
    <2> QED
      BY <2>1, <2>2
  <1> QED
    BY <1>1, <1>2

\* One build never holds more live leases than the project's cap, for any
\* number of builds, streams, threads and signals (CHANGELOG.md:986).
THEOREM CapIsRespected == Spec => []CapRespected
  <1> USE LeaseAssumption DEF LeaseAssumption
  <1>1. Init /\ TypeOK => CapInv
    <2> SUFFICES ASSUME Init, TypeOK, NEW r \in Run
                 PROVE  RowsOf(r) = {} /\ Cardinality(RowsOf(r)) <= MaxParallel
      BY DEF CapInv
    <2>1. RowsOf(r) = {}
      BY DEF Init, RowsOf, NoLease
    <2> QED
      BY <2>1, FS_EmptySet
  <1>2. CapInv /\ TypeOK' /\ [Next]_vars => CapInv'
    BY CapStep
  <1>3. CapInv => CapRespected
    <2> SUFFICES ASSUME CapInv, NEW r \in Run
                 PROVE  Cardinality({s \in Stream : lease[s].run = r
                                                      /\ Live(lease[s])})
                          <= MaxParallel
      BY DEF CapRespected
    <2> DEFINE live == {s \in Stream : lease[s].run = r /\ Live(lease[s])}
    <2>1. live \subseteq RowsOf(r) /\ RowsOf(r) \subseteq Stream
      BY DEF RowsOf
    <2>2. Cardinality(RowsOf(r)) <= MaxParallel
      BY DEF CapInv
    <2> HIDE DEF live
    <2>3. Cardinality(live) <= MaxParallel
      BY <2>1, <2>2, CountSubset
    <2> QED
      BY <2>3 DEF live
  <1> QED
    BY <1>1, <1>2, <1>3, LeaseTyping, PTL DEF Spec
-----------------------------------------------------------------------------
\* What a run that ends leaves behind.

\* Until it ends, a run holds every row that carries its id.
RowsHeldInv ==
    /\ TypeOK
    /\ \A r \in Run :
           /\ pc[r] \in {"new", "read"} => RowsOf(r) = {}
           /\ pc[r] \in {"running", "shutdown", "final"} =>
                  RowsOf(r) \subseteq held[r]

\* A run on its way keeps what it holds until it ends.
LEMMA HeldStays ==
    ASSUME TypeOK, Next, NEW q \in Run, ~ AcquireAll(q), ~ AcquireLost(q)
    PROVE  pc'[q] \in {"running", "shutdown", "final"} =>
               /\ pc[q] \in {"running", "shutdown", "final"}
               /\ held'[q] = held[q]
  <1> USE DEF selectionVars, workVars, beatVars
  <1> SUFFICES ASSUME pc'[q] \in {"running", "shutdown", "final"}
               PROVE  /\ pc[q] \in {"running", "shutdown", "final"}
                      /\ held'[q] = held[q]
    OBVIOUS
  <1>1. ASSUME NEW r \in Run, AcquireAll(r) \/ AcquireLost(r)
        PROVE  pc'[q] = pc[q] /\ held'[q] = held[q]
    <2>1. r # q
      BY <1>1
    <2>2. /\ \E v : pc' = [pc EXCEPT ![r] = v]
          /\ held' = held \/ \E v : held' = [held EXCEPT ![r] = v]
      BY <1>1 DEF AcquireAll, AcquireLost
    <2> QED
      BY <2>1, <2>2 DEF TypeOK
  <1>2. ASSUME NEW r \in Run, ReleaseAll(r) \/ ReleaseFails(r) \/ Crash(r)
        PROVE  /\ pc[q] \in {"running", "shutdown", "final"}
               /\ held'[q] = held[q]
    BY <1>2 DEF ReleaseAll, ReleaseFails, Crash, Close, Drained, TypeOK
  <1>3. ASSUME NEW r \in Run,
               \/ \E streams \in Selections : ReadLeases(r, streams)
               \/ ShutDown(r) \/ Interrupt(r)
        PROVE  /\ pc[q] \in {"running", "shutdown", "final"}
               /\ held'[q] = held[q]
    BY <1>3 DEF ReadLeases, ShutDown, Interrupt, TypeOK
  <1>4. ASSUME NEW r \in Run,
               \/ \E t \in Stream : StartStream(r, t)
               \/ \E t \in Stream, status \in {"done", "failed"} :
                      EndStream(r, t, status)
               \/ Batch(r) \/ Pump(r)
        PROVE  pc'[q] = pc[q] /\ held'[q] = held[q]
    BY <1>4 DEF StartStream, EndStream, Batch, Pump
  <1>5. CASE Tick
    BY <1>5 DEF Tick
  <1> QED
    BY <1>1, <1>2, <1>3, <1>4, <1>5 DEF Next, RunStep

LEMMA RowsHeldStep ==
    ASSUME RowsHeldInv, TypeOK', [Next]_vars
    PROVE  RowsHeldInv'
  <1>1. CASE UNCHANGED vars
    BY <1>1 DEF vars, RowsHeldInv, RowsOf
  <1>2. CASE Next
    <2> SUFFICES ASSUME NEW q \in Run
                 PROVE  /\ pc'[q] \in {"new", "read"} => RowsOf(q)' = {}
                        /\ pc'[q] \in {"running", "shutdown", "final"} =>
                               RowsOf(q)' \subseteq held'[q]
      BY DEF RowsHeldInv, RowsOf
    <2>1. CASE AcquireAll(q)
      <3> DEFINE won == {t \in Candidates(q) : Wins(q, t)}
      <3>1. /\ pc[q] = "read" /\ pc'[q] = "running"
            /\ Take(q, won) /\ held'[q] = won
        BY <2>1 DEF AcquireAll, RowsHeldInv, TypeOK
      <3>2. RowsOf(q) = {}
        BY <3>1 DEF RowsHeldInv
      <3> HIDE DEF won
      <3> QED
        BY <3>1, <3>2 DEF Take, RowsOf
    <2>2. CASE AcquireLost(q)
      BY <2>2 DEF AcquireLost, RowsHeldInv, TypeOK
    <2>3. CASE ~ AcquireAll(q) /\ ~ AcquireLost(q)
      BY <1>2, <2>3, RowsOnlyFromAcquire, HeldStays DEF RowsHeldInv
    <2> QED
      BY <2>1, <2>2, <2>3
  <1> QED
    BY <1>1, <1>2

\* A run that ends, other than by losing its acquire or both its releases,
\* leaves no lease behind that blocks the next run (CHANGELOG.md:624).
THEOREM EndedRunsHoldNothing == Spec => EndedRunHoldsNoLease
  <1>1. Init /\ TypeOK => RowsHeldInv
    BY LeaseAssumption DEF LeaseAssumption, Init, RowsHeldInv, RowsOf, NoLease
  <1>2. RowsHeldInv /\ TypeOK' /\ [Next]_vars => RowsHeldInv'
    BY RowsHeldStep
  <1>3. ASSUME RowsHeldInv, Next, NEW r \in Run, pc[r] # "ended",
               pc'[r] = "ended", ~ AcquireLost(r), ~ ReleaseFails(r)
        PROVE  \A s \in Stream : lease'[s].run = r => ~ Live(lease'[s])
    <2>1. ReleaseAll(r)
      <3>1. pc \in [Run -> {"new", "read", "running", "shutdown", "final",
                            "ended", "dead"}]
        BY <1>3 DEF RowsHeldInv, TypeOK
      <3> QED
        BY <1>3, <3>1 DEF Next, RunStep, ReadLeases, AcquireAll, StartStream,
           Batch, Pump, EndStream, ReleaseAll, ShutDown, AcquireLost,
           ReleaseFails, Interrupt, Crash, Tick
    <2>2. RowsOf(r) \subseteq held[r] /\ Update(r, Terminal(r))
      BY <1>3, <2>1 DEF ReleaseAll, Drained, RowsHeldInv
    <2>3. ASSUME NEW s \in Stream, lease'[s].run = r
          PROVE  lease'[s].status \in {"done", "failed"}
      <3>1. s \in held[r] /\ lease[s].run = r
        BY <2>2, <2>3 DEF Update, RowsOf
      <3> QED
        BY <2>2, <3>1 DEF Update, Terminal
    <2> QED
      BY <2>3 DEF Live
  <1>4. RowsHeldInv /\ [Next]_vars =>
          [\A r \in Run : pc[r] # "ended" /\ pc'[r] = "ended" =>
             \/ \A s \in Stream : lease'[s].run = r => ~ Live(lease'[s])
             \/ AcquireLost(r)
             \/ ReleaseFails(r)]_pc
    BY <1>3 DEF vars, Live
  <1> QED
    BY <1>1, <1>2, <1>4, LeaseTyping, PTL DEF Spec, EndedRunHoldsNoLease
-----------------------------------------------------------------------------
(***************************************************************************)
(* SharedStream: its builds follow the lease protocol, so that what is     *)
(* shown of Leases above holds of them, and they never step over a row.    *)
(* The second needs nothing of the leases: at-least-once delivery rests on *)
(* the order of write and commit alone.                                    *)
(*                                                                         *)
(* NothingSkipped speaks of the committed cursor only.  A build will       *)
(* commit its `prior` or what it has observed, so SkipInv says of both     *)
(* what NothingSkipped says of the cursor.                                 *)
(***************************************************************************)


\* The types of the variables this module adds.
LoadType ==
    /\ newest \in Nat
    /\ table \subseteq 1 .. newest
    /\ cursor \in 0 .. newest
    /\ ordered \in BOOLEAN
    /\ prior \in [Run -> (0 .. newest) \cup {NotRead}]
    /\ phase \in [Run -> {"none", "pulling", "written"}]
    /\ sees \in [Run -> 0 .. newest]
    /\ unread \in [Run -> SUBSET (1 .. newest)]
    /\ observed \in [Run -> 0 .. newest]

\* Every row up to c is in the table.
LandedUpTo(c) == \A x \in 1 .. newest : x \in table \/ x > c

\* A run that has looked at the leases has read the state.
ReadInv == \A r \in Run : prior[r] = NotRead => pc[r] = "new"

\* What a run knows of the rows below what it may commit.
RunInv(r) ==
    /\ prior[r] # NotRead => LandedUpTo(prior[r])
    /\ phase[r] # "none" =>
         /\ prior[r] # NotRead
         /\ observed[r] <= sees[r]
         /\ \A x \in 1 .. sees[r] : x \in table \/ x \in unread[r]
         /\ \A x \in unread[r] : x <= sees[r]
         /\ ordered => \A x \in unread[r] : x > observed[r]

SkipInv ==
    /\ LoadType
    /\ ReadInv
    /\ LandedUpTo(cursor)
    /\ \A r \in Run : RunInv(r)
-----------------------------------------------------------------------------
\* Everything that happens to the lease rows is a step of Leases.
LEMMA StepsOfLeases ==
    ASSUME [SharedNext]_sharedVars
    PROVE  [Next]_vars
  <1>1. CASE Arrive
    BY <1>1 DEF Arrive, leaseVars
  <1>2. ASSUME NEW r \in Run, ReadState(r) PROVE UNCHANGED vars
    BY <1>2 DEF ReadState, leaseVars
  <1>3. ASSUME NEW r \in Run, Lease(r) PROVE Next
    BY <1>3 DEF Lease, Next, RunStep
  <1>4. ASSUME NEW r \in Run, BeginStream(r) PROVE Next
    BY <1>4, SharedAssumption DEF BeginStream, SharedAssumption, Next, RunStep
  <1>5. ASSUME NEW r \in Run, NEW batch \in SUBSET unread[r],
               WriteBatch(r, batch)
        PROVE  Next
    BY <1>5 DEF WriteBatch, Next, RunStep
  <1>6. ASSUME NEW r \in Run, FlushState(r) PROVE UNCHANGED vars
    BY <1>6 DEF FlushState, leaseVars
  <1>7. ASSUME NEW r \in Run, FinishStream(r) \/ FailStream(r) PROVE Next
    BY <1>7, SharedAssumption
       DEF FinishStream, FailStream, SharedAssumption, Next, RunStep
  <1>8. ASSUME NEW r \in Run, Stop(r) PROVE Next
    BY <1>8 DEF Stop, Next, RunStep
  <1>9. CASE TimePasses
    BY <1>9 DEF TimePasses, Next
  <1>10. ASSUME NEW value \in 0 .. newest, SetState(value)
         PROVE  UNCHANGED vars
    BY <1>10 DEF SetState, leaseVars
  <1>11. CASE UNCHANGED sharedVars
    BY <1>11 DEF sharedVars, leaseVars
  <1> QED
    BY <1>1, <1>2, <1>3, <1>4, <1>5, <1>6, <1>7, <1>8, <1>9, <1>10, <1>11
       DEF SharedNext

\* The loads follow the lease protocol: whatever is shown above of Spec
\* holds of builds that load a stream and share its state row.
THEOREM LoadsFollowLeases == SharedSpec => FollowsLeases
  <1>1. SharedInit => Init
    BY DEF SharedInit
  <1>2. [SharedNext]_sharedVars => [Next]_vars
    BY StepsOfLeases
  <1> QED
    BY <1>1, <1>2, PTL DEF SharedSpec, FollowsLeases, Spec
-----------------------------------------------------------------------------
\* A run that leaves "new" has read the state.
LEMMA ReadKept ==
    ASSUME SkipInv, TypeOK, [SharedNext]_sharedVars
    PROVE  ReadInv'
  <1> USE SharedAssumption DEF SharedAssumption, ReadInv, SkipInv
  <1>1. CASE Arrive \/ TimePasses \/ UNCHANGED sharedVars
    BY <1>1 DEF Arrive, TimePasses, Tick, sharedVars, leaseVars, vars
  <1>2. ASSUME NEW r \in Run, ReadState(r) PROVE ReadInv'
    BY <1>2 DEF ReadState, LoadType, leaseVars, vars
  <1>3. ASSUME NEW r \in Run, Lease(r) PROVE ReadInv'
    BY <1>3 DEF Lease, ReadLeases, AcquireAll, TypeOK
  <1>4. ASSUME NEW r \in Run, BeginStream(r) \/ FlushState(r) PROVE ReadInv'
    BY <1>4 DEF BeginStream, FlushState, StartStream, leaseVars, vars
  <1>5. ASSUME NEW r \in Run, NEW batch \in SUBSET unread[r],
               WriteBatch(r, batch)
        PROVE  ReadInv'
    BY <1>5 DEF WriteBatch, Batch
  <1>6. ASSUME NEW r \in Run, FinishStream(r) \/ FailStream(r) PROVE ReadInv'
    BY <1>6 DEF FinishStream, FailStream, EndStream
  <1>7. ASSUME NEW r \in Run, Stop(r) PROVE ReadInv'
    <2>1. pc[r] # "new" /\ UNCHANGED prior
      BY <1>7 DEF Stop, AcquireLost, ReleaseAll, ReleaseFails, Drained,
                  Interrupt, Crash
    <2>2. \A q \in Run \ {r} : pc'[q] = pc[q]
      BY <1>7 DEF Stop, AcquireLost, ReleaseAll, ReleaseFails, Interrupt,
                  Crash, TypeOK
    <2> QED
      BY <2>1, <2>2
  <1>8. ASSUME NEW value \in 0 .. newest, SetState(value) PROVE ReadInv'
    BY <1>8 DEF SetState, leaseVars, vars
  <1> QED
    BY <1>1, <1>2, <1>3, <1>4, <1>5, <1>6, <1>7, <1>8 DEF SharedNext

\* What a run commits rests on rows that have landed.
LEMMA CommitLanded ==
    ASSUME SkipInv, NEW r \in Run, phase[r] # "none",
           NEW c \in {FlushCursor(r)}
                     \cup (IF unread[r] = {} THEN {FinalCursor(r)} ELSE {})
    PROVE  c \in 0 .. newest /\ LandedUpTo(c)
  <1> USE SharedAssumption DEF SharedAssumption
  <1>1. /\ prior[r] \in 0 .. newest /\ observed[r] \in 0 .. newest
        /\ sees[r] \in 0 .. newest /\ newest \in Nat
        /\ observed[r] <= sees[r] /\ LandedUpTo(prior[r])
        /\ \A x \in 1 .. sees[r] : x \in table \/ x \in unread[r]
        /\ ordered => \A x \in unread[r] : x > observed[r]
    BY DEF SkipInv, RunInv, LoadType
  <1>2. ordered \/ unread[r] = {} => LandedUpTo(observed[r])
    BY <1>1 DEF LandedUpTo
  <1> QED
    BY <1>1, <1>2 DEF FlushCursor, FinalCursor, FloorCursor, LandedUpTo

\* No step of a build, or of the source, skips a row or prepares to.
LEMMA SkipInvKept ==
    ASSUME SkipInv, TypeOK, [SharedNext]_sharedVars
    PROVE  SkipInv'
  <1> USE SharedAssumption DEF SharedAssumption
  <1>0. ReadInv'
    BY ReadKept
  <1>1. CASE Arrive
    <2>1. /\ newest' = newest + 1 /\ newest \in Nat
          /\ UNCHANGED <<table, cursor, ordered, prior, phase, sees, unread,
                         observed>>
      BY <1>1 DEF Arrive, loadVars, SkipInv, LoadType
    <2>2. LoadType'
      BY <2>1 DEF SkipInv, LoadType
    <2>3. ASSUME NEW c \in 0 .. newest, LandedUpTo(c) PROVE LandedUpTo(c)'
      BY <2>1, <2>3 DEF LandedUpTo
    <2>4. LandedUpTo(cursor)'
      BY <2>1, <2>3 DEF SkipInv, LoadType, LandedUpTo
    <2>5. ASSUME NEW r \in Run PROVE RunInv(r)'
      <3>1. prior'[r] = prior[r]
            /\ (prior[r] # NotRead =>
                  prior[r] \in 0 .. newest /\ LandedUpTo(prior[r]))
        BY <2>1 DEF SkipInv, LoadType, RunInv
      <3>2. prior'[r] # NotRead => LandedUpTo(prior[r])'
        BY <2>1, <3>1 DEF LandedUpTo
      <3> QED
        BY <2>1, <3>2 DEF SkipInv, RunInv
    <2> QED
      BY <1>0, <2>2, <2>4, <2>5 DEF SkipInv
  <1>2. ASSUME NEW r \in Run, ReadState(r) PROVE SkipInv'
    <2>1. /\ prior' = [prior EXCEPT ![r] = cursor] /\ prior[r] = NotRead
          /\ UNCHANGED <<newest, table, cursor, ordered, phase, sees, unread,
                         observed>>
      BY <1>2 DEF ReadState, loadVars
    <2>2. LoadType' /\ LandedUpTo(cursor)'
      BY <2>1 DEF SkipInv, LoadType, LandedUpTo
    <2>3. ASSUME NEW q \in Run PROVE RunInv(q)'
      BY <2>1 DEF SkipInv, LoadType, RunInv, LandedUpTo
    <2> QED
      BY <1>0, <2>2, <2>3 DEF SkipInv
  <1>3. ASSUME NEW r \in Run, BeginStream(r) PROVE SkipInv'
    <2>1. /\ phase' = [phase EXCEPT ![r] = "pulling"]
          /\ sees' = [sees EXCEPT ![r] = newest]
          /\ unread' = [unread EXCEPT ![r] = {x \in 1 .. newest : x > prior[r]}]
          /\ observed' = [observed EXCEPT ![r] = 0]
          /\ UNCHANGED <<newest, table, cursor, ordered, prior>>
          /\ pc[r] # "new"
      BY <1>3 DEF BeginStream, StartStream
    <2>2. prior[r] \in 0 .. newest /\ LandedUpTo(prior[r])
      BY <2>1 DEF SkipInv, ReadInv, RunInv, LoadType
    <2>3. LoadType' /\ LandedUpTo(cursor)'
      BY <2>1 DEF SkipInv, LoadType, LandedUpTo
    <2>4. ASSUME NEW q \in Run PROVE RunInv(q)'
      BY <2>1, <2>2 DEF SkipInv, LoadType, RunInv, LandedUpTo
    <2> QED
      BY <1>0, <2>3, <2>4 DEF SkipInv
  <1>4. ASSUME NEW r \in Run, NEW batch \in SUBSET unread[r],
               WriteBatch(r, batch)
        PROVE  SkipInv'
    <2>1. PICK top \in batch :
            /\ \A x \in batch : x <= top
            /\ observed' = [observed EXCEPT ![r] = IF top > @ THEN top ELSE @]
      BY <1>4 DEF WriteBatch
    <2>2. /\ unread' = [unread EXCEPT ![r] = @ \ batch]
          /\ table' = table \cup batch
          /\ phase[r] = "pulling"
          /\ phase' = [phase EXCEPT ![r] = "written"]
          /\ UNCHANGED <<newest, cursor, ordered, prior, sees>>
          /\ ordered => \A x \in batch, y \in unread[r] \ batch : x < y
      BY <1>4 DEF WriteBatch
    <2>3. top \in unread[r] /\ unread[r] \subseteq 1 .. newest /\ newest \in Nat
          /\ observed[r] \in 0 .. newest
      BY DEF SkipInv, LoadType
    <2>4. LoadType' /\ LandedUpTo(cursor)'
      BY <2>1, <2>2, <2>3 DEF SkipInv, LoadType, LandedUpTo
    <2>5. ASSUME NEW q \in Run, q # r PROVE RunInv(q)'
      BY <2>1, <2>2, <2>5 DEF SkipInv, LoadType, RunInv, LandedUpTo
    <2>6. RunInv(r)'
      <3>1. /\ observed'[r] = IF top > observed[r] THEN top ELSE observed[r]
            /\ unread'[r] = unread[r] \ batch
            /\ phase'[r] = "written"
        BY <2>1, <2>2 DEF SkipInv, LoadType
      <3> QED
        BY <2>2, <2>3, <3>1 DEF SkipInv, LoadType, RunInv, LandedUpTo
    <2> QED
      BY <1>0, <2>4, <2>5, <2>6 DEF SkipInv
  <1>5. ASSUME NEW r \in Run, FlushState(r) PROVE SkipInv'
    <2>1. /\ phase[r] = "written"
          /\ phase' = [phase EXCEPT ![r] = "pulling"]
          /\ cursor' \in {cursor, FlushCursor(r)}
          /\ UNCHANGED <<newest, table, ordered, prior, sees, unread, observed>>
      BY <1>5 DEF FlushState
    <2>2. cursor' \in 0 .. newest /\ LandedUpTo(cursor')
      BY <2>1, CommitLanded DEF SkipInv, LoadType
    <2>3. LoadType' /\ LandedUpTo(cursor)'
      BY <2>1, <2>2 DEF SkipInv, LoadType, LandedUpTo
    <2>4. ASSUME NEW q \in Run PROVE RunInv(q)'
      BY <2>1 DEF SkipInv, LoadType, RunInv, LandedUpTo
    <2> QED
      BY <1>0, <2>3, <2>4 DEF SkipInv
  <1>6. ASSUME NEW r \in Run, FinishStream(r) \/ FailStream(r) \/ Stop(r)
        PROVE  SkipInv'
    <2>1. /\ DropLoad(r)
          /\ UNCHANGED <<newest, table, ordered, prior>>
          /\ \/ UNCHANGED cursor
             \/ cursor' = FinalCursor(r) /\ phase[r] = "pulling"
                /\ unread[r] = {}
      BY <1>6 DEF FinishStream, FailStream, Stop
    <2>2. cursor' \in 0 .. newest /\ LandedUpTo(cursor')
      BY <2>1, CommitLanded DEF SkipInv, LoadType
    <2>3. LoadType' /\ LandedUpTo(cursor)'
      BY <2>1, <2>2 DEF DropLoad, SkipInv, LoadType, LandedUpTo
    <2>4. ASSUME NEW q \in Run PROVE RunInv(q)'
      BY <2>1 DEF DropLoad, SkipInv, LoadType, RunInv, LandedUpTo
    <2> QED
      BY <1>0, <2>3, <2>4 DEF SkipInv
  <1>7. ASSUME UNCHANGED <<newest, table, cursor, ordered, prior, loadVars>>
        PROVE  SkipInv'
    BY <1>0, <1>7 DEF loadVars, SkipInv, LoadType, RunInv, LandedUpTo
  <1>8. ASSUME (\E r \in Run : Lease(r)) \/ TimePasses \/ UNCHANGED sharedVars
        PROVE  UNCHANGED <<newest, table, cursor, ordered, prior, loadVars>>
    BY <1>8 DEF Lease, TimePasses, sharedVars
  <1>9. ASSUME NEW value \in 0 .. newest, SetState(value) PROVE SkipInv'
    <2>1. /\ 1 .. value \subseteq table /\ cursor' = value
          /\ UNCHANGED <<newest, table, ordered, prior, phase, sees, unread,
                         observed>>
      BY <1>9 DEF SetState, loadVars
    <2>2. LandedUpTo(value)
      BY <2>1 DEF SkipInv, LoadType, LandedUpTo
    <2>3. LoadType' /\ LandedUpTo(cursor)'
      BY <2>1, <2>2 DEF SkipInv, LoadType, LandedUpTo
    <2>4. ASSUME NEW q \in Run PROVE RunInv(q)'
      BY <2>1 DEF SkipInv, RunInv, LandedUpTo
    <2> QED
      BY <1>0, <2>3, <2>4 DEF SkipInv
  <1> QED
    BY <1>1, <1>2, <1>3, <1>4, <1>5, <1>6, <1>7, <1>8, <1>9 DEF SharedNext

LEMMA InitSkipInv ==
    ASSUME SharedInit
    PROVE  SkipInv
  BY SharedAssumption
     DEF SharedAssumption, SharedInit, Init, SkipInv, LoadType, ReadInv, RunInv,
         LandedUpTo

THEOREM SkipInvariance == SharedSpec => []SkipInv
  <1>1. SharedInit => SkipInv
    BY InitSkipInv
  <1>2. SkipInv /\ TypeOK /\ [SharedNext]_sharedVars => SkipInv'
    BY SkipInvKept
  <1> QED
    BY <1>1, <1>2, LoadsFollowLeases, LeaseTyping, PTL
       DEF SharedSpec, FollowsLeases

\* The load adds nothing of a wrong type to the types of Leases.
THEOREM SharedTyping == SharedSpec => []SharedTypeOK
  <1>1. SharedInit => newest <= MaxRow
    BY SharedAssumption DEF SharedAssumption, SharedInit
  <1>2. SkipInv /\ newest <= MaxRow /\ [SharedNext]_sharedVars
          => (newest <= MaxRow)'
    BY SharedAssumption
       DEF SharedAssumption, SharedNext, Arrive, ReadState, Lease, BeginStream,
           WriteBatch, FlushState, FinishStream, FailStream, Stop, SetState,
           TimePasses, sharedVars, SkipInv, LoadType
  <1>3. SkipInv /\ newest <= MaxRow /\ TypeOK => SharedTypeOK
    BY SharedAssumption DEF SharedAssumption, SkipInv, LoadType, SharedTypeOK
  <1> QED
    BY <1>1, <1>2, <1>3, SkipInvariance, LoadsFollowLeases, LeaseTyping, PTL
       DEF SharedSpec, FollowsLeases

\* No interleaving of any number of builds, in time or late, makes them step
\* over a row, although each commits what it derived from its own old copy of
\* the state row.
THEOREM SharedNeverSkips == SharedSpec => []NothingSkipped
  <1>1. SkipInv => NothingSkipped
    BY DEF SkipInv, NothingSkipped, LandedUpTo
  <1> QED
    BY <1>1, SkipInvariance, PTL
=============================================================================
