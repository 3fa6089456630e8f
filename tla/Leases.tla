-------------------------------- MODULE Leases --------------------------------
(***************************************************************************)
(* Concurrent runs (builds) of one source, which share a destination that  *)
(* hosts the _dtex_leases table: _LeaseCoordinator and the dispatcher of   *)
(* dtex/engine/runner.py:run with the lease hooks of the destinations.  A  *)
(* run reads the leases, acquires the whole set it may run in one batched  *)
(* compare-and-set, executes its streams one after another or on a pool of *)
(* threads, beats the heart of every lease it holds while it does, and     *)
(* releases them all in one batched call.  It may lose a beat, fail, be    *)
(* interrupted or be killed at any moment.                                 *)
(*                                                                         *)
(* Time is the age of what is compared with a clock: a heartbeat, the      *)
(* coordinator's _last_beat and the last sign of life of the run; the unit *)
(* is whatever Stale, Interval and MaxGap are given in.                    *)
(***************************************************************************)
EXTENDS Integers, FiniteSets

CONSTANTS
    Run,            \* run ids (fresh in every build)
    Stream,         \* the streams of the source, numbered in declared order
    Selections,     \* the sets of streams a run may be asked to run
    Threads,        \* effective_threads
    MaxParallel,    \* the project's `concurrency:` cap for the source
    Stale,          \* LEASE_STALE_SECONDS
    Interval,       \* LEASE_HEARTBEAT_INTERVAL_SECONDS
    MaxGap,         \* bound: time between two batches, or two pump wake-ups
    MaxMissed,      \* bound: heartbeats lost one after another
    Signals,        \* bound: SIGTERMs or Ctrl-Cs that may reach a run
    NoRun

ASSUME LeaseAssumption ==
    /\ Stream \subseteq Nat /\ IsFiniteSet(Stream)
    /\ Selections \subseteq SUBSET Stream
    /\ Threads \in Nat \ {0}
    /\ MaxParallel \in Nat \ {0}
    /\ Stale \in Nat /\ Interval \in Nat /\ MaxGap \in Nat \ {0}
    /\ MaxMissed \in Nat
    /\ Signals \in Nat
    /\ NoRun \notin Run

VARIABLES
    lease,      \* the rows of _dtex_leases, by stream
    pc,         \* where each run is
    wanted,     \* the streams the run was asked for
    seen,       \* _live_by_other: streams leased by others when it looked
    held,       \* _held
    todo,       \* streams leased and not started
    active,     \* streams being executed
    outcome,    \* lease_statuses
    beatAge,    \* time since _last_beat, up to Interval
    gap,        \* time since the run's last batch or wake-up
    missed      \* heartbeats lost since the last one that landed

selectionVars == <<wanted, seen>>
workVars == <<todo, active, outcome>>
beatVars == <<beatAge, missed>>
vars == <<lease, pc, selectionVars, held, workVars, beatVars, gap>>

\* No row for this stream yet.
NoLease == [run |-> NoRun, status |-> "none", age |-> 0]

LeaseRow == {NoLease} \cup [run : Run, status : {"running", "done", "failed"},
                            age : 0 .. Stale + 1]

\* Mutant of Live: the age of the heartbeat is not looked at.
NeverStale(row) == row.status = "running"

\* LeaseRecord.is_live.
Live(row) == row.status = "running" /\ row.age <= Stale

\* Mutant of Candidates: the cap is tested after the stream is added.
CandidatesOffByOne(r) ==
    {s \in wanted[r] \ seen[r] :
        Cardinality({q \in wanted[r] \ seen[r] : q < s}) <= MaxParallel}

\* The first MaxParallel of the streams no other run was seen to lease.
Candidates(r) ==
    {s \in wanted[r] \ seen[r] :
        Cardinality({q \in wanted[r] \ seen[r] : q < s}) < MaxParallel}

\* Mutant of Wins: the destination trusts what the run read earlier.
WinsUnchecked(r, s) == TRUE

\* The compare of acquire_leases: nobody else holds the stream live.
Wins(r, s) == lease[s].run = r \/ ~Live(lease[s])

\* What the dispatcher decides, from the streams it got leases for.
Sequential(r) == Threads = 1 \/ Cardinality(held[r]) <= 1
-----------------------------------------------------------------------------
Init ==
    /\ lease = [s \in Stream |-> NoLease]
    /\ pc = [r \in Run |-> "new"]
    /\ wanted = [r \in Run |-> {}]
    /\ seen = [r \in Run |-> {}]
    /\ held = [r \in Run |-> {}]
    /\ todo = [r \in Run |-> {}]
    /\ active = [r \in Run |-> {}]
    /\ outcome = [r \in Run |-> [s \in Stream |-> "none"]]
    /\ beatAge = [r \in Run |-> 0]
    /\ gap = [r \in Run |-> 0]
    /\ missed = [r \in Run |-> 0]

\* _LeaseCoordinator.__init__: read_leases, and who is live now.
ReadLeases(r, streams) ==
    /\ pc[r] = "new"
    /\ pc' = [pc EXCEPT ![r] = "read"]
    /\ wanted' = [wanted EXCEPT ![r] = streams]
    /\ seen' = [seen EXCEPT ![r] =
                  {s \in Stream : lease[s].run # r /\ Live(lease[s])}]
    /\ UNCHANGED <<lease, held, workVars, beatVars, gap>>

\* acquire_leases writes the row of every candidate it wins.
Take(r, won) ==
    lease' = [s \in Stream |->
                IF s \in won
                THEN [run |-> r, status |-> "running", age |-> 0]
                ELSE lease[s]]

\* The selection and what was seen are not used again.
LookedUp(r) ==
    /\ wanted' = [wanted EXCEPT ![r] = {}]
    /\ seen' = [seen EXCEPT ![r] = {}]

\* acquire_all: one batched compare-and-set over the candidates.
AcquireAll(r) ==
    /\ pc[r] = "read"
    /\ pc' = [pc EXCEPT ![r] = "running"]
    /\ LET won == {s \in Candidates(r) : Wins(r, s)}
       IN  /\ Take(r, won)
           /\ held' = [held EXCEPT ![r] = won]
           /\ todo' = [todo EXCEPT ![r] = won]
    /\ LookedUp(r)
    /\ UNCHANGED <<active, outcome, beatVars, gap>>

\* The statement lands, but the call raises or the run is interrupted before
\* _held is assigned: nobody will release these leases.
AcquireLost(r) ==
    /\ pc[r] = "read"
    /\ pc' = [pc EXCEPT ![r] = "ended"]
    /\ Take(r, {s \in Candidates(r) : Wins(r, s)})
    /\ LookedUp(r)
    /\ UNCHANGED <<held, workVars, beatVars, gap>>

\* The next stream in declared order starts, alone or on a free thread.
StartStream(r, s) ==
    /\ pc[r] \in {"running", "shutdown"}
    /\ s \in todo[r] /\ \A q \in todo[r] : s <= q
    /\ IF Sequential(r) THEN active[r] = {}
                        ELSE Cardinality(active[r]) < Threads
    /\ todo' = [todo EXCEPT ![r] = @ \ {s}]
    /\ active' = [active EXCEPT ![r] = @ \cup {s}]
    /\ UNCHANGED <<lease, pc, selectionVars, held, outcome, beatVars, gap>>

\* Mutant of Update: the UPDATE is not guarded by run_id.
UpdateUnguarded(r, statusOf) ==
    lease' = [s \in Stream |->
                IF s \in held[r]
                THEN [run |-> lease[s].run, status |-> statusOf[s], age |-> 0]
                ELSE lease[s]]

\* _update_leases: one UPDATE of the held rows that still carry our run_id.
Update(r, statusOf) ==
    lease' = [s \in Stream |->
                IF s \in held[r] /\ lease[s].run = r
                THEN [run |-> r, status |-> statusOf[s], age |-> 0]
                ELSE lease[s]]

\* Mutant of Beat: _last_beat is stamped and nothing is written.
BeatSilently(r) ==
    /\ UNCHANGED lease
    /\ beatAge' = [beatAge EXCEPT ![r] = 0]
    /\ UNCHANGED missed

\* beat, under _safe_beat: nothing when it is not due; otherwise _last_beat is
\* stamped first, and an error of the write is swallowed.
Beat(r) ==
    IF held[r] = {} \/ beatAge[r] < Interval
    THEN UNCHANGED <<lease, beatVars>>
    ELSE /\ beatAge' = [beatAge EXCEPT ![r] = 0]
         /\ \/ /\ Update(r, [s \in Stream |-> "running"])
               /\ missed' = [missed EXCEPT ![r] = 0]
            \/ /\ missed[r] < MaxMissed
               /\ missed' = [missed EXCEPT ![r] = @ + 1]
               /\ UNCHANGED lease

\* A batch is pulled or written.  The `heartbeat` callback is there only when
\* effective_threads = 1.
Batch(r) ==
    /\ pc[r] \in {"running", "shutdown"}
    /\ Sequential(r)
    /\ active[r] # {}
    /\ gap' = [gap EXCEPT ![r] = 0]
    /\ IF Threads = 1 THEN Beat(r) ELSE UNCHANGED <<lease, beatVars>>
    /\ UNCHANGED <<pc, selectionVars, held, workVars>>

\* The main thread wakes while the pool works: it beats, and when a stream
\* has failed it cancels those that have not started.
Pump(r) ==
    /\ pc[r] = "running"
    /\ ~Sequential(r)
    /\ todo[r] \cup active[r] # {}
    /\ gap' = [gap EXCEPT ![r] = 0]
    /\ Beat(r)
    /\ todo' = [todo EXCEPT ![r] =
                  IF \E s \in Stream : outcome[r][s] = "failed" THEN {} ELSE @]
    /\ UNCHANGED <<pc, selectionVars, held, active, outcome>>

\* A stream ends; the first failure of a sequential run is its last stream.
EndStream(r, s, status) ==
    /\ s \in active[r]
    /\ active' = [active EXCEPT ![r] = @ \ {s}]
    /\ outcome' = IF pc[r] = "ended" THEN outcome
                  ELSE [outcome EXCEPT ![r][s] = status]
    /\ todo' = [todo EXCEPT ![r] =
                  IF status = "failed" /\ Sequential(r) THEN {} ELSE @]
    /\ UNCHANGED <<lease, pc, selectionVars, held, beatVars, gap>>

\* Mutant of Terminal: a stream that recorded no status stays "running".
TerminalUnlessUnknown(r) ==
    [s \in Stream |-> IF outcome[r][s] = "none" THEN "running"
                                                ELSE outcome[r][s]]

\* release_all: a stream without a recorded status is released as failed.
Terminal(r) ==
    [s \in Stream |-> IF outcome[r][s] = "done" THEN "done" ELSE "failed"]

\* Mutant of Drained: a run with a failed stream never gets there.
DrainedWhenDone(r) ==
    \/ /\ pc[r] = "running" /\ todo[r] = {} /\ active[r] = {}
       /\ \A s \in held[r] : outcome[r][s] = "done"
    \/ pc[r] = "final"

\* May the run call release_all now?
Drained(r) ==
    \/ pc[r] = "running" /\ todo[r] = {} /\ active[r] = {}
    \/ pc[r] = "final"

\* The coordinator and the locals of `run` are gone.
Close(r) ==
    /\ held' = [held EXCEPT ![r] = {}]
    /\ outcome' = [outcome EXCEPT ![r] = [s \in Stream |-> "none"]]
    /\ beatAge' = [beatAge EXCEPT ![r] = 0]
    /\ gap' = [gap EXCEPT ![r] = 0]
    /\ missed' = [missed EXCEPT ![r] = 0]

\* release_all, in line or in the `finally`; then the run is over.
ReleaseAll(r) ==
    /\ Drained(r)
    /\ Update(r, Terminal(r))
    /\ pc' = [pc EXCEPT ![r] = "ended"]
    /\ Close(r)
    /\ UNCHANGED <<selectionVars, todo, active>>

\* The release raises; _safe_release_all swallows it.  The `finally` tries
\* once more.
ReleaseFails(r) ==
    /\ Drained(r) /\ held[r] # {}
    /\ IF pc[r] = "running"
       THEN /\ pc' = [pc EXCEPT ![r] = "final"]
            /\ UNCHANGED <<held, outcome, beatVars, gap>>
       ELSE /\ pc' = [pc EXCEPT ![r] = "ended"]
            /\ Close(r)
    /\ UNCHANGED <<lease, selectionVars, todo, active>>

\* SIGTERM or Ctrl-C in the main thread.  A sequential run unwinds at once;
\* the `with` block of the pool first waits for every stream submitted, and
\* nothing beats meanwhile.  A second signal ends that wait.
Interrupt(r) ==
    /\ \/ pc[r] = "running" /\ Signals > 0
       \/ pc[r] = "shutdown" /\ Signals > 1
    /\ IF Sequential(r)
       THEN /\ pc' = [pc EXCEPT ![r] = "final"]
            /\ todo' = [todo EXCEPT ![r] = {}]
            /\ active' = [active EXCEPT ![r] = {}]
       ELSE /\ pc' = [pc EXCEPT ![r] = IF pc[r] = "running" THEN "shutdown"
                                                           ELSE "final"]
            /\ UNCHANGED <<todo, active>>
    /\ UNCHANGED <<lease, selectionVars, held, outcome, beatVars, gap>>

\* The pool has shut down; the run reaches its `finally`.
ShutDown(r) ==
    /\ pc[r] = "shutdown" /\ todo[r] = {} /\ active[r] = {}
    /\ pc' = [pc EXCEPT ![r] = "final"]
    /\ UNCHANGED <<lease, selectionVars, held, workVars, beatVars, gap>>

\* The process is killed.
Crash(r) ==
    /\ pc[r] \in {"read", "running", "shutdown", "final"}
    /\ pc' = [pc EXCEPT ![r] = "dead"]
    /\ todo' = [todo EXCEPT ![r] = {}]
    /\ active' = [active EXCEPT ![r] = {}]
    /\ LookedUp(r)
    /\ Close(r)
    /\ UNCHANGED lease

\* Time passes; a run that works is never silent for more than MaxGap.
Tick ==
    /\ \A r \in Run : pc[r] = "running" => gap[r] < MaxGap
    /\ lease' = [s \in Stream |->
                   IF lease[s].status = "running" /\ lease[s].age <= Stale
                   THEN [lease[s] EXCEPT !.age = @ + 1] ELSE lease[s]]
    /\ beatAge' = [r \in Run |->
                     IF pc[r] = "running" /\ beatAge[r] < Interval
                     THEN beatAge[r] + 1 ELSE beatAge[r]]
    /\ gap' = [r \in Run |-> IF pc[r] = "running" THEN gap[r] + 1 ELSE gap[r]]
    /\ UNCHANGED <<pc, selectionVars, held, workVars, missed>>

RunStep(r) ==
    \/ \E streams \in Selections : ReadLeases(r, streams)
    \/ AcquireAll(r)
    \/ \E s \in Stream : StartStream(r, s)
    \/ Batch(r)
    \/ Pump(r)
    \/ \E s \in Stream, status \in {"done", "failed"} : EndStream(r, s, status)
    \/ ReleaseAll(r)
    \/ ShutDown(r)

Next ==
    \/ \E r \in Run : \/ RunStep(r)
                      \/ AcquireLost(r)
                      \/ ReleaseFails(r)
                      \/ Interrupt(r)
                      \/ Crash(r)
    \/ Tick

Spec == Init /\ [][Next]_vars

\* A run goes on, each stream ends, and time passes.
FairSpec ==
    /\ Spec
    /\ WF_vars(Tick)
    /\ \A r \in Run :
         /\ WF_vars(AcquireAll(r)) /\ WF_vars(Batch(r)) /\ WF_vars(Pump(r))
         /\ WF_vars(\E s \in Stream : StartStream(r, s))
         /\ \A s \in Stream :
                WF_vars(\E status \in {"done", "failed"} :
                            EndStream(r, s, status))
         /\ WF_vars(ReleaseAll(r)) /\ WF_vars(ShutDown(r))
-----------------------------------------------------------------------------
TypeOK ==
    /\ lease \in [Stream -> LeaseRow]
    /\ pc \in [Run -> {"new", "read", "running", "shutdown", "final", "ended",
                       "dead"}]
    /\ wanted \in [Run -> SUBSET Stream]
    /\ seen \in [Run -> SUBSET Stream]
    /\ held \in [Run -> SUBSET Stream]
    /\ todo \in [Run -> SUBSET Stream]
    /\ active \in [Run -> SUBSET Stream]
    /\ outcome \in [Run -> [Stream -> {"none", "done", "failed"}]]
    /\ beatAge \in [Run -> 0 .. Interval]
    /\ gap \in [Run -> 0 .. MaxGap]
    /\ missed \in [Run -> 0 .. MaxMissed]

\* No stream is executed by two runs at once: "leasing itself is the
\* correctness floor - a stream never double-runs" (CHANGELOG.md:987).
NoDoubleRun ==
    \A r, q \in Run : r # q => active[r] \cap active[q] = {}

\* The pump keeps the leases of a pool alive, so that two pools execute one
\* stream only while one of them, interrupted, waits for its streams without
\* beating (one signal, and streams enough for every run to use its pool).
OverlapOnlyInShutdown ==
    \A r, q \in Run : r # q /\ active[r] \cap active[q] # {} =>
        "shutdown" \in {pc[r], pc[q]}

\* A run that gives signs of life in time is never taken for dead
\* (types.py:1919: "a healthy but slow stream ... is never mistaken for dead").
WorkingLeaseIsLive ==
    \A r \in Run : pc[r] = "running" =>
        \A s \in active[r] : lease[s].run = r /\ Live(lease[s])

\* One build leases at most MaxParallel streams (CHANGELOG.md:986).
CapRespected ==
    \A r \in Run :
        Cardinality({s \in Stream : lease[s].run = r /\ Live(lease[s])})
            <= MaxParallel

\* A live lease is not taken over or ended by another run, however late that
\* run's acquire, heartbeat or release arrives (the compare of acquire_leases,
\* the run_id guard of _update_leases), and its own run ends it only when it
\* no longer executes the stream.
LiveLeaseKeepsOwner ==
    [][\A s \in Stream : Live(lease[s]) =>
         /\ lease'[s].run = lease[s].run
         /\ lease'[s].status \in {"done", "failed"} =>
                /\ s \notin active'[lease[s].run]
                /\ pc'[lease[s].run] = "ended"]_lease

\* A run that has ended, other than by losing its acquire or both its
\* releases, leaves no lease behind that blocks the next run
\* (CHANGELOG.md:624: "A killed run no longer leaves a live stream lease").
EndedRunHoldsNoLease ==
    [][\A r \in Run : pc[r] # "ended" /\ pc'[r] = "ended" =>
         \/ \A s \in Stream : lease'[s].run = r => ~Live(lease'[s])
         \/ AcquireLost(r)
         \/ ReleaseFails(r)]_pc

\* CHANGELOG.md:985: "a dead build never blocks a stream forever".
DeadLeaseExpires ==
    \A r \in Run, s \in Stream :
        pc[r] \in {"dead", "ended"} /\ lease[s].run = r
            ~> lease[s].run # r \/ ~Live(lease[s])

\* Every run that acquired its leases ends, and executes nothing after.
RunEnds ==
    \A r \in Run : pc[r] = "running"
        ~> pc[r] \in {"ended", "dead"} /\ active[r] = {}
=============================================================================
