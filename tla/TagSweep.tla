------------------------------ MODULE TagSweep ------------------------------
(* run_tag: every pipeline whose tags match is run once, one after the other  *)
(* (threads = 1) or by a pool of threads, where a semaphore per destination   *)
(* keeps the number of pipelines that write to it under the cap its           *)
(* max_concurrent_writes hook gives.  A pipeline's run is the life cycle of   *)
(* run(): plan, open the destination, load, write the run record, close.      *)
(* What happens inside a load is StreamLoad's, what happens to the leases is  *)
(* Leases'.                                                                   *)
EXTENDS Naturals, FiniteSets

CONSTANTS
    N,           \* the number of matching pipelines: 1..N, in the order of their names
    Dests,       \* destination names
    DestOf,      \* the destination a pipeline names
    OwnCap,      \* what max_concurrent_writes says when it is asked for this pipeline
    Fragile,     \* the pipelines whose configuration may be one that does not resolve
    MaxThreads,  \* the largest threads: budget
    MaxFaults,   \* bound: failures of a destination or of a source
    MaxSignals   \* bound: SIGINT and SIGTERM received

Pipelines == 1..N
Unlimited == N    \* sys.maxsize: no pipeline ever waits for such a semaphore

ASSUME TagSweepAssumption ==
    /\ N \in Nat \ {0} /\ MaxThreads \in Nat \ {0}
    /\ MaxFaults \in Nat /\ MaxSignals \in Nat
    /\ DestOf \in [Pipelines -> Dests]
    /\ OwnCap \in [Pipelines -> Nat \ {0}]
    /\ Fragile \subseteq Pipelines

VARIABLES
    threads,   \* effective_threads
    broken,    \* the pipelines whose configuration does not resolve
    phase,     \* how far a pipeline's run is
    free,      \* the permits left in a destination's semaphore
    conn,      \* the pipelines whose destination connection is open
    outcome,   \* final_result of a run, or "aborted" (aborted_by)
    record,    \* the run record a run left in its destination
    answer,    \* results_by_name: what the sweep says of a pipeline
    sweep,     \* the call of run_tag
    cut,       \* the runs a signal stopped inside their finally block
    faults, signals

life == <<phase, free, conn, outcome, record, answer>>
sweepVars == <<threads, broken, life, sweep, cut, faults, signals>>

Phases == {"queued", "waiting", "planning", "opening", "loading",
           "recording", "closing", "printing", "done"}
Interruptible == {"planning", "opening", "loading"}   \* inside run()'s try
Ending  == {"recording", "closing"}                   \* inside run()'s finally
Holding == Interruptible \cup Ending \cup {"printing"}
InPool  == Holding \cup {"waiting"}

Parallel == threads > 1 /\ N > 1
In(phases) == {p \in Pipelines : phase[p] \in phases}
WritersTo(d) == {p \in conn : DestOf[p] = d}
Holders(d) == {p \in In(Holding) : DestOf[p] = d}

(* The cap of a destination is asked once, for the first pipeline that names  *)
(* it; when that pipeline does not resolve, there is no cap at all.           *)
Representative(d) ==
    CHOOSE p \in Pipelines : DestOf[p] = d /\ \A q \in Pipelines : DestOf[q] = d => p <= q
Cap(d) ==
    IF \E p \in Pipelines : DestOf[p] = d
    THEN IF Representative(d) \in broken THEN Unlimited ELSE OwnCap[Representative(d)]
    ELSE Unlimited

SweepInit ==
    /\ threads \in 1..MaxThreads
    /\ broken \in SUBSET Fragile
    /\ phase = [p \in Pipelines |-> "queued"]
    /\ free = [d \in Dests |-> Cap(d)]
    /\ conn = {}
    /\ outcome = [p \in Pipelines |-> "none"]
    /\ record = [p \in Pipelines |-> "none"]
    /\ answer = [p \in Pipelines |-> "none"]
    /\ sweep = "running"
    /\ cut = {}
    /\ faults = 0 /\ signals = 0

-----------------------------------------------------------------------------
Alive == sweep \in {"running", "raising"}
Fixed == UNCHANGED <<threads, broken, signals>>
Fault == faults < MaxFaults /\ faults' = faults + 1
Enter(p, ph) == phase' = [phase EXCEPT ![p] = ph]
NextQueued(p) == phase[p] = "queued" /\ \A q \in Pipelines : q < p => phase[q] # "queued"

(* The sequential sweep: a plain loop in the caller's thread.                 *)
Start(p) ==
    /\ ~Parallel /\ sweep = "running"
    /\ NextQueued(p) /\ In(InPool) = {}
    /\ Enter(p, "planning")
    /\ UNCHANGED <<free, conn, outcome, record, answer, sweep, cut, faults>> /\ Fixed

(* The pool takes the pipelines in the order of their submission; the thread  *)
(* that took one then waits for its destination's semaphore.                  *)
Take(p) ==
    /\ Parallel /\ Alive
    /\ NextQueued(p) /\ Cardinality(In(InPool)) < threads
    /\ Enter(p, "waiting")
    /\ UNCHANGED <<free, conn, outcome, record, answer, sweep, cut, faults>> /\ Fixed

Acquire(p) ==
    /\ Alive /\ phase[p] = "waiting"
    /\ free[DestOf[p]] > 0
    /\ free' = [free EXCEPT ![DestOf[p]] = @ - 1]
    /\ Enter(p, "planning")
    /\ UNCHANGED <<conn, outcome, record, answer, sweep, cut, faults>> /\ Fixed

\* Mutant of Plan: what does not resolve is nothing to do.
PlanSkips(p) ==
    /\ Alive /\ phase[p] = "planning"
    /\ IF p \in broken
       THEN Enter(p, "recording") /\ outcome' = [outcome EXCEPT ![p] = "succeeded"]
       ELSE Enter(p, "opening") /\ UNCHANGED outcome
    /\ UNCHANGED <<free, conn, record, answer, sweep, cut, faults>> /\ Fixed

(* run() up to the destination's open hook: the project, the config, its      *)
(* target, source and destination, the streams in scope.                      *)
Plan(p) ==
    /\ Alive /\ phase[p] = "planning"
    /\ IF p \in broken
       THEN Enter(p, "recording") /\ outcome' = [outcome EXCEPT ![p] = "failed"]
       ELSE Enter(p, "opening") /\ UNCHANGED outcome
    /\ UNCHANGED <<free, conn, record, answer, sweep, cut, faults>> /\ Fixed

\* Mutant of Open: a failed open gives the permit back, and Release does again.
OpenReleases(p) ==
    /\ Alive /\ phase[p] = "opening"
    /\ \/ /\ conn' = conn \cup {p}
          /\ Enter(p, "loading")
          /\ UNCHANGED <<outcome, faults, free>>
       \/ /\ Fault
          /\ Enter(p, "recording")
          /\ outcome' = [outcome EXCEPT ![p] = "failed"]
          /\ free' = [free EXCEPT ![DestOf[p]] = @ + 1]
          /\ UNCHANGED conn
    /\ UNCHANGED <<record, answer, sweep, cut>> /\ Fixed

Open(p) ==
    /\ Alive /\ phase[p] = "opening"
    /\ \/ /\ conn' = conn \cup {p}
          /\ Enter(p, "loading")
          /\ UNCHANGED <<outcome, faults>>
       \/ /\ Fault
          /\ Enter(p, "recording")
          /\ outcome' = [outcome EXCEPT ![p] = "failed"]
          /\ UNCHANGED conn
    /\ UNCHANGED <<free, record, answer, sweep, cut>> /\ Fixed

\* Mutant of Load: a failed load is tried again from the start.
LoadRetries(p) ==
    /\ Alive /\ phase[p] = "loading"
    /\ \/ /\ Enter(p, "recording")
          /\ outcome' = [outcome EXCEPT ![p] = "succeeded"]
       \/ Enter(p, "opening") /\ UNCHANGED outcome
    /\ UNCHANGED <<free, conn, record, answer, sweep, cut, faults>> /\ Fixed

Load(p) ==
    /\ Alive /\ phase[p] = "loading"
    /\ Enter(p, "recording")
    /\ \/ outcome' = [outcome EXCEPT ![p] = "succeeded"] /\ UNCHANGED faults
       \/ outcome' = [outcome EXCEPT ![p] = "failed"] /\ Fault
    /\ UNCHANGED <<free, conn, record, answer, sweep, cut>> /\ Fixed

(* The status a run record carries: a run that was interrupted has FAILED.    *)
RecordOf(o) == IF o = "succeeded" THEN "succeeded" ELSE "failed"

(* The run record is written while the connection is open; a failure to write *)
(* it is logged and changes nothing else.  A run that never opened its        *)
(* destination leaves none.                                                   *)
Record(p) ==
    /\ Alive /\ phase[p] = "recording"
    /\ Enter(p, "closing")
    /\ \/ /\ p \in conn
          /\ record' = [record EXCEPT ![p] = RecordOf(outcome[p])] /\ UNCHANGED faults
       \/ p \in conn /\ record' = [record EXCEPT ![p] = "lost"] /\ Fault
       \/ p \notin conn /\ UNCHANGED <<record, faults>>
    /\ UNCHANGED <<free, conn, outcome, answer, sweep, cut>> /\ Fixed

(* The connection is closed last.  An aborted run re-raises what aborted it.  *)
Closed(p) ==
    /\ conn' = conn \ {p}
    /\ UNCHANGED faults
    /\ IF outcome[p] = "aborted"
       THEN sweep' = "raised" /\ UNCHANGED answer
       ELSE answer' = [answer EXCEPT ![p] = outcome[p]] /\ UNCHANGED sweep

\* Mutant of CloseFails: _execute and the collecting loop catch nothing.
CloseFailsTheSweep(p) ==
    /\ p \in conn /\ Fault
    /\ conn' = conn \ {p}
    /\ sweep' = "raised" /\ UNCHANGED answer

(* A close hook that raises makes run() raise: the pool's thread answers      *)
(* "failed" for it, the sequential loop has nothing that catches it.          *)
CloseFails(p) ==
    /\ p \in conn /\ Fault
    /\ conn' = conn \ {p}
    /\ IF Parallel
       THEN answer' = [answer EXCEPT ![p] = "failed"] /\ UNCHANGED sweep
       ELSE sweep' = "raised" /\ UNCHANGED answer

Close(p) ==
    /\ Alive /\ phase[p] = "closing"
    /\ Enter(p, IF Parallel THEN "printing" ELSE "done")
    /\ Closed(p) \/ CloseFails(p)
    /\ UNCHANGED <<free, outcome, record, cut>> /\ Fixed

(* The pool's thread prints the run's buffered log in one piece, and only     *)
(* then lets another pipeline of the destination in.                          *)
Release(p) ==
    /\ Alive /\ phase[p] = "printing"
    /\ Enter(p, "done")
    /\ free' = [free EXCEPT ![DestOf[p]] = @ + 1]
    /\ UNCHANGED <<conn, outcome, record, answer, sweep, cut, faults>> /\ Fixed

Return ==
    /\ Alive /\ In({"done"}) = Pipelines
    /\ sweep' = IF sweep = "running" THEN "returned" ELSE "raised"
    /\ UNCHANGED <<life, cut, faults>> /\ Fixed

-----------------------------------------------------------------------------
(* SIGINT and SIGTERM both unwind a sequential run: its finally block writes  *)
(* a FAILED record and closes.  Between two runs, and from the moment the     *)
(* finally block has put the handler back, SIGTERM ends the process, and      *)
(* SIGINT leaves the rest of the finally block undone.  The runs of a pool    *)
(* have no handler: SIGTERM ends the process, and SIGINT is raised in the     *)
(* thread that waits for them, which first waits for every pipeline, queued   *)
(* ones included.                                                             *)
Abort(p) ==
    /\ ~Parallel /\ phase[p] \in Interruptible
    /\ Enter(p, "recording")
    /\ outcome' = [outcome EXCEPT ![p] = "aborted"]
    /\ UNCHANGED <<free, conn, record, answer, sweep, cut>>

Terminated ==
    /\ Parallel \/ In(Interruptible) = {}
    /\ sweep' = "killed"
    /\ UNCHANGED <<life, cut>>

KeyboardInterrupt ==
    /\ Parallel \/ In(Interruptible) = {}
    /\ sweep = "running"
    /\ sweep' = IF Parallel THEN "raising" ELSE "raised"
    /\ cut' = IF Parallel THEN cut ELSE cut \cup In(Ending)
    /\ UNCHANGED life

Signal ==
    /\ Alive /\ signals < MaxSignals
    /\ signals' = signals + 1
    /\ (\E p \in Pipelines : Abort(p)) \/ Terminated \/ KeyboardInterrupt
    /\ UNCHANGED <<threads, broken, faults>>

(* What dtex run --tag exits with once run_tag has returned.                  *)
ExitCode == IF \E p \in Pipelines : answer[p] # "succeeded" THEN 1 ELSE 0

Over == ~Alive /\ UNCHANGED sweepVars

Step(p) == \/ Start(p) \/ Take(p) \/ Acquire(p) \/ Plan(p) \/ Open(p)
           \/ Load(p) \/ Record(p) \/ Close(p) \/ Release(p)

SweepNext == (\E p \in Pipelines : Step(p)) \/ Return \/ Signal \/ Over

(* Every thread goes on: a run ends (the sources' requests all have time-outs *)
(* and retry budgets), and a permit somebody gives back is taken.             *)
Fairness == (\A p \in Pipelines : WF_sweepVars(Step(p))) /\ WF_sweepVars(Return)
SweepSpec == SweepInit /\ [][SweepNext]_sweepVars /\ Fairness

-----------------------------------------------------------------------------
Outcomes == {"none", "succeeded", "failed", "aborted"}

(* The values of the variables.                                               *)
SweepTypeOK ==
    /\ threads \in 1..MaxThreads
    /\ broken \subseteq Fragile
    /\ phase \in [Pipelines -> Phases]
    /\ free \in [Dests -> Nat]
    /\ conn \subseteq Pipelines
    /\ outcome \in [Pipelines -> Outcomes]
    /\ record \in [Pipelines -> {"none", "succeeded", "failed", "lost"}]
    /\ answer \in [Pipelines -> {"none", "succeeded", "failed"}]
    /\ sweep \in {"running", "raising", "returned", "raised", "killed"}
    /\ cut \subseteq Pipelines
    /\ faults \in 0..MaxFaults /\ signals \in 0..MaxSignals

(* A destination never has more connections open than the pool has threads,   *)
(* nor than its cap (runner.py:1909-1914: min(threads, cap)): the permit is   *)
(* there before the connection, and is given back after it is closed.         *)
CapsHold ==
    \A d \in Dests : /\ Cardinality(WritersTo(d)) <= threads
                     /\ Parallel => Cardinality(WritersTo(d)) <= Cap(d)

(* A pipeline is never said to have succeeded by the sweep when the run       *)
(* record its destination keeps says that it failed, nor when it has none     *)
(* (runner.py:2615-2640), whatever raises in between; and dtex run --tag      *)
(* exits 0 only when no record of the sweep says FAILED.                      *)
AnswersMatchRecords ==
    /\ \A p \in Pipelines :
           answer[p] = "succeeded" => record[p] \in {"succeeded", "lost"}
    /\ sweep = "returned" /\ ExitCode = 0 => \A p \in Pipelines : record[p] # "failed"

(* Continue on failure (runner.py:1626): nothing a source or a destination    *)
(* does ends the sweep before every pipeline has its answer: only a signal,   *)
(* or a close hook that raises in the sequential loop.                        *)
OnlySignalsStopTheSweep ==
    /\ sweep = "killed" => signals > 0
    /\ sweep = "raised" =>
           \/ signals > 0
           \/ ~Parallel /\ faults > 0 /\ \E p \in Pipelines :
                  phase[p] = "done" /\ record[p] # "none" /\ answer[p] = "none"
    /\ sweep = "returned" \/ (sweep = "raised" /\ Parallel) =>
           \A p \in Pipelines : answer[p] # "none"

(* However a sweep ends short of its process being killed, no connection is   *)
(* left open but that of a run whose finally block a second signal cut.       *)
NothingLeftOpen == sweep \in {"returned", "raised"} => conn \subseteq cut

(* A connection is closed only after the run has left its record, or failed   *)
(* to (runner.py:2632-2660): no run that reached its destination goes         *)
(* unrecorded, an interrupted one included.                                   *)
RecordedBeforeClosed == [][\A p \in conn \ conn' : record[p] # "none"]_sweepVars

(* A sweep ends: the threads that wait for a full destination always leave    *)
(* one to the pipeline that will free it.                                     *)
SweepEnds == <>(~Alive)
=============================================================================
