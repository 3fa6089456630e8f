------------------------------- MODULE Extract -------------------------------
(***************************************************************************)
(* How the connectors walk what they load: the windows each plans from its *)
(* cursor, the parts (accounts, agencies, folders, lists) it goes through, *)
(* when a batch is yielded, and at which moment the cursor is told of what *)
(* has been read.  The engine may write and flush whenever a generator     *)
(* stands at a yield (module StreamLoad has its side in detail), a run may *)
(* be killed anywhere, and the service goes on changing.                   *)
(*                                                                         *)
(* A tick is what the stream counts in: days for windows of dates, seconds *)
(* for Intercom, Stripe and files.  Requests are those of module Fetch: a  *)
(* unit of the plan is fetched whole, or the run fails.                    *)
(***************************************************************************)
EXTENDS Integers, FiniteSets, Sequences, FiniteSetsExt

CONSTANTS
    Rows,           \* rows the service may have
    Broken,         \* those that lack a field the connector asks for
    Parts,          \* accounts, agencies, customers, lists, channels
    PartOf,         \* the part each row belongs to at first
    Horizon,        \* bound: the last tick
    Lookback,       \* lookback_days, or incremental.lookback
    Lag,            \* how long after its tick a row may still change
    Span,           \* window_days, window_chunk_days, step_days
    Cap,            \* max_conversations_per_run, max_flows_per_run, ...
    Streams,        \* the streams looked at
    MaxChanges,     \* bound: changes at the service
    MaxKills        \* bound: runs that do not end

ASSUME ExtractAssumption ==
    /\ IsFiniteSet(Rows) /\ Broken \subseteq Rows
    /\ IsFiniteSet(Parts) /\ Parts \subseteq Nat \ {0} /\ Parts # {}
    /\ PartOf \in [Rows -> Parts]
    /\ Horizon \in Nat /\ Lag \in Nat /\ Lookback \in Nat /\ Lag <= Lookback
    /\ "profiles" \in Streams => Lookback > 0
    /\ Span \in Nat \ {0} /\ Cap \in Nat \ {0}
    /\ MaxChanges \in Nat /\ MaxKills \in Nat

VARIABLES
    stream,     \* fixed for a behaviour
    today,      \* the service's clock, and the run's
    tick,       \* the tick each row is filed under; 0: there is no such row
    part,       \* the part it belongs to
    version,    \* how often it was written
    changes,    \* the budget used so far (MaxChanges)
    saved,      \* the persisted cursor; 0: none
    landed,     \* the version of each row in the table; 0: not there
    kills,      \* the budget used so far (MaxKills)
    pc,         \* where the run is
    ranOn,      \* the tick it began
    steady,     \* nothing has changed since, and it was not killed
    plan,       \* units still to be fetched
    unread,     \* rows fetched and not gone through yet
    held,       \* rows in the connector's batch
    walked,     \* conversations, or parents, counted against the cap
    noted,      \* the maximum, or the window end, the connector keeps itself
    observed,   \* Cursor.observed_max; 0: nothing observed
    due,        \* what it observes once it is resumed
    atYield,    \* the generator stands at a yield
    given,      \* rows yielded and not written
    shown       \* something was yielded, if only an empty batch

serviceVars == <<today, tick, part, version, changes>>
tableVars == <<saved, landed>>
walkVars == <<plan, unread, held, walked, noted>>
yieldVars == <<observed, due, atYield, given, shown>>
vars == <<stream, serviceVars, tableVars, kills, pc, ranOn, steady, walkVars,
          yieldVars>>

Larger(a, b) == IF a >= b THEN a ELSE b
Smaller(a, b) == IF a <= b THEN a ELSE b

Cursored == {"chargebacks", "konnektive", "summary", "search",
             "conversation_parts", "insights", "singular", "gaql", "stripe",
             "sigma", "shiphero", "events", "profiles", "files", "drive",
             "items"}

Snapshots == {"alerts", "companies", "intercom_list", "klaviyo_list",
              "campaigns", "flow_messages", "memberships", "klaviyo_report",
              "tabs"}

\* write_disposition: merge; the other snapshots replace their table.
Merged == {"alerts", "companies"}

ASSUME StreamsAssumption == Streams \subseteq Cursored \cup Snapshots

\* incremental.ordered: a flush during the walk persists what was observed.
Ordered == {"konnektive", "search", "conversation_parts", "profiles", "drive"}

\* The cursor is the time of the last change; else the tick of a row is fixed.
ByUpdate == {"chargebacks", "konnektive", "search", "conversation_parts",
             "profiles", "files", "drive", "items"}

\* Connectors that return to ticks they have been to.
LookingBack == Cursored \ {"files", "drive", "items"}

\* The engine subtracts the lookback (incremental.lookback) before it hands
\* the cursor over; the others do so themselves (lookback_days).
EngineLooksBack == {"search", "conversation_parts", "stripe", "sigma",
                    "events", "profiles"}

\* Cursor.start_value; 0 where the manifest declares no initial value.
StartValue ==
    CASE saved = 0 -> 0
      [] saved # 0 /\ stream \in EngineLooksBack -> saved - Lookback
      [] OTHER -> saved
-----------------------------------------------------------------------------
(* What each connector plans: a sequence of units, each some parts over a  *)
(* range of ticks.  `closes` is set on the last unit of a window that has  *)
(* several.                                                                *)
Unit(parts, first, last, closes) ==
    [parts |-> parts, first |-> first, last |-> last, closes |-> closes]

\* The spans of at most Span ticks from first to last, without gap or overlap.
Spans(first, last) ==
    [i \in 1 .. (last - first + Span) \div Span |->
        [first |-> first + (i - 1) * Span,
         last |-> Smaller(first + i * Span - 1, last)]]

Windows(first, last) ==
    LET s == Spans(first, last)
    IN [i \in DOMAIN s |-> Unit(Parts, s[i].first, s[i].last, 0)]

\* The parts in the order they are listed.
Nth(i) == CHOOSE p \in Parts : Cardinality({q \in Parts : q <= p}) = i

\* Everything, or (cursor - lookback_days) to today.
ChargebacksPlan(now) ==
    IF StartValue = 0 THEN <<Unit(Parts, 0, Horizon, 0)>>
    ELSE Windows(Smaller(StartValue - Lookback, now), now)

KonnektiveFirstDay == IF StartValue = 0 THEN 1 ELSE StartValue - Lookback

KonnektivePlan(now) == Windows(Smaller(KonnektiveFirstDay, now), now)

\* One request a day.
SummaryPlan(now) ==
    LET first == Smaller(KonnektiveFirstDay, now)
    IN [i \in 1 .. now - first + 1 |->
            Unit(Parts, first + i - 1, first + i - 1, 0)]

\* Strictly between a - 1 and b + 1, as the search has no >= and <=.
IntercomPlan(now) == Windows(StartValue, now)

\* Windows outside, accounts inside.
MetaPlan(now) ==
    LET s == Spans(IF StartValue = 0 THEN 1
                   ELSE Larger(StartValue - Lookback, 1), now)
        n == Cardinality(Parts)
    IN [i \in 1 .. n * Len(s) |->
            LET w == s[(i - 1) \div n + 1]
                k == ((i - 1) % n) + 1
            IN Unit({Nth(k)}, w.first, w.last, IF k = n THEN w.last ELSE 0)]

\* The last complete day.
SingularEnd(now) == now - 1

\* Agencies outside, windows inside.
SingularPlan(now) ==
    LET s == Spans(IF StartValue = 0 THEN 1
                   ELSE Larger(StartValue - Lookback, 1), SingularEnd(now))
    IN [i \in 1 .. Cardinality(Parts) * Len(s) |->
            LET w == s[((i - 1) % Len(s)) + 1]
            IN Unit({Nth((i - 1) \div Len(s) + 1)}, w.first, w.last, 0)]

\* One query per customer.
GadsSince(now) ==
    IF StartValue = 0 THEN 1 ELSE Smaller(StartValue - Lookback, now)

GadsPlan(now) ==
    [i \in 1 .. Cardinality(Parts) |-> Unit({Nth(i)}, GadsSince(now), now, 0)]

\* created[gte], in one listing without an upper end.
StripePlan == <<Unit(Parts, StartValue, Horizon, 0)>>

\* :since in the query of a report.
SigmaPlan == <<Unit(Parts, StartValue, Horizon, 0)>>

\* From midnight of (cursor - lookback_days) to the last midnight.
ShipHeroStart == IF StartValue = 0 THEN 1 ELSE StartValue - Lookback

ShipHeroPlan(now) == Windows(ShipHeroStart, now - 1)

\* One listing per metric, up to a minute ago.
EventsPlan(now) ==
    [i \in 1 .. Cardinality(Parts) |->
        Unit({Nth(i)}, StartValue, now - 1, 0)]

\* greater-than(updated, start).
ProfilesPlan == <<Unit(Parts, StartValue + 1, Horizon, 0)>>

\* The files of the directory after the cursor, oldest first: a unit per file.
FilesPlan(now) ==
    [i \in 1 .. now - StartValue |->
        Unit(Parts, StartValue + i, StartValue + i, 0)]

\* The candidates of the walk through the folders, in the order of cursor_key.
DrivePlan(now) ==
    [i \in 1 .. now - StartValue |->
        Unit(Parts, StartValue + i, StartValue + i, 0)]

\* The cursor parameter of the first request.
ItemsPlan == <<Unit(Parts, StartValue, Horizon, 0)>>

Whole == <<Unit(Parts, 0, Horizon, 0)>>

PartByPart == [i \in 1 .. Cardinality(Parts) |-> Unit({Nth(i)}, 0, Horizon, 0)]

\* All alerts, at every run.
AlertsPlan == Whole

\* The companies and articles of Intercom, all of them at every run.
CompaniesPlan == Whole

\* The other catalogues of Intercom, in one listing each.
IntercomListPlan == Whole

\* Metrics, flows, lists, segments, templates, tags, forms.
KlaviyoListPlan == Whole

\* Channel by channel, and those in the archive after the others.
CampaignsPlan == PartByPart

\* Flow by flow, and action by action.
FlowMessagesPlan == PartByPart

\* List by list, or segment by segment.
MembershipsPlan == PartByPart

\* One report over the whole timeframe.
KlaviyoReportPlan == Whole

\* The grid of a spreadsheet's tab.
TabsPlan == Whole

Plan(now) ==
    CASE stream = "chargebacks" -> ChargebacksPlan(now)
      [] stream = "konnektive" -> KonnektivePlan(now)
      [] stream = "summary" -> SummaryPlan(now)
      [] stream \in {"search", "conversation_parts"} -> IntercomPlan(now)
      [] stream = "insights" -> MetaPlan(now)
      [] stream = "singular" -> SingularPlan(now)
      [] stream = "gaql" -> GadsPlan(now)
      [] stream = "stripe" -> StripePlan
      [] stream = "sigma" -> SigmaPlan
      [] stream = "shiphero" -> ShipHeroPlan(now)
      [] stream = "events" -> EventsPlan(now)
      [] stream = "profiles" -> ProfilesPlan
      [] stream = "files" -> FilesPlan(now)
      [] stream = "drive" -> DrivePlan(now)
      [] stream = "items" -> ItemsPlan
      [] stream = "alerts" -> AlertsPlan
      [] stream = "companies" -> CompaniesPlan
      [] stream = "intercom_list" -> IntercomListPlan
      [] stream = "klaviyo_list" -> KlaviyoListPlan
      [] stream = "campaigns" -> CampaignsPlan
      [] stream = "flow_messages" -> FlowMessagesPlan
      [] stream = "memberships" -> MembershipsPlan
      [] stream = "klaviyo_report" -> KlaviyoReportPlan
      [] stream = "tabs" -> TabsPlan
-----------------------------------------------------------------------------
(* Which rows a connector leaves out for want of a field: the keys of an   *)
(* insights row, the date of a report row, the id or update time of a      *)
(* conversation, the id of a member.                                       *)
MetaDrops(r) == stream = "insights" /\ r \in Broken

SingularDrops(r) == stream = "singular" /\ r \in Broken

IntercomDrops(r) == stream = "conversation_parts" /\ r \in Broken

KlaviyoDrops(r) == stream = "memberships" /\ r \in Broken

Drops(r) ==
    MetaDrops(r) \/ SingularDrops(r) \/ IntercomDrops(r) \/ KlaviyoDrops(r)

\* The rows the service gives for a unit.
Answer(unit) ==
    {[row |-> r, tick |-> tick[r], version |-> version[r]] :
        r \in {q \in Rows : /\ tick[q] # 0 /\ part[q] \in unit.parts
                            /\ tick[q] \in unit.first .. unit.last
                            /\ ~Drops(q)}}

\* The order it gives them in, where it matters: newest first, or (after the
\* connector's own sort, for conversations) oldest first.
Comes(rec, other) ==
    CASE stream \in {"stripe", "events"} -> rec.tick >= other.tick
      [] stream \in {"profiles", "conversation_parts"} ->
             rec.tick <= other.tick
      [] OTHER -> TRUE

\* What a connector keeps to itself about the rows it went through.
ChargebacksNotes(rec) == Larger(noted, rec.tick)

KonnektiveNotes(rec) == Larger(noted, rec.tick)

SummaryNotes == ranOn

\* Complete days only.
GadsNotes(rec) == IF rec.tick < ranOn THEN Larger(noted, rec.tick) ELSE noted

Notes(rec) ==
    CASE stream \in {"chargebacks", "alerts"} -> ChargebacksNotes(rec)
      [] stream = "konnektive" -> KonnektiveNotes(rec)
      [] stream = "summary" -> SummaryNotes
      [] stream = "gaql" -> GadsNotes(rec)
      [] OTHER -> noted

\* Observed as a row is read; 0 for nothing.
RowObserved(rec) ==
    IF stream \in {"stripe", "sigma", "shiphero", "events", "profiles",
                   "items"}
    THEN rec.tick ELSE 0

\* Mutant of IntercomYielded: the window under way counts as landed.
IntercomYieldedEarly == Head(plan).last

\* The windows before this one have been yielded with it.
IntercomYielded == noted

\* Observed once the generator goes on after a row, yielded or not.
AfterRow(rec, yielded) ==
    CASE stream = "conversation_parts" -> rec.tick
      [] stream = "search" /\ yielded -> IntercomYielded
      [] OTHER -> 0

\* Observed at the end of a unit.
KonnektiveUnit == noted

MetaUnit == Head(plan).closes

SearchUnit == IF held = {} THEN Head(plan).last ELSE 0

\* A window without conversations.
ConversationsUnit == IF noted = 0 THEN Head(plan).last ELSE 0

\* A file, if there is one with this time.
FilesUnit == IF noted = 0 THEN 0 ELSE Head(plan).last

DriveUnit == IF noted = 0 THEN 0 ELSE Head(plan).last

UnitObserved ==
    CASE stream = "konnektive" -> KonnektiveUnit
      [] stream = "insights" -> MetaUnit
      [] stream = "search" -> SearchUnit
      [] stream = "conversation_parts" -> ConversationsUnit
      [] stream = "files" -> FilesUnit
      [] stream = "drive" -> DriveUnit
      [] OTHER -> 0

\* Observed at the end of the walk.
SingularLast == SingularEnd(ranOn)

EndObserved ==
    CASE stream \in {"chargebacks", "alerts", "summary", "gaql", "search"} ->
             noted
      [] stream = "singular" /\ SingularLast > 0 -> SingularLast
      [] OTHER -> 0
-----------------------------------------------------------------------------
Init ==
    /\ stream \in Streams
    /\ today = 1
    /\ tick = [r \in Rows |-> 0] /\ part = PartOf
    /\ version = [r \in Rows |-> 0] /\ changes = 0
    /\ saved = 0 /\ landed = [r \in Rows |-> 0]
    /\ kills = 0
    /\ pc = "idle" /\ ranOn = 0 /\ steady = FALSE
    /\ plan = <<>> /\ unread = {} /\ held = {} /\ walked = 0 /\ noted = 0
    /\ observed = 0 /\ due = 0 /\ atYield = FALSE /\ given = {}
    /\ shown = FALSE

\* The service is looked at when a run begins and when a unit is fetched; time
\* passes and rows change then, which is as good as any other moment.
Looked == pc \in {"idle", "walk"} /\ ~atYield

Tick ==
    /\ Looked /\ today < Horizon
    /\ today' = today + 1
    /\ steady' = FALSE
    /\ UNCHANGED <<stream, tick, part, version, changes, tableVars, kills, pc,
                   ranOn, walkVars, yieldVars>>

\* How late a row may be.  The filter of profiles is strict, so that its
\* lookback covers less than itself.
Earliest ==
    IF stream \notin LookingBack THEN today
    ELSE IF stream = "profiles" /\ Lag > 0 THEN today - Lag + 1
    ELSE today - Lag

\* A row appears or changes; for a stream that follows updates it moves to a
\* later tick.  A file comes with a modification time later than the last
\* listing.
Change(r, t) ==
    /\ Looked /\ changes < MaxChanges
    /\ changes' = changes + 1
    /\ t \in Larger(Earliest, 1) .. Smaller(today, Horizon - 1)
    /\ IF stream \in ByUpdate \cup Snapshots
       THEN t >= tick[r] ELSE tick[r] \in {0, t}
    /\ stream \in {"files", "drive"} => t > ranOn
    /\ tick' = [tick EXCEPT ![r] = t]
    /\ version' = [version EXCEPT ![r] = @ + 1]
    /\ steady' = FALSE
    /\ UNCHANGED <<stream, today, part, tableVars, kills, pc, ranOn, walkVars,
                   yieldVars>>

\* A row of a catalogue goes, or moves to another part (a campaign from the
\* archive).
Shift(r, p) ==
    /\ Looked /\ stream \in Snapshots /\ tick[r] # 0
    /\ changes < MaxChanges
    /\ changes' = changes + 1
    /\ \/ tick' = [tick EXCEPT ![r] = 0] /\ UNCHANGED part
       \/ part[r] # p /\ part' = [part EXCEPT ![r] = p] /\ UNCHANGED tick
    /\ steady' = FALSE
    /\ UNCHANGED <<stream, today, version, tableVars, kills, pc, ranOn,
                   walkVars, yieldVars>>

\* Mutant of Begin: nothing to do when the cursor is at today.
BeginUnlessUpToDate ==
    /\ pc = "idle" /\ saved < today
    /\ pc' = "walk" /\ ranOn' = today /\ steady' = TRUE
    /\ plan' = Plan(today)
    /\ walked' = 0 /\ noted' = 0 /\ observed' = 0 /\ shown' = FALSE
    /\ UNCHANGED <<stream, serviceVars, tableVars, kills, unread, held, due,
                   atYield, given>>

Begin ==
    /\ pc = "idle"
    /\ pc' = "walk" /\ ranOn' = today /\ steady' = TRUE
    /\ plan' = Plan(today)
    /\ walked' = 0 /\ noted' = 0 /\ observed' = 0 /\ shown' = FALSE
    /\ UNCHANGED <<stream, serviceVars, tableVars, kills, unread, held, due,
                   atYield, given>>

AtCap == stream \in {"conversation_parts", "flow_messages", "memberships"}
             /\ walked >= Cap

\* The next unit is fetched.  The cap counts parents here.
Fetch ==
    /\ pc = "walk" /\ ~atYield /\ plan # <<>>
    /\ ~AtCap \/ stream = "conversation_parts"
    /\ unread' = Answer(Head(plan))
    /\ walked' = IF stream \in {"flow_messages", "memberships"}
                 THEN walked + 1 ELSE walked
    /\ noted' = IF stream \in {"conversation_parts", "files", "drive"}
                THEN Cardinality(unread') ELSE noted
    /\ pc' = "unit"
    /\ UNCHANGED <<stream, serviceVars, tableVars, kills, ranOn, steady, plan,
                   held, yieldVars>>

\* Parents beyond the cap are left out.
Break ==
    /\ pc = "walk" /\ ~atYield /\ plan # <<>>
    /\ AtCap /\ stream # "conversation_parts"
    /\ plan' = <<>>
    /\ UNCHANGED <<stream, serviceVars, tableVars, kills, pc, ranOn, steady,
                   unread, held, walked, noted, yieldVars>>

\* The report over a window fails again and again (AsyncJobFailed): it is
\* asked for in two halves.  That of a single day fails the run.
MetaBisect ==
    /\ stream = "insights" /\ pc = "walk" /\ ~atYield /\ plan # <<>>
    /\ LET u == Head(plan)
           middle == u.first + (u.last - u.first + 1) \div 2
       IN /\ u.first < u.last
          /\ plan' = <<[u EXCEPT !.last = middle - 1, !.closes = 0],
                       [u EXCEPT !.first = middle]>> \o Tail(plan)
    /\ UNCHANGED <<stream, serviceVars, tableVars, kills, pc, ranOn, steady,
                   unread, held, walked, noted, yieldVars>>

Observe(seen, value) == Larger(seen, value)

\* A row is gone through: it joins the batch, and a batch that is full with it
\* (and with rows the model leaves out) is yielded.
Read(rec, full) ==
    /\ pc = "unit" /\ ~atYield
    /\ rec \in unread /\ \A other \in unread : Comes(rec, other)
    /\ stream = "conversation_parts" => ~AtCap
    /\ unread' = unread \ {rec}
    /\ walked' = IF stream = "conversation_parts" THEN walked + 1 ELSE walked
    /\ noted' = Notes(rec)
    /\ LET batch == held \cup {rec}
           seen == Observe(observed, RowObserved(rec))
       IN /\ atYield' = full
          /\ shown' = (shown \/ full)
          /\ held' = IF full THEN {} ELSE batch
          /\ given' = IF full THEN given \cup batch ELSE given
          /\ IF full
             THEN observed' = seen /\ due' = AfterRow(rec, TRUE)
             ELSE observed' = Observe(seen, AfterRow(rec, FALSE))
                  /\ UNCHANGED due
    /\ UNCHANGED <<stream, serviceVars, tableVars, kills, pc, ranOn, steady,
                   plan>>

\* The generator yields what it holds; `value` is observed afterwards.
Yield(value) ==
    /\ given' = given \cup held /\ held' = {}
    /\ atYield' = TRUE /\ shown' = TRUE
    /\ due' = value /\ UNCHANGED observed

\* Nothing to yield: it goes straight on.
GoOn(value) ==
    /\ observed' = Observe(observed, value)
    /\ UNCHANGED <<held, given, atYield, shown, due>>

\* A page of rows the model leaves out fills the batch of a search.
OtherPage ==
    /\ ~shown /\ stream = "search" /\ pc = "unit" /\ ~atYield /\ unread # {}
    /\ Yield(IntercomYielded)
    /\ UNCHANGED <<stream, serviceVars, tableVars, kills, pc, ranOn, steady,
                   plan, unread, walked, noted>>

\* Konnektive yields the tail of every window, Meta every page.
YieldsTail == stream \in {"konnektive", "insights"} /\ held # {}

\* A unit has been gone through.
UnitEnd ==
    /\ pc = "unit" /\ ~atYield /\ unread = {}
    /\ IF YieldsTail THEN Yield(UnitObserved) ELSE GoOn(UnitObserved)
    /\ noted' = CASE stream = "search" -> Head(plan).last
                  [] stream \in {"konnektive", "conversation_parts", "files",
                                 "drive"} -> 0
                  [] OTHER -> noted
    /\ plan' = Tail(plan)
    /\ pc' = "walk"
    /\ UNCHANGED <<stream, serviceVars, tableVars, kills, ranOn, steady,
                   unread, walked>>

\* conversation_parts yields what it has and returns; the cursor stands at the
\* last conversation, and the next run goes on from there.
CapReached ==
    /\ stream = "conversation_parts" /\ AtCap
    /\ pc = "unit" /\ ~atYield /\ unread # {}
    /\ plan' = <<>> /\ unread' = {}
    /\ IF held # {} THEN Yield(0) ELSE GoOn(0)
    /\ pc' = "done"
    /\ UNCHANGED <<stream, serviceVars, tableVars, kills, ranOn, steady,
                   walked, noted>>

\* Mutant of YieldsNothing: a catalogue without rows yields nothing.
YieldsNothingEver == FALSE

\* _emit, and the tabs of a spreadsheet: an empty batch stands for no rows.
YieldsNothing ==
    /\ stream \in {"klaviyo_list", "campaigns", "flow_messages", "memberships",
                   "klaviyo_report", "tabs"}
    /\ ~shown

\* The walk is over; the last batch is yielded.
WalkEnd ==
    /\ pc = "walk" /\ ~atYield /\ plan = <<>>
    /\ IF held # {} \/ YieldsNothing
       THEN Yield(EndObserved) ELSE GoOn(EndObserved)
    /\ pc' = "done"
    /\ UNCHANGED <<stream, serviceVars, tableVars, kills, ranOn, steady, plan,
                   unread, walked, noted>>
-----------------------------------------------------------------------------
(* The engine's side.                                                      *)
Land(recs) ==
    [r \in Rows |->
        IF \E rec \in recs : rec.row = r
        THEN Max({rec.version : rec \in {q \in recs : q.row = r}})
        ELSE landed[r]]

\* A batch is taken; it may be written at once and the state flushed.
Resume(write) ==
    /\ atYield /\ atYield' = FALSE
    /\ observed' = Observe(observed, due) /\ due' = 0
    /\ IF write
       THEN /\ stream \in Cursored
            /\ landed' = Land(given) /\ given' = {}
            /\ saved' = IF stream \in Ordered THEN Larger(saved, observed)
                                              ELSE saved
       ELSE UNCHANGED <<tableVars, given>>
    /\ UNCHANGED <<stream, serviceVars, kills, pc, ranOn, steady, walkVars,
                   shown>>

\* The run ends well: what is left is written and the cursor committed.  A
\* replace stream that yielded anything has its table swapped.
Commit ==
    /\ pc = "done" /\ ~atYield
    /\ landed' = IF stream \in Snapshots \ Merged /\ shown
                 THEN [r \in Rows |-> Max({0} \cup
                         {rec.version : rec \in {q \in given : q.row = r}})]
                 ELSE Land(given)
    /\ saved' = Larger(saved, observed)
    /\ pc' = "idle"
    /\ given' = {} /\ walked' = 0 /\ noted' = 0 /\ observed' = 0
    /\ UNCHANGED <<stream, serviceVars, kills, ranOn, steady, plan, unread,
                   held, due, atYield, shown>>

\* The run is killed, or a request fails for good.
Kill ==
    /\ pc # "idle" /\ kills < MaxKills
    /\ kills' = kills + 1
    /\ pc' = "idle" /\ steady' = FALSE
    /\ plan' = <<>> /\ unread' = {} /\ held' = {} /\ walked' = 0 /\ noted' = 0
    /\ observed' = 0 /\ due' = 0 /\ atYield' = FALSE /\ given' = {}
    /\ shown' = FALSE
    /\ UNCHANGED <<stream, serviceVars, tableVars, ranOn>>

Run ==
    \/ Begin
    \/ Fetch
    \/ Break
    \/ MetaBisect
    \/ \E rec \in unread, full \in BOOLEAN : Read(rec, full)
    \/ OtherPage
    \/ UnitEnd
    \/ CapReached
    \/ WalkEnd
    \/ \E write \in BOOLEAN : Resume(write)
    \/ Commit

Next ==
    \/ Tick
    \/ \E r \in Rows, t \in 1 .. Horizon : Change(r, t)
    \/ \E r \in Rows, p \in Parts : Shift(r, p)
    \/ Run
    \/ Kill

Spec == Init /\ [][Next]_vars

\* Runs are scheduled again and again and do not stop in the middle, and time
\* passes, at the moments looked at too.
FairSpec == Spec /\ WF_vars(Run) /\ SF_vars(Tick)
-----------------------------------------------------------------------------
Current(r) == Drops(r) \/ landed[r] = version[r]

\* Whatever the next run will not ask for again is in the table as it stands:
\* no cursor is ever saved past a row that has not landed, in its last version,
\* for any part, kill or flush, and however long the walk took.
PassedIsLanded ==
    stream \in Cursored /\ saved # 0 =>
        \A r \in Rows :
            tick[r] # 0 /\ (\A i \in DOMAIN Plan(Horizon) :
                                tick[r] < Plan(Horizon)[i].first)
                => Current(r)

\* A run during which the service did not change leaves the table as the
\* service is, the part that is over where days have to be complete, and up to
\* the cap.  An empty Intercom catalogue is not written (runner.py skips the
\* write), so the table keeps the rows of before, and a table that is merged
\* into keeps those that went.
SteadyRunIsExact ==
    steady /\ pc = "idle" =>
        \A r \in Rows :
            LET listed == IF tick[r] = 0 THEN 0 ELSE version[r]
            IN \/ landed[r] = listed \/ Drops(r)
               \/ stream \in Cursored /\ tick[r] = 0
               \/ stream \in {"singular", "shiphero", "events"}
                      /\ tick[r] >= ranOn
               \/ stream \in {"flow_messages", "memberships"}
                      /\ Cap < Cardinality({p \in Parts : p <= part[r]})
               \/ stream = "conversation_parts"
                      /\ Cap < Cardinality({q \in Rows :
                                               tick[q] \in 1 .. tick[r]})
               \/ stream \in {"intercom_list"} \cup Merged /\ listed = 0

\* As many conversations within the lookback as the cap has: the next run
\* starts with them again and gets no further.
Crowded ==
    /\ stream = "conversation_parts"
    /\ \E q \in Rows :
           Cap <= Cardinality({r \in Rows : tick[r] # 0 /\
                      tick[r] \in tick[q] - Lookback .. tick[q]})

\* Runs catch up: once the service is at rest, what it has lands, whatever was
\* killed before.
CatchesUp ==
    stream \in Cursored =>
        <>[](Crowded \/ \A r \in Rows : tick[r] # 0 => Current(r))
=============================================================================
