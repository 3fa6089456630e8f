----------------------------- MODULE Purchases -----------------------------
(* The RevenueCat connector's main job (sources/revenuecat: the streams     *)
(* customers and subscriptions, and plan_targets): who bought something.    *)
(* RevenueCat has no feed of changes.  A run reads the whole list of        *)
(* customers, which says when each was last seen, and then asks for the     *)
(* subscriptions of as many of them as the run's cap allows.  A customer    *)
(* may buy long after the last sighting, so each is asked for again at      *)
(* fixed intervals after it, its checkpoints; a watermark says up to when   *)
(* all checkpoints have been processed.                                     *)
(*                                                                          *)
(* A run selects both streams, as register.yaml asks for.  Its rows land as *)
(* they are read: one that was read and had not landed when the run died is *)
(* as one that was not read.  What the operator's queries hint at and which *)
(* days the reconciliation finds short is left open.                        *)
EXTENDS Integers, FiniteSets, FiniteSetsExt

CONSTANTS
    Customers,      \* their ids, in order
    Offsets,        \* SWEEP_OFFSETS_HOURS
    Initial,        \* sweep_initial_days
    HotFor,         \* hot_window_days, from the end of a subscription
    HealReach,      \* how far back from now heal candidates were seen
    Share,          \* cap // 4, for caps of four and more
    ColdPerRun,     \* cold_refresh_per_run
    Settings,       \* the settings looked at: cap, hinted, capped
    MaxKills,
    Quiet,          \* the last instant at which anything happens
    End             \* where the clock stops

ASSUME PurchasesAssumption ==
    /\ Customers \subseteq Nat
    /\ 0 \in Offsets /\ \A o \in Offsets : o \in Nat /\ o % 2 = 0
    /\ {Initial, HotFor, HealReach, ColdPerRun, MaxKills, Quiet, End} \subseteq Nat
    /\ Share \in Nat \ {0}
    /\ \A s \in Settings : s[1] \in Nat /\ s[1] >= Share
                            /\ s[2] \in 0 .. s[1] /\ s[3] \in BOOLEAN
    /\ End % 2 = 0

VARIABLES
    cap,        \* max_customers_per_run
    hinted,     \* how many the operator's queries hint at, at most, up to the cap
    capped,     \* customers_max_pages is set
    now,        \* customers act at odd instants, runs begin at even ones
    seenAt,     \* the later of first_seen_at and last_seen_at; 0 for never
    paid,       \* the last change of a customer's subscription; 0 for none
    active,     \* those whose subscription is active since that change
    copy,       \* seenAt as the landed customers table has it
    snapshot,   \* the latest extracted_at of that table
    landed,     \* paid as the landed subscriptions table has it
    held,       \* active as that table has it
    extracted,  \* extracted_at of the customer's landed subscriptions
    watermark,  \* sweep_watermark, in the persisted state
    origin,     \* where the first pass that ended had begun
    skipped,    \* hot customers a pass had no room for, and those whose rows a
                \* walk left unread, until they are asked for
    pc, todo,   \* what the run is at, and for whom
    started,    \* when the walk, or the pass, began
    next,       \* the watermark the pass will persist
    kills

options == <<cap, hinted, capped>>
service == <<seenAt, paid, active>>
tables == <<copy, snapshot, landed, held, extracted>>
marks == <<watermark, origin>>
run == <<pc, todo, started, next>>
purchaseVars == <<options, now, service, tables, marks, skipped, run, kills>>

NoMark == -Initial - 1      \* before any watermark

PurchaseInit ==
    /\ \E s \in Settings : cap = s[1] /\ hinted = s[2] /\ capped = s[3]
    /\ now = 1
    /\ \E c \in Customers :
           /\ seenAt = [d \in Customers |-> IF d = c THEN 1 ELSE 0]
           /\ paid = [d \in Customers |-> 0] /\ active = {}
    /\ copy = [c \in Customers |-> 0] /\ snapshot = 0
    /\ landed = [c \in Customers |-> 0] /\ held = {}
    /\ extracted = [c \in Customers |-> 0]
    /\ watermark = NoMark /\ origin = NoMark
    /\ skipped = {}
    /\ pc = "idle" /\ todo = {} /\ started = 0 /\ next = NoMark
    /\ kills = 0
-----------------------------------------------------------------------------
(* RevenueCat, and time.                                                    *)
Tick ==
    /\ now < End
    /\ now' = now + 1
    /\ UNCHANGED <<options, service, tables, marks, skipped, run, kills>>

Happening == now % 2 = 1 /\ now <= Quiet

\* The checkpoints of a customer seen at `anchor`.
Checkpoints(anchor) == IF anchor = 0 THEN {} ELSE {anchor + o : o \in Offsets}

\* No two customers share a checkpoint: as many as the sweep takes in one run,
\* due at the same millisecond, would be first in line for ever.
See(c) ==
    /\ Happening /\ seenAt[c] < now
    /\ \A d \in Customers \ {c} :
           Checkpoints(seenAt[d]) \cap Checkpoints(now) = {}
    /\ seenAt' = [seenAt EXCEPT ![c] = now]
    /\ UNCHANGED <<options, now, paid, active, tables, marks, skipped, run, kills>>

\* A purchase, a renewal, a refund: no customer has to be seen for it.  It
\* leaves a subscription that is active (`on`), or one that ends here.
Pay(c, on) ==
    /\ Happening /\ seenAt[c] # 0 /\ paid[c] < now
    /\ paid' = [paid EXCEPT ![c] = now]
    /\ active' = IF on THEN active \cup {c} ELSE active \ {c}
    /\ UNCHANGED <<options, now, seenAt, tables, marks, skipped, run, kills>>
-----------------------------------------------------------------------------
(* customers: the walk over the whole list.                                 *)
BeginWalk ==
    /\ pc = "idle" /\ now % 2 = 0
    /\ pc' = "walk" /\ started' = now
    /\ todo' = {c \in Customers : seenAt[c] # 0}
    /\ UNCHANGED <<options, now, service, tables, marks, skipped, next, kills>>

\* A row comes by, on one of the chains or on two; that of a customer who
\* joined the list behind the walk may or may not.
ReadRow(c) ==
    /\ pc = "walk" /\ seenAt[c] # 0
    /\ copy' = [copy EXCEPT ![c] = seenAt[c]]
    /\ snapshot' = started
    /\ todo' = todo \ {c}
    /\ UNCHANGED <<options, now, service, landed, held, extracted, marks,
                   skipped, pc, started, next, kills>>

\* The end of the list.  Where customers_max_pages is set a chain may end before,
\* with a warning; every chain reads a page, and the rows carry its start.
EndWalk ==
    /\ pc = "walk"
    /\ todo = {} \/ (capped /\ snapshot = started)
    /\ pc' = "walked" /\ todo' = {}
    /\ skipped' = skipped \cup todo
    /\ UNCHANGED <<options, now, service, tables, marks, started, next, kills>>
-----------------------------------------------------------------------------
(* plan_targets: for whom subscriptions are asked for, in this order: hints *)
(* (seeds and bootstrap ids), the sweep, the hot, the heals, and the cold.  *)
Mark == IF watermark = NoMark THEN now - Initial ELSE watermark

Known == {c \in Customers : landed[c] # 0}

\* An active subscription keeps a customer hot for as long as it has landed so.
Hot == {c \in Known : c \in held \/ landed[c] + HotFor >= now}

\* sweep_due_at: the earliest checkpoint that is due.
DueNow(c) == Checkpoints(copy[c]) \cap (Mark + 1 .. now)
Due == {c \in Customers \ Hot : DueNow(c) # {}}
DueAt(c) == Min(DueNow(c))

\* The first n of a set, by a key and by id.
First(n, set, Key(_)) ==
    {c \in set : n > Cardinality({d \in set : \/ Key(d) < Key(c)
                                              \/ Key(d) = Key(c) /\ d < c})}

\* Mutant of Stalest: the longest waiting are not preferred.
StalestById(c) == 0

Stalest(c) == extracted[c]

Earlier(c) == -copy[c]     \* the last seen first

Healable == {c \in Customers : copy[c] # 0 /\ copy[c] + HealReach >= now}

\* What is left of the cap after the tiers before this one.
Room(ahead) == cap - Cardinality(ahead)

Budget(hints) ==
    Max({Share, cap - Cardinality(hints) - Cardinality(Hot)})

Targets(hints, heals) ==
    LET swept == First(Budget(hints), Due, DueAt) \ hints
        sweep == hints \cup First(Room(hints), swept, DueAt)
        hot == sweep \cup First(Room(sweep), Hot \ sweep, Stalest)
        heal == hot \cup First(Room(hot), heals \ hot, Earlier)
        cold == First(ColdPerRun, Known \ (Hot \cup hints \cup swept \cup heals), Stalest)
    IN  heal \cup First(Room(heal), cold, Stalest)

\* Mutant of Ceiling: all that is due by now has been processed.
CeilingNow == now

\* Who was seen after the walk began may not be in its rows.
Ceiling == IF snapshot = 0 THEN now ELSE Min({now, snapshot})

\* The watermark stays before the first checkpoint that was left out.
NewWatermark(targets) ==
    LET left == {DueAt(c) - 1 : c \in Due \ targets}
    IN  Max({Mark, Min(left \cup {Ceiling})})

BeginPass(hints, heals) ==
    /\ pc = "walked" /\ now % 2 = 0
    /\ Cardinality(hints) <= hinted
    /\ heals \subseteq Healable
    /\ pc' = "pass" /\ started' = now
    /\ todo' = Targets(hints, heals)
    /\ next' = NewWatermark(todo')
    /\ origin' = IF watermark = NoMark THEN Mark ELSE origin
    /\ skipped' = skipped \cup (Hot \ todo')
    /\ UNCHANGED <<options, now, service, tables, watermark, kills>>

\* subscriptions: the answer lands; a customer without any leaves no row.
Ask(c) ==
    /\ pc = "pass" /\ c \in todo
    /\ todo' = todo \ {c}
    /\ landed' = [landed EXCEPT ![c] = paid[c]]
    /\ held' = IF c \in active THEN held \cup {c} ELSE held \ {c}
    /\ extracted' = IF paid[c] # 0 THEN [extracted EXCEPT ![c] = started]
                                   ELSE extracted
    /\ skipped' = skipped \ {c}
    /\ UNCHANGED <<options, now, service, copy, snapshot, marks, pc, started, next,
                   kills>>

\* All have answered: the state is committed.
EndPass ==
    /\ pc = "pass" /\ todo = {}
    /\ watermark' = next
    /\ pc' = "idle" /\ next' = NoMark
    /\ UNCHANGED <<options, now, service, tables, origin, skipped, todo, started,
                   kills>>

\* A run dies, or one of its requests fails for good; no stream follows.
Kill ==
    /\ pc # "idle" /\ kills < MaxKills
    /\ kills' = kills + 1
    /\ pc' = "idle" /\ todo' = {} /\ next' = NoMark
    /\ UNCHANGED <<options, now, service, tables, marks, skipped, started>>
-----------------------------------------------------------------------------
Run ==
    \/ BeginWalk
    \/ EndWalk
    \/ \E hints, heals \in SUBSET Customers : BeginPass(hints, heals)
    \/ \E c \in Customers : Ask(c)
    \/ EndPass

Read == \E c \in todo : ReadRow(c)

PurchaseNext ==
    \/ Tick
    \/ \E c \in Customers : See(c) \/ ReadRow(c)
    \/ \E c \in Customers, on \in BOOLEAN : Pay(c, on)
    \/ Run
    \/ Kill

PurchaseSpec == PurchaseInit /\ [][PurchaseNext]_purchaseVars

\* Time passes, runs go on and are started again and again, and every row on
\* the list comes by.
FairPurchaseSpec ==
    /\ PurchaseSpec
    /\ WF_purchaseVars(Tick) /\ WF_purchaseVars(Run) /\ WF_purchaseVars(Read)
-----------------------------------------------------------------------------
(* The watermark passes no checkpoint of a customer who has bought something *)
(* before it and has not been asked for since, whatever was seen and bought  *)
(* between a walk, the plan and the answers, however small the cap and       *)
(* wherever runs died (targets.py:13-31, source.py: "persist only now").     *)
(* Left out are the checkpoints before the first watermark; hot customers    *)
(* for whom the cap had no room; and customers whose rows a walk cut short   *)
(* by customers_max_pages left unread, which the watermark passes although   *)
(* targets.py:143 has it that what it passes was processed.                  *)
NoCheckpointIsPassed ==
    \A c \in Customers \ skipped, k \in 0 .. End :
        k \in Checkpoints(seenAt[c]) /\ origin < k /\ k <= watermark /\ paid[c] <= k
            => landed[c] = paid[c]

\* No checkpoint of a customer lies after the last change, or the walk did not
\* come to the customer, or a pass had no room.
Unswept(c) ==
    c \in skipped \/ \A k \in Checkpoints(seenAt[c]) : k < paid[c] \/ k <= origin

\* Customers who are not hot get what the hints and the hot leave of the cap.
Starved(c) == c \notin Hot /\ hinted + Cardinality(Hot) >= cap

(* A change is found in the end if the customer was seen within the longest  *)
(* offset before it, or has subscriptions already: by the sweep, as one of   *)
(* the hot, or by the rotation of the cold (targets.py:19-41).  The rotation *)
(* finds nothing where the hints and the customers with an active            *)
(* subscription are as many as the cap, and where hints alone are, nothing   *)
(* is found: that much of the cap is the operator's to leave.                *)
PurchasesAreFound ==
    \A c \in Customers :
        <>[](\/ landed[c] = paid[c]
             \/ hinted = cap
             \/ Unswept(c) /\ (landed[c] = 0 \/ Starved(c)))
=============================================================================
