---------------------------- MODULE ExtractProofs ----------------------------
(***************************************************************************)
(* Proofs about the walks of the connectors, for any rows and parts, any   *)
(* span, lookback and cap, any length of the run and any number of changes *)
(* and kills, for every stream at once.                                    *)
(*                                                                         *)
(* PassedIsLanded: the cursor passes only what has landed.  It says nothing*)
(* of a run under way, so it is not inductive.                             *)
(*   - Marks are the ticks that may yet become the cursor.  A row that has *)
(*     changed since it was fetched is Ahead of all of them: the next run  *)
(*     asks for it whatever is persisted (FreshInv).                       *)
(*   - CoverInv: until the walk is over, every row is in the table, given, *)
(*     held, unread, still asked for by the plan, or Ahead.                *)
(*   - OrderInv: a stream that declares itself ordered persists its cursor *)
(*     during the walk, so what it observes is behind all that is handed   *)
(*     over, at every moment and not only at the end.                      *)
(*   - SafeInv is the property by the first tick asked for (Start); each   *)
(*     plan is shown to be sound, that is, to leave out only rows behind   *)
(*     the cursor, or Later than the run may pass (PlanIsSound).           *)
(*                                                                         *)
(* SteadyRunIsExact: a run at rest leaves the table as the service is.     *)
(* While the service rests, what the run has in hand is the service's      *)
(* (RecordsInv), and each row is Placed: in the table, in hand, asked for, *)
(* or left out for one of the reasons the property names.  The two caps    *)
(* need a count of their own: RankInv for parents, taken in the order of   *)
(* the plan, and DoneInv for conversations, of which none is counted twice.*)
(***************************************************************************)
EXTENDS Extract, TLAPS, FiniteSetTheorems, SequenceTheorems

-----------------------------------------------------------------------------
(* Spans and parts.                                                        *)

LEMMA TimesMonotone ==
    ASSUME NEW a \in Int, NEW b \in Int, a <= b, NEW d \in Nat
    PROVE  a * d \in Int /\ b * d \in Int /\ a * d <= b * d
  <1>1. (b - a) * d >= 0
    OBVIOUS
  <1>2. (b - a) * d = b * d - a * d
    OBVIOUS
  <1> QED
    BY <1>1, <1>2

LEMMA Quotient ==
    ASSUME NEW x \in Int, NEW d \in Nat \ {0}
    PROVE  /\ x \div d \in Int /\ (x \div d) * d \in Int
           /\ (x \div d) * d <= x /\ x < (x \div d) * d + d
  <1>1. d \in Int /\ d > 0
    OBVIOUS
  <1> QED
    BY <1>1

\* A quotient is known by its bounds.
LEMMA QuotientIs ==
    ASSUME NEW x \in Int, NEW d \in Nat \ {0}, NEW q \in Int,
           q * d <= x, x < q * d + d
    PROVE  x \div d = q
  <1> DEFINE p == x \div d
  <1>1. p \in Int /\ p * d \in Int /\ p * d <= x /\ x < p * d + d
    BY Quotient
  <1>2. q * d \in Int /\ (p + 1) * d = p * d + d /\ (q + 1) * d = q * d + d
    BY <1>1
  <1> HIDE DEF p
  <1>3. CASE p < q
    <2>1. (p + 1) * d <= q * d
      BY <1>1, <1>3, TimesMonotone
    <2> QED
      BY <1>1, <1>2, <2>1
  <1>4. CASE q < p
    <2>1. (q + 1) * d <= p * d
      BY <1>1, <1>4, TimesMonotone
    <2> QED
      BY <1>1, <1>2, <2>1
  <1> QED
    BY <1>1, <1>3, <1>4 DEF p

LEMMA Remainder ==
    ASSUME NEW d \in Nat \ {0}, NEW q \in Int, NEW r \in 0 .. d - 1
    PROVE  (q * d + r) \div d = q /\ (q * d + r) % d = r
  <1>1. d \in Int /\ d > 0 /\ r \in Int /\ 0 <= r /\ r < d
    OBVIOUS
  <1>2. (q * d + r) % d = r
    BY <1>1
  <1>3. q * d + r \in Int /\ q * d <= q * d + r /\ q * d + r < q * d + d
    BY <1>1
  <1> QED
    BY <1>2, <1>3, QuotientIs

Bounds == [first : Int, last : Int]

\* The spans between two ticks cover them, in order and without overlap.
LEMMA SpansAre ==
    ASSUME NEW first \in Int, NEW last \in Int
    PROVE  /\ Spans(first, last) \in Seq(Bounds)
           /\ \A i \in DOMAIN Spans(first, last) :
                  /\ first <= Spans(first, last)[i].first
                  /\ Spans(first, last)[i].last <= last
           /\ \A i, j \in DOMAIN Spans(first, last) :
                  i < j => Spans(first, last)[i].last < Spans(first, last)[j].first
  <1> DEFINE s == Spans(first, last)
             n == (last - first + Span) \div Span
  <1>1. Span \in Nat \ {0}
    BY ExtractAssumption DEF ExtractAssumption
  <1>2. n \in Int
    BY <1>1, Quotient
  <1>3. s = [i \in 1 .. n |-> [first |-> first + (i - 1) * Span,
                               last |-> Smaller(first + i * Span - 1, last)]]
    BY DEF Spans
  <1> HIDE DEF n, s
  <1>4. ASSUME NEW i \in 1 .. n
        PROVE  /\ i * Span \in Int /\ (i - 1) * Span \in Int /\ 0 <= (i - 1) * Span
               /\ s[i].first = first + (i - 1) * Span
               /\ s[i].last = Smaller(first + i * Span - 1, last)
               /\ s[i] \in Bounds /\ s[i].last <= first + i * Span - 1
               /\ s[i].last <= last
    <2>1. i \in Int /\ i - 1 \in Int /\ 0 <= i - 1
      BY <1>2
    <2>2. i * Span \in Int /\ (i - 1) * Span \in Int /\ 0 * Span <= (i - 1) * Span
      BY <1>1, <2>1, TimesMonotone
    <2>3. 0 * Span = 0
      BY <1>1
    <2>4. s[i] = [first |-> first + (i - 1) * Span,
                  last |-> Smaller(first + i * Span - 1, last)]
      BY <1>3
    <2> QED
      BY <2>2, <2>3, <2>4 DEF Bounds, Smaller
  <1>5. s \in Seq(Bounds)
    <2>1. CASE n >= 0
      <3>1. n \in Nat /\ s \in [1 .. n -> Bounds]
        BY <1>2, <1>3, <1>4, <2>1
      <3> QED
        BY <3>1, SeqDef
    <2>2. CASE n < 0
      <3>1. 1 .. n = 1 .. 0
        BY <1>2, <2>2
      <3>2. 0 \in Nat /\ s \in [1 .. 0 -> Bounds]
        BY <1>3, <3>1
      <3> QED
        BY <3>2, SeqDef
    <2> QED
      BY <1>2, <2>1, <2>2
  <1>6. DOMAIN s = 1 .. n
    BY <1>3
  <1>7. ASSUME NEW i \in DOMAIN s, NEW j \in DOMAIN s, i < j
        PROVE  s[i].last < s[j].first
    <2>1. i \in Int /\ j - 1 \in Int /\ i <= j - 1 /\ i \in 1 .. n /\ j \in 1 .. n
      BY <1>2, <1>6, <1>7
    <2>2. i * Span \in Int /\ (j - 1) * Span \in Int /\ i * Span <= (j - 1) * Span
      BY <1>1, <2>1, TimesMonotone
    <2>3. s[i].last <= first + i * Span - 1 /\ s[i].last \in Int
      BY <1>4, <2>1 DEF Bounds
    <2>4. s[j].first = first + (j - 1) * Span
      BY <1>4, <2>1
    <2> QED
      BY <2>2, <2>3, <2>4
  <1>8. \A i \in DOMAIN s : first <= s[i].first /\ s[i].last <= last
    BY <1>4, <1>6
  <1> QED
    BY <1>5, <1>7, <1>8 DEF s

LEMMA SpansCover ==
    ASSUME NEW first \in Int, NEW last \in Int, NEW t \in first .. last
    PROVE  /\ 1 \in DOMAIN Spans(first, last)
           /\ Spans(first, last)[1].first = first
           /\ \E i \in DOMAIN Spans(first, last) :
                  t \in Spans(first, last)[i].first .. Spans(first, last)[i].last
  <1> DEFINE s == Spans(first, last)
             n == (last - first + Span) \div Span
             q == (t - first) \div Span
  <1>1. Span \in Nat \ {0}
    BY ExtractAssumption DEF ExtractAssumption
  <1>2. /\ n \in Int /\ n * Span \in Int
        /\ n * Span <= last - first + Span /\ last - first + Span < n * Span + Span
    BY <1>1, Quotient
  <1>3. q \in Int /\ q * Span \in Int /\ q * Span <= t - first
        /\ t - first < q * Span + Span
    BY <1>1, Quotient
  <1>4. s = [i \in 1 .. n |-> [first |-> first + (i - 1) * Span,
                               last |-> Smaller(first + i * Span - 1, last)]]
    BY DEF Spans
  <1> HIDE DEF n, s, q
  <1>5. q + 1 <= n
    <2>1. SUFFICES ASSUME n <= q PROVE FALSE
      BY <1>2, <1>3
    <2>2. n * Span <= q * Span
      BY <1>1, <1>2, <1>3, <2>1, TimesMonotone
    <2> QED
      BY <1>1, <1>2, <1>3, <2>2
  <1>6. 0 <= q
    <2>0. 0 <= t - first
      OBVIOUS
    <2>1. SUFFICES ASSUME q + 1 <= 0 PROVE FALSE
      BY <1>3
    <2>2. (q + 1) * Span <= 0 * Span
      BY <1>1, <1>3, <2>1, TimesMonotone
    <2>3. (q + 1) * Span = q * Span + Span /\ 0 * Span = 0
      BY <1>1, <1>3
    <2> QED
      BY <1>1, <1>3, <2>0, <2>2, <2>3
  <1>7. (q + 1) * Span = q * Span + Span /\ (q + 1) - 1 = q
    BY <1>1, <1>3
  <1>8. q + 1 \in 1 .. n /\ 1 \in 1 .. n
    BY <1>2, <1>3, <1>5, <1>6
  <1>9. s[q + 1].first = first + q * Span
        /\ s[q + 1].last = Smaller(first + (q * Span + Span) - 1, last)
    BY <1>4, <1>7, <1>8
  <1>10. t \in s[q + 1].first .. s[q + 1].last
    <2> DEFINE m == q * Span
    <2>1. m \in Int /\ Span \in Int /\ t \in Int /\ t <= last
          /\ m <= t - first /\ t - first < m + Span
          /\ s[q + 1].first = first + m
          /\ s[q + 1].last = Smaller(first + (m + Span) - 1, last)
      BY <1>1, <1>3, <1>9
    <2> HIDE DEF m
    <2> QED
      BY <2>1 DEF Smaller
  <1>11. s[1].first = first
    <2>1. s[1].first = first + (1 - 1) * Span /\ (1 - 1) * Span = 0
      BY <1>1, <1>4, <1>8
    <2> QED
      BY <2>1
  <1>12. DOMAIN s = 1 .. n
    BY <1>4
  <1> QED
    BY <1>8, <1>10, <1>11, <1>12 DEF s

\* The place of a part in the order they are listed.
RankOf(p) == Cardinality({q \in Parts : q <= p})

LEMMA RankOrders ==
    ASSUME NEW p \in Parts, NEW r \in Parts, p < r
    PROVE  RankOf(p) < RankOf(r)
  <1> DEFINE upTo(x) == {q \in Parts : q <= x}
  <1>1. Parts \subseteq Nat /\ IsFiniteSet(Parts)
    BY ExtractAssumption DEF ExtractAssumption
  <1>2. upTo(p) \in SUBSET upTo(r)
    <2> SUFFICES ASSUME NEW q \in Parts, q <= p PROVE q <= r
      OBVIOUS
    <2>1. q \in Nat /\ p \in Nat /\ r \in Nat
      BY <1>1
    <2> QED
      BY <2>1
  <1>3. r \in upTo(r) /\ r \notin upTo(p)
    BY <1>1
  <1>4. IsFiniteSet(upTo(r))
    BY <1>1, FS_Subset
  <1> HIDE DEF upTo
  <1>5. /\ Cardinality(upTo(p)) <= Cardinality(upTo(r)) /\ IsFiniteSet(upTo(p))
        /\ Cardinality(upTo(p)) # Cardinality(upTo(r))
    BY <1>2, <1>3, <1>4, FS_Subset
  <1>6. Cardinality(upTo(p)) \in Nat /\ Cardinality(upTo(r)) \in Nat
    BY <1>4, <1>5, FS_CardinalityType
  <1>7. Cardinality(upTo(p)) < Cardinality(upTo(r))
    BY <1>5, <1>6
  <1> QED
    BY <1>7 DEF RankOf, upTo

LEMMA RankIsListed ==
    ASSUME NEW p \in Parts
    PROVE  /\ Cardinality(Parts) \in Nat \ {0}
           /\ RankOf(p) \in 1 .. Cardinality(Parts)
  <1> DEFINE upTo == {q \in Parts : q <= p}
  <1>1. Parts \subseteq Nat /\ IsFiniteSet(Parts)
    BY ExtractAssumption DEF ExtractAssumption
  <1>2. upTo \in SUBSET Parts /\ p \in upTo
    BY <1>1
  <1>3. RankOf(p) = Cardinality(upTo)
    BY DEF RankOf
  <1> HIDE DEF upTo
  <1>4. /\ IsFiniteSet(upTo) /\ Cardinality(upTo) <= Cardinality(Parts)
        /\ Cardinality(upTo) \in Nat /\ Cardinality(Parts) \in Nat
    BY <1>1, <1>2, FS_Subset, FS_CardinalityType
  <1>5. Cardinality(upTo) # 0
    BY <1>2, <1>4, FS_EmptySet
  <1> QED
    BY <1>3, <1>4, <1>5

LEMMA SameRank ==
    ASSUME NEW p \in Parts, NEW r \in Parts, RankOf(p) = RankOf(r)
    PROVE  p = r
  <1>1. p \in Nat /\ r \in Nat /\ RankOf(p) \in Int
    BY RankIsListed, ExtractAssumption DEF ExtractAssumption
  <1>2. ~(r < p) /\ ~(p < r)
    BY <1>1, RankOrders
  <1> QED
    BY <1>1, <1>2

\* A connector that goes through its parts one by one comes to each.
LEMMA NthIsEach ==
    ASSUME NEW p \in Parts
    PROVE  /\ Cardinality(Parts) \in Nat \ {0}
           /\ \E k \in 1 .. Cardinality(Parts) : Nth(k) = p
  <1>1. Nth(RankOf(p)) = CHOOSE r \in Parts : RankOf(r) = RankOf(p)
    BY DEF Nth, RankOf
  <1>2. Nth(RankOf(p)) = p
    BY <1>1, SameRank
  <1> QED
    BY <1>2, RankIsListed
-----------------------------------------------------------------------------
(* The inductive invariant.                                                *)

\* The first tick that a run of stream s asks for when x is the persisted
\* cursor.
Start(s, x) ==
    CASE s \in {"files", "drive"} -> x + 1
      [] s = "items" -> x
      [] s = "profiles" -> x - Lookback + 1
      [] OTHER -> x - Lookback

From(x) == Start(stream, x)

\* A row that is not asked for again once the cursor is at x.
Behind(r, x) == tick[r] # 0 /\ tick[r] < From(x)

\* Streams in which `noted` is a number of rows and not a tick.
Counts == {"conversation_parts", "files", "drive"}

\* The ticks that may become the persisted cursor of this run.
Marks ==
    {saved, observed, due, ranOn} \cup {rec.tick : rec \in unread}
        \cup (IF stream \in Counts THEN {} ELSE {noted})

\* A row so late that the next run will ask for it, whatever is persisted.
Ahead(r) == \A x \in Marks : From(x) <= tick[r]

Has(recs, r, v) == \E rec \in recs : rec.row = r /\ rec.version = v

\* In the table as it is, once what was given is written.
Landing(r) == Current(r) \/ Has(given, r, version[r])

\* A plan without an upper end, in a single unit.
Open ==
    \/ stream \in {"stripe", "sigma", "profiles", "items"}
    \/ stream = "chargebacks" /\ saved = 0

Within(u, p, t) == p \in u.parts /\ t \in u.first .. u.last

Covers(units, p, t) == \E i \in DOMAIN units : Within(units[i], p, t)

Asked(units, r) == Covers(units, part[r], tick[r])

\* The units that have not been fetched.
Left == IF pc = "unit" THEN Tail(plan) ELSE plan

\* Streams that go through their windows in order, and observe at the end of
\* each.
InOrder == {"konnektive", "search", "conversation_parts", "drive"}

Sorted(units) ==
    \A i, j \in DOMAIN units : i < j => units[i].last < units[j].first

Units ==
    [parts : {Parts} \cup {{Nth(k)} : k \in 1 .. Cardinality(Parts)},
     first : Int, last : Int, closes : Int]

\* No unit asks for a tick after `now`.
EndBy(units, now) ==
    \A i \in DOMAIN units : units[i].last <= now /\ units[i].closes <= now

\* Every row is asked for wherever it is or moves to after a tick.
AsksFrom(units, first) ==
    \A r \in Rows, t \in 1 .. Horizon : first <= t => Covers(units, part[r], t)

\* Streams of which a run leaves out the day it runs on.
CompleteDays == {"singular", "shiphero", "events"}

\* A row that a run at `now` may leave to the next.
Later(r, now) ==
    /\ From(now) <= tick[r] /\ now <= tick[r]
    /\ stream \in CompleteDays \/ now < tick[r]

\* What a plan made at `now` is like: it leaves out only rows that need not be
\* asked for any more, or are so late that the next run asks for them.
SoundPlan(units, now) ==
    /\ units \in Seq(Units)
    /\ ~Open => EndBy(units, now)
    /\ stream \in InOrder => Sorted(units)
    /\ Open => Len(units) = 1 /\ AsksFrom(units, From(saved))
    /\ ~Open => \A r \in Rows : tick[r] # 0 =>
           Behind(r, saved) \/ Asked(units, r) \/ Later(r, now)

Records == [row : Rows, tick : Nat, version : Nat]

ExtractType ==
    /\ stream \in Cursored \cap Streams
    /\ today \in Nat \ {0} /\ today <= Larger(Horizon, 1)
    /\ ranOn \in Nat /\ ranOn <= today
    /\ tick \in [Rows -> Nat] /\ version \in [Rows -> Nat]
    /\ \A r \in Rows : tick[r] <= today /\ (tick[r] # 0 => tick[r] < Horizon)
    /\ part = PartOf
    /\ saved \in Nat /\ observed \in Nat /\ due \in Int
    /\ stream \notin Counts => noted \in Int
    /\ unread \subseteq Records /\ held \subseteq Records /\ given \subseteq Records
    /\ plan \in Seq(Units)
    /\ pc \in {"idle", "walk", "unit", "done"}

ShapeInv ==
    /\ pc = "idle" => observed = 0 /\ due = 0 /\ noted = 0 /\ given = {} /\ ~atYield
    /\ pc # "unit" => unread = {}
    /\ pc \in {"idle", "done"} => plan = <<>> /\ held = {}
    /\ pc = "unit" => plan # <<>>
    /\ atYield => held = {}
    /\ ~atYield => due = 0
    /\ Open /\ pc = "walk" /\ plan # <<>> =>
           /\ held = {} /\ given = {} /\ ~atYield
           /\ observed = 0 /\ due = 0 /\ noted = 0
    /\ Open /\ plan # <<>> => Len(plan) = 1

PlanInv ==
    /\ pc # "idle" /\ ~Open => EndBy(plan, ranOn)
    /\ stream \in InOrder => Sorted(plan)
    /\ Open /\ pc = "walk" /\ plan # <<>> => AsksFrom(plan, From(saved))

MarksInv ==
    /\ \A x \in Marks : x <= today
    /\ (pc # "idle" /\ ~Open) \/ stream \in {"files", "drive"} =>
           \A x \in Marks : x <= ranOn
    /\ stream = "konnektive" /\ noted > 0 =>
           pc = "unit" /\ noted <= Head(plan).last

\* A record is of the latest version, or the row has moved beyond all marks.
FreshInv ==
    \A rec \in unread \cup held \cup given :
        rec.version = version[rec.row] \/ Ahead(rec.row)

\* Nothing changes while a unit is gone through.
UnreadInv ==
    \A rec \in unread :
        /\ rec.version = version[rec.row] /\ rec.tick = tick[rec.row]
        /\ rec.tick <= Head(plan).last

\* Where a row is that is in the table in an old version, or not at all.
Covered(r) ==
    \/ Landing(r) \/ Has(held \cup unread, r, version[r])
    \/ Asked(Left, r) \/ Ahead(r)

\* The cap leaves out the rest of the conversations.
Complete ==
    \/ pc \in {"walk", "unit"}
    \/ pc = "done" /\ stream # "conversation_parts"

CoverInv == Complete => \A r \in Rows : tick[r] # 0 => Covered(r)

\* All rows behind x have been given, or are in the batch that will be.
Handed(x) ==
    \A r \in Rows : Behind(r, x) => Landing(r) \/ Has(held, r, version[r])

\* What the cursor of the run is told of, or will be.
Told == {observed, due} \cup (IF stream = "search" THEN {noted} ELSE {})

\* A stream that declares itself ordered tells of a tick only then.
OrderInv == stream \in Ordered => \A x \in Told : Handed(x)

SafeInv == \A r \in Rows : Behind(r, saved) => Current(r)

ExtractInv ==
    /\ ExtractType /\ ShapeInv /\ PlanInv /\ MarksInv
    /\ FreshInv /\ UnreadInv /\ CoverInv /\ OrderInv /\ SafeInv
-----------------------------------------------------------------------------
(* Where the next run starts.                                              *)

LEMMA StartIs ==
    ASSUME NEW s \in Cursored \cap Streams, NEW x \in Int
    PROVE  /\ Start(s, x) \in Int /\ Start(s, x) <= x + 1
           /\ s \in {"files", "drive"} => Start(s, x) = x + 1
           /\ s \notin {"files", "drive"} => Start(s, x) <= x
           /\ s = "items" => Start(s, x) = x
           /\ s = "profiles" => Start(s, x) = x - Lookback + 1
           /\ s \notin {"files", "drive", "items", "profiles"} =>
                  Start(s, x) = x - Lookback
  <1>1. Lookback \in Nat /\ (s = "profiles" => Lookback > 0)
    BY ExtractAssumption DEF ExtractAssumption
  <1>2. CASE s \in {"files", "drive"}
    BY <1>1, <1>2 DEF Start
  <1>3. CASE s = "items"
    BY <1>1, <1>3 DEF Start
  <1>4. CASE s = "profiles"
    BY <1>1, <1>4 DEF Start
  <1>5. CASE s \notin {"files", "drive", "items", "profiles"}
    BY <1>1, <1>5 DEF Start
  <1> QED
    BY <1>2, <1>3, <1>4, <1>5

LEMMA StartIsMonotone ==
    ASSUME NEW s \in Cursored \cap Streams, NEW x \in Int, NEW y \in Int, x <= y
    PROVE  Start(s, x) <= Start(s, y)
  <1>1. Lookback \in Nat
    BY ExtractAssumption DEF ExtractAssumption
  <1>2. CASE s \in {"files", "drive"}
    BY <1>1, <1>2, StartIs
  <1>3. CASE s = "items"
    BY <1>1, <1>3, StartIs
  <1>4. CASE s = "profiles"
    BY <1>1, <1>4, StartIs
  <1>5. CASE s \notin {"files", "drive", "items", "profiles"}
    BY <1>1, <1>5, StartIs
  <1> QED
    BY <1>2, <1>3, <1>4, <1>5

LEMMA FromIs ==
    ASSUME ExtractType, NEW x \in Int
    PROVE  /\ From(x) \in Int /\ From(x) <= x + 1
           /\ stream \in {"files", "drive"} => From(x) = x + 1
           /\ stream \notin {"files", "drive"} => From(x) <= x
           /\ stream = "items" => From(x) = x
           /\ stream = "profiles" => From(x) = x - Lookback + 1
           /\ stream \notin {"files", "drive", "items", "profiles"} =>
                  From(x) = x - Lookback
  BY StartIs DEF From, ExtractType

\* Nothing is behind a cursor that is not set.
LEMMA NothingIsBehindNone ==
    ASSUME ExtractType, NEW r \in Rows, NEW x \in Int, x <= 0
    PROVE  ~Behind(r, x)
  <1>1. From(x) \in Int /\ From(x) <= x + 1 /\ tick[r] \in Nat
    BY FromIs DEF ExtractType
  <1> QED
    BY <1>1 DEF Behind

-----------------------------------------------------------------------------
(* Plans.                                                                  *)

LEMMA UnitOfAll ==
    ASSUME NEW first \in Int, NEW last \in Int
    PROVE  Unit(Parts, first, last, 0) \in Units
  BY DEF Unit, Units

LEMMA UnitOfOne ==
    ASSUME NEW k \in 1 .. Cardinality(Parts), NEW first \in Int,
           NEW last \in Int, NEW closes \in Int
    PROVE  Unit({Nth(k)}, first, last, closes) \in Units
  BY DEF Unit, Units

LEMMA PartIsListed ==
    ASSUME ExtractType, NEW r \in Rows
    PROVE  part[r] \in Parts /\ tick[r] \in Nat
  BY ExtractAssumption DEF ExtractAssumption, ExtractType

\* Windows over all parts.
LEMMA WindowsAreSound ==
    ASSUME ExtractType, ~Open, NEW first \in Int, NEW last \in Int,
           NEW now \in Nat, last <= now, From(now) <= last + 1,
           now <= last + 1, stream \in CompleteDays \/ now <= last,
           first <= 1 \/ first <= From(saved)
    PROVE  SoundPlan(Windows(first, last), now)
  <1> DEFINE s == Spans(first, last)
             w == Windows(first, last)
  <1>1. /\ s \in Seq(Bounds)
        /\ \A i \in DOMAIN s : s[i].last <= last
        /\ \A i, j \in DOMAIN s : i < j => s[i].last < s[j].first
    BY SpansAre
  <1>2. w = [i \in DOMAIN s |-> Unit(Parts, s[i].first, s[i].last, 0)]
    BY DEF Windows
  <1>3. \A t \in first .. last :
            \E i \in DOMAIN s : t \in s[i].first .. s[i].last
    BY SpansCover
  <1> HIDE DEF s, w
  <1>4. Len(s) \in Nat /\ DOMAIN s = 1 .. Len(s) /\ s \in [1 .. Len(s) -> Bounds]
    BY <1>1, LenProperties
  <1>5. ASSUME NEW i \in DOMAIN s
        PROVE  /\ w[i] = Unit(Parts, s[i].first, s[i].last, 0) /\ w[i] \in Units
               /\ s[i].first \in Int /\ s[i].last \in Int
    <2>1. s[i] \in Bounds
      BY <1>4, <1>5
    <2> QED
      BY <1>2, <2>1, UnitOfAll DEF Bounds
  <1>6. w \in Seq(Units) /\ DOMAIN w = DOMAIN s
    <2>1. w \in [1 .. Len(s) -> Units] /\ DOMAIN w = DOMAIN s
      BY <1>2, <1>4, <1>5
    <2> QED
      BY <1>4, <2>1, SeqDef
  <1>7. EndBy(w, now)
    BY <1>1, <1>5, <1>6 DEF Unit, EndBy
  <1>8. Sorted(w)
    BY <1>1, <1>5, <1>6 DEF Unit, Sorted
  <1>9. ASSUME NEW r \in Rows, tick[r] # 0
        PROVE  Behind(r, saved) \/ Asked(w, r) \/ Later(r, now)
    <2>1. part[r] \in Parts /\ tick[r] \in Nat /\ saved \in Int
      BY PartIsListed DEF ExtractType
    <2>2. From(now) \in Int /\ From(saved) \in Int
      BY <2>1, FromIs
    <2>3. CASE tick[r] < first
      BY <1>9, <2>1, <2>2, <2>3 DEF Behind
    <2>4. CASE tick[r] \in first .. last
      <3>1. PICK i \in DOMAIN s : tick[r] \in s[i].first .. s[i].last
        BY <1>3, <2>4
      <3> QED
        BY <1>5, <1>6, <2>1, <3>1 DEF Asked, Covers, Within, Unit
    <2>5. CASE last < tick[r]
      BY <2>1, <2>2, <2>5 DEF Later
    <2> QED
      BY <2>1, <2>3, <2>4, <2>5
  <1> QED
    BY <1>6, <1>7, <1>8, <1>9 DEF SoundPlan, w

\* One unit a tick, over all parts.
Daily(units, base, now) ==
    /\ units = [i \in 1 .. now - base |-> units[i]]
    /\ \A i \in 1 .. now - base : units[i] = Unit(Parts, base + i, base + i, 0)

LEMMA DaysAreSound ==
    ASSUME ExtractType, ~Open, NEW base \in Int, NEW now \in Nat, base <= now,
           From(now) <= now + 1, base < 1 \/ base < From(saved),
           NEW units, Daily(units, base, now)
    PROVE  SoundPlan(units, now)
  <1>1. now - base \in Nat
    OBVIOUS
  <1>2. ASSUME NEW i \in 1 .. now - base
        PROVE  /\ units[i] \in Units /\ base + i \in Int /\ base + i <= now
               /\ units[i] = Unit(Parts, base + i, base + i, 0)
    BY <1>1, UnitOfAll DEF Daily
  <1>3. units \in Seq(Units) /\ DOMAIN units = 1 .. now - base
    <2> DEFINE n == now - base
    <2>1. DOMAIN units = 1 .. n /\ units = [i \in 1 .. n |-> units[i]]
      BY <1>1 DEF Daily
    <2>2. \A i \in 1 .. n : units[i] \in Units
      BY <1>2
    <2> HIDE DEF n
    <2>3. units \in [1 .. n -> Units]
      BY <2>1, <2>2
    <2> QED
      BY <1>1, <2>1, <2>3, SeqDef DEF n
  <1>4. EndBy(units, now)
    BY <1>2, <1>3 DEF Unit, EndBy
  <1>5. Sorted(units)
    BY <1>2, <1>3 DEF Unit, Sorted
  <1>6. ASSUME NEW r \in Rows, tick[r] # 0
        PROVE  Behind(r, saved) \/ Asked(units, r) \/ Later(r, now)
    <2>1. part[r] \in Parts /\ tick[r] \in Nat /\ saved \in Int
      BY PartIsListed DEF ExtractType
    <2>2. From(now) \in Int /\ From(saved) \in Int
      BY <2>1, FromIs
    <2>3. CASE tick[r] <= base
      BY <1>6, <2>1, <2>2, <2>3 DEF Behind
    <2>4. CASE base < tick[r] /\ tick[r] <= now
      <3>1. tick[r] - base \in 1 .. now - base /\ base + (tick[r] - base) = tick[r]
        BY <2>1, <2>4
      <3>2. units[tick[r] - base] = Unit(Parts, tick[r], tick[r], 0)
        BY <1>2, <3>1
      <3>3. Within(units[tick[r] - base], part[r], tick[r])
        BY <2>1, <3>2 DEF Within, Unit
      <3> QED
        BY <1>3, <3>1, <3>3 DEF Asked, Covers
    <2>5. CASE now < tick[r]
      BY <2>1, <2>2, <2>5 DEF Later
    <2> QED
      BY <2>1, <2>3, <2>4, <2>5
  <1> QED
    BY <1>3, <1>4, <1>5, <1>6 DEF SoundPlan

\* A single unit without an upper end.
LEMMA SingleIsSound ==
    ASSUME ExtractType, Open, NEW first \in Int, NEW now \in Nat,
           first <= 1 \/ first <= From(saved)
    PROVE  SoundPlan(<<Unit(Parts, first, Horizon, 0)>>, now)
  <1> DEFINE u == Unit(Parts, first, Horizon, 0)
  <1>1. Horizon \in Nat
    BY ExtractAssumption DEF ExtractAssumption
  <1>2. u \in Units /\ u.parts = Parts /\ u.first = first /\ u.last = Horizon
    BY <1>1, UnitOfAll DEF Unit
  <1>3. stream \notin InOrder
    BY DEF Open, InOrder
  <1>4. ASSUME NEW r \in Rows, NEW t \in 1 .. Horizon, From(saved) <= t
        PROVE  Within(u, part[r], t)
    <2>1. part[r] \in Parts /\ saved \in Int
      BY PartIsListed DEF ExtractType
    <2>2. From(saved) \in Int
      BY <2>1, FromIs
    <2> QED
      BY <1>1, <1>2, <1>4, <2>1, <2>2 DEF Within
  <1> HIDE DEF u
  <1>5. <<u>> \in Seq(Units) /\ Len(<<u>>) = 1 /\ 1 \in DOMAIN <<u>> /\ <<u>>[1] = u
    BY <1>2
  <1>6. AsksFrom(<<u>>, From(saved))
    BY <1>4, <1>5 DEF AsksFrom, Covers
  <1> QED
    BY <1>3, <1>5, <1>6 DEF SoundPlan, u

\* Every part is asked for every tick from first to last.
Grid(units, first, last) ==
    \A k \in 1 .. Cardinality(Parts), t \in first .. last :
        \E i \in DOMAIN units :
            units[i].parts = {Nth(k)} /\ t \in units[i].first .. units[i].last

\* Part by part, in any order with the windows.
LEMMA GridIsSound ==
    ASSUME ExtractType, ~Open, stream \notin InOrder,
           NEW first \in Int, NEW last \in Int, NEW now \in Nat,
           From(now) <= last + 1, now <= last + 1,
           stream \in CompleteDays \/ now <= last,
           first <= 1 \/ first <= From(saved),
           NEW units \in Seq(Units), EndBy(units, now), Grid(units, first, last)
    PROVE  SoundPlan(units, now)
  <1>1. ASSUME NEW r \in Rows, tick[r] # 0
        PROVE  Behind(r, saved) \/ Asked(units, r) \/ Later(r, now)
    <2>1. part[r] \in Parts /\ tick[r] \in Nat /\ saved \in Int
      BY PartIsListed DEF ExtractType
    <2>2. From(now) \in Int /\ From(saved) \in Int
      BY <2>1, FromIs
    <2>3. CASE tick[r] < first
      BY <1>1, <2>1, <2>2, <2>3 DEF Behind
    <2>4. CASE tick[r] \in first .. last
      <3>1. PICK k \in 1 .. Cardinality(Parts) : Nth(k) = part[r]
        BY <2>1, NthIsEach
      <3>2. PICK i \in DOMAIN units :
                /\ units[i].parts = {Nth(k)}
                /\ tick[r] \in units[i].first .. units[i].last
        BY <2>4 DEF Grid
      <3> QED
        BY <3>1, <3>2 DEF Asked, Covers, Within
    <2>5. CASE last < tick[r]
      BY <2>1, <2>2, <2>5 DEF Later
    <2> QED
      BY <2>1, <2>3, <2>4, <2>5
  <1> QED
    BY <1>1 DEF SoundPlan

LEMMA PartsAreFinite == Cardinality(Parts) \in Nat \ {0}
  <1>1. PICK p \in Parts : TRUE
    BY ExtractAssumption DEF ExtractAssumption
  <1> QED
    BY <1>1, NthIsEach

\* One unit a part.
LEMMA PartsAreSound ==
    ASSUME ExtractType, ~Open, stream \notin InOrder,
           NEW first \in Int, NEW last \in Int, NEW now \in Nat, last <= now,
           From(now) <= last + 1, now <= last + 1,
           stream \in CompleteDays \/ now <= last,
           first <= 1 \/ first <= From(saved),
           NEW units,
           units = [i \in 1 .. Cardinality(Parts) |->
                       Unit({Nth(i)}, first, last, 0)]
    PROVE  SoundPlan(units, now)
  <1> DEFINE n == Cardinality(Parts)
  <1>1. n \in Nat
    BY PartsAreFinite
  <1>2. ASSUME NEW i \in 1 .. n
        PROVE  units[i] \in Units /\ units[i] = Unit({Nth(i)}, first, last, 0)
    BY <1>2, UnitOfOne
  <1>3. DOMAIN units = 1 .. n /\ units = [i \in 1 .. n |-> units[i]]
    OBVIOUS
  <1> HIDE DEF n
  <1>4. units \in [1 .. n -> Units]
    BY <1>2, <1>3
  <1>5. units \in Seq(Units)
    BY <1>1, <1>4, SeqDef
  <1>6. EndBy(units, now)
    BY <1>2, <1>3 DEF Unit, EndBy
  <1>7. Grid(units, first, last)
    BY <1>2, <1>3 DEF Unit, Grid, n
  <1> QED
    BY <1>5, <1>6, <1>7, GridIsSound

\* The numbers from 1 to n * m, as pairs.
LEMMA GridIndex ==
    ASSUME NEW n \in Nat \ {0}, NEW m \in Nat
    PROVE  /\ n * m \in Nat
           /\ \A i \in 1 .. n * m :
                  (i - 1) \div n + 1 \in 1 .. m /\ ((i - 1) % n) + 1 \in 1 .. n
           /\ \A k \in 1 .. n, w \in 1 .. m : \E i \in 1 .. n * m :
                  (i - 1) \div n + 1 = w /\ ((i - 1) % n) + 1 = k
  <1>1. n * m \in Nat /\ n * m = m * n
    OBVIOUS
  <1>2. ASSUME NEW i \in 1 .. n * m
        PROVE  (i - 1) \div n + 1 \in 1 .. m /\ ((i - 1) % n) + 1 \in 1 .. n
    <2> DEFINE q == (i - 1) \div n
    <2>1. i - 1 \in Nat /\ i - 1 < m * n /\ n \in Int /\ n > 0
      BY <1>1
    <2>2. q \in Int /\ q * n \in Int /\ q * n <= i - 1 /\ i - 1 < q * n + n
      BY <2>1, Quotient
    <2>3. (i - 1) % n \in 0 .. n - 1
      BY <2>1
    <2> HIDE DEF q
    <2>4. q < m
      <3>1. SUFFICES ASSUME m <= q PROVE FALSE
        BY <2>2
      <3>2. m * n <= q * n
        BY <2>2, <3>1, TimesMonotone
      <3> QED
        BY <1>1, <2>1, <2>2, <3>2
    <2>5. 0 <= q
      <3>1. SUFFICES ASSUME q + 1 <= 0 PROVE FALSE
        BY <2>2
      <3>2. (q + 1) * n <= 0 * n
        BY <2>2, <3>1, TimesMonotone
      <3>3. (q + 1) * n = q * n + n /\ 0 * n = 0
        BY <2>2
      <3> QED
        BY <2>1, <2>2, <3>2, <3>3
    <2>6. q + 1 \in 1 .. m
      BY <2>2, <2>4, <2>5
    <2> QED
      BY <2>3, <2>6 DEF q
  <1>3. ASSUME NEW k \in 1 .. n, NEW w \in 1 .. m
        PROVE  \E i \in 1 .. n * m :
                   (i - 1) \div n + 1 = w /\ ((i - 1) % n) + 1 = k
    <2> DEFINE x == (w - 1) * n + (k - 1)
    <2>1. w - 1 \in Int /\ k - 1 \in 0 .. n - 1 /\ 0 <= w - 1 /\ w - 1 <= m - 1
          /\ m - 1 \in Int
      OBVIOUS
    <2>2. x \div n = w - 1 /\ x % n = k - 1
      BY <2>1, Remainder
    <2>3. (w - 1) * n \in Int /\ 0 * n <= (w - 1) * n /\ (w - 1) * n <= (m - 1) * n
      BY <2>1, TimesMonotone
    <2>4. (m - 1) * n = m * n - n /\ 0 * n = 0
      OBVIOUS
    <2>5. x \in Int /\ 0 <= x /\ x < n * m
      BY <1>1, <2>1, <2>3, <2>4
    <2> HIDE DEF x
    <2>6. x + 1 \in 1 .. n * m /\ (x + 1) - 1 = x
      BY <1>1, <2>5
    <2> QED
      BY <2>1, <2>2, <2>6
  <1> QED
    BY <1>1, <1>2, <1>3

LEMMA StartValueIs ==
    ASSUME ExtractType
    PROVE  /\ StartValue \in Int /\ Lookback \in Nat /\ saved \in Nat
           /\ saved = 0 => StartValue = 0
           /\ stream \notin EngineLooksBack => StartValue = saved
           /\ saved # 0 /\ stream \in EngineLooksBack =>
                  StartValue = saved - Lookback
  BY ExtractAssumption DEF ExtractAssumption, ExtractType, StartValue

\* Windows outside, accounts inside.
LEMMA MetaIsSound ==
    ASSUME ExtractType, stream = "insights", NEW now \in Nat
    PROVE  SoundPlan(MetaPlan(now), now)
  <1> DEFINE first == IF StartValue = 0 THEN 1 ELSE Larger(StartValue - Lookback, 1)
             s == Spans(first, now)
             n == Cardinality(Parts)
             m == Len(s)
             units == MetaPlan(now)
             W(i) == (i - 1) \div n + 1
             K(i) == ((i - 1) % n) + 1
  <1>1. ~Open /\ stream \notin InOrder /\ stream \notin EngineLooksBack
    BY DEF Open, InOrder, EngineLooksBack
  <1>2. first \in Int /\ (first <= 1 \/ first <= From(saved))
    BY <1>1, StartValueIs, FromIs DEF Larger
  <1>3. units = [i \in 1 .. n * m |->
                    Unit({Nth(K(i))}, s[W(i)].first, s[W(i)].last,
                         IF K(i) = n THEN s[W(i)].last ELSE 0)]
    BY DEF MetaPlan
  <1>4. n \in Nat \ {0}
    BY PartsAreFinite
  <1>5. s \in Seq(Bounds) /\ \A i \in DOMAIN s : s[i].last <= now
    BY <1>2, SpansAre
  <1>6. \A t \in first .. now : \E i \in DOMAIN s : t \in s[i].first .. s[i].last
    BY <1>2, SpansCover
  <1> HIDE DEF s, first, units, n
  <1>7. m \in Nat /\ DOMAIN s = 1 .. m /\ s \in [1 .. m -> Bounds]
    BY <1>5, LenProperties
  <1> HIDE DEF m
  <1>8. /\ n * m \in Nat
        /\ \A i \in 1 .. n * m : W(i) \in 1 .. m /\ K(i) \in 1 .. n
        /\ \A k \in 1 .. n, w \in 1 .. m : \E i \in 1 .. n * m : W(i) = w /\ K(i) = k
    BY <1>4, <1>7, GridIndex
  <1> HIDE DEF W, K
  <1>9. ASSUME NEW i \in 1 .. n * m
        PROVE  /\ units[i] \in Units
               /\ units[i].parts = {Nth(K(i))}
               /\ units[i].first = s[W(i)].first /\ units[i].last = s[W(i)].last
               /\ units[i].last <= now /\ units[i].closes <= now
    <2>1. W(i) \in 1 .. m /\ K(i) \in 1 .. Cardinality(Parts)
      BY <1>8 DEF n
    <2>2. s[W(i)] \in Bounds /\ s[W(i)].last <= now
      BY <1>5, <1>7, <2>1
    <2>3. s[W(i)].first \in Int /\ s[W(i)].last \in Int
      BY <2>2 DEF Bounds
    <2>4. (IF K(i) = n THEN s[W(i)].last ELSE 0) \in Int
          /\ (IF K(i) = n THEN s[W(i)].last ELSE 0) <= now
      BY <2>2, <2>3
    <2>5. units[i] = Unit({Nth(K(i))}, s[W(i)].first, s[W(i)].last,
                          IF K(i) = n THEN s[W(i)].last ELSE 0)
      BY <1>3
    <2> QED
      BY <2>1, <2>2, <2>3, <2>4, <2>5, UnitOfOne DEF Unit
  <1>10. DOMAIN units = 1 .. n * m /\ units \in [1 .. n * m -> Units]
    BY <1>3, <1>9
  <1>11. units \in Seq(Units)
    BY <1>8, <1>10, SeqDef
  <1>12. EndBy(units, now)
    BY <1>9, <1>10 DEF EndBy
  <1>13. Grid(units, first, now)
    <2> SUFFICES ASSUME NEW k \in 1 .. n, NEW t \in first .. now
                 PROVE  \E i \in DOMAIN units : /\ units[i].parts = {Nth(k)}
                                                /\ t \in units[i].first .. units[i].last
      BY DEF Grid, n
    <2>1. PICK w \in 1 .. m : t \in s[w].first .. s[w].last
      BY <1>6, <1>7
    <2>2. PICK i \in 1 .. n * m : W(i) = w /\ K(i) = k
      BY <1>8
    <2> QED
      BY <1>9, <1>10, <2>1, <2>2
  <1>14. From(now) <= now + 1
    BY FromIs
  <1> QED
    BY <1>1, <1>2, <1>11, <1>12, <1>13, <1>14, GridIsSound DEF units

\* Agencies outside, windows inside.
LEMMA SingularIsSound ==
    ASSUME ExtractType, stream = "singular", NEW now \in Nat \ {0}
    PROVE  SoundPlan(SingularPlan(now), now)
  <1> DEFINE first == IF StartValue = 0 THEN 1 ELSE Larger(StartValue - Lookback, 1)
             last == SingularEnd(now)
             s == Spans(first, last)
             n == Cardinality(Parts)
             m == Len(s)
             units == SingularPlan(now)
             K(i) == (i - 1) \div m + 1
             W(i) == ((i - 1) % m) + 1
  <1>1. ~Open /\ stream \notin InOrder /\ stream \notin EngineLooksBack
    BY DEF Open, InOrder, EngineLooksBack
  <1>2. first \in Int /\ (first <= 1 \/ first <= From(saved))
    BY <1>1, StartValueIs, FromIs DEF Larger
  <1>3. units = [i \in 1 .. n * m |->
                    Unit({Nth(K(i))}, s[W(i)].first, s[W(i)].last, 0)]
    BY DEF SingularPlan
  <1>4. n \in Nat
    BY PartsAreFinite
  <1>5. last \in Int /\ last <= now /\ From(now) <= last + 1 /\ now <= last + 1
    BY FromIs DEF SingularEnd
  <1>6. s \in Seq(Bounds) /\ \A i \in DOMAIN s : s[i].last <= last
    BY <1>2, <1>5, SpansAre
  <1>7. \A t \in first .. last : \E i \in DOMAIN s : t \in s[i].first .. s[i].last
    BY <1>2, <1>5, SpansCover
  <1> HIDE DEF s, first, units, n, last
  <1>8. m \in Nat /\ DOMAIN s = 1 .. m /\ s \in [1 .. m -> Bounds]
    BY <1>6, LenProperties
  <1> HIDE DEF m
  <1>9. /\ n * m \in Nat
        /\ \A i \in 1 .. n * m : K(i) \in 1 .. n /\ W(i) \in 1 .. m
        /\ \A w \in 1 .. m, k \in 1 .. n : \E i \in 1 .. n * m : K(i) = k /\ W(i) = w
    <2>1. n * m = m * n /\ n * m \in Nat
      BY <1>4, <1>8
    <2>2. CASE m = 0
      <3>1. n * m = 0
        BY <1>4, <2>2
      <3> QED
        BY <2>2, <3>1
    <2>3. CASE m # 0
      <3>1. m \in Nat \ {0}
        BY <1>8, <2>3
      <3>2. /\ \A i \in 1 .. m * n : K(i) \in 1 .. n /\ W(i) \in 1 .. m
            /\ \A w \in 1 .. m, k \in 1 .. n :
                   \E i \in 1 .. m * n : K(i) = k /\ W(i) = w
        BY <1>4, <3>1, GridIndex
      <3> HIDE DEF W, K
      <3> QED
        BY <2>1, <3>2
    <2> QED
      BY <2>2, <2>3
  <1> HIDE DEF W, K
  <1>10. ASSUME NEW i \in 1 .. n * m
         PROVE  /\ units[i] \in Units
                /\ units[i].parts = {Nth(K(i))}
                /\ units[i].first = s[W(i)].first /\ units[i].last = s[W(i)].last
                /\ units[i].last <= now /\ units[i].closes <= now
    <2>1. W(i) \in 1 .. m /\ K(i) \in 1 .. Cardinality(Parts)
      BY <1>9 DEF n
    <2>2. s[W(i)] \in Bounds /\ s[W(i)].last <= last
      BY <1>6, <1>8, <2>1
    <2>3. s[W(i)].first \in Int /\ s[W(i)].last \in Int
      BY <2>2 DEF Bounds
    <2>4. units[i] = Unit({Nth(K(i))}, s[W(i)].first, s[W(i)].last, 0)
      BY <1>3
    <2>5. s[W(i)].last <= now
      BY <1>5, <2>2, <2>3
    <2> QED
      BY <2>1, <2>3, <2>4, <2>5, UnitOfOne DEF Unit
  <1>11. DOMAIN units = 1 .. n * m /\ units \in [1 .. n * m -> Units]
    BY <1>3, <1>10
  <1>12. units \in Seq(Units)
    BY <1>9, <1>11, SeqDef
  <1>13. EndBy(units, now)
    BY <1>10, <1>11 DEF EndBy
  <1>14. Grid(units, first, last)
    <2> SUFFICES ASSUME NEW k \in 1 .. n, NEW t \in first .. last
                 PROVE  \E i \in DOMAIN units : /\ units[i].parts = {Nth(k)}
                                                /\ t \in units[i].first .. units[i].last
      BY DEF Grid, n
    <2>1. PICK w \in 1 .. m : t \in s[w].first .. s[w].last
      BY <1>7, <1>8
    <2>2. PICK i \in 1 .. n * m : W(i) = w /\ K(i) = k
      BY <1>9
    <2> QED
      BY <1>10, <1>11, <2>1, <2>2
  <1> QED
    BY <1>1, <1>2, <1>5, <1>12, <1>13, <1>14, GridIsSound DEF units, CompleteDays

\* What each connector plans is sound, whatever its cursor is.
LEMMA PlanIsSound ==
    ASSUME ExtractType, NEW now \in Nat \ {0}, saved <= now
    PROVE  SoundPlan(Plan(now), now)
  <1>1. /\ StartValue \in Int /\ Lookback \in Nat /\ saved \in Nat
        /\ saved = 0 => StartValue = 0
        /\ stream \notin EngineLooksBack => StartValue = saved
        /\ saved # 0 /\ stream \in EngineLooksBack =>
               StartValue = saved - Lookback
    BY StartValueIs
  <1>2. /\ From(now) \in Int /\ From(now) <= now + 1
        /\ stream \notin {"files", "drive"} => From(now) <= (now - 1) + 1
        /\ From(saved) \in Int
        /\ stream \in {"files", "drive"} => From(saved) = saved + 1
        /\ stream = "items" => From(saved) = saved
        /\ stream = "profiles" => From(saved) = saved - Lookback + 1
        /\ stream \notin {"files", "drive", "items", "profiles"} =>
               From(saved) = saved - Lookback
    BY <1>1, FromIs
  <1>3. CASE stream = "chargebacks"
    <2>1. stream \notin EngineLooksBack
      BY <1>3 DEF EngineLooksBack
    <2>2. CASE saved = 0
      <3>1. Open /\ Plan(now) = <<Unit(Parts, 0, Horizon, 0)>>
        BY <1>1, <1>3, <2>2 DEF Open, Plan, ChargebacksPlan
      <3> QED
        BY <3>1, SingleIsSound
    <2>3. CASE saved # 0
      <3> DEFINE first == Smaller(saved - Lookback, now)
      <3>1. ~Open /\ Plan(now) = Windows(first, now)
        BY <1>1, <1>3, <2>1, <2>3 DEF Open, Plan, ChargebacksPlan
      <3>2. first \in Int /\ first <= From(saved)
        BY <1>1, <1>2, <1>3 DEF Smaller
      <3> QED
        BY <1>2, <3>1, <3>2, WindowsAreSound
    <2> QED
      BY <2>2, <2>3
  <1>4. CASE stream = "konnektive"
    <2> DEFINE first == Smaller(KonnektiveFirstDay, now)
    <2>1. ~Open /\ Plan(now) = Windows(first, now)
      BY <1>4 DEF Open, Plan, KonnektivePlan
    <2>2. first \in Int /\ (first <= 1 \/ first <= From(saved))
      BY <1>1, <1>2, <1>4 DEF Smaller, KonnektiveFirstDay, EngineLooksBack
    <2> QED
      BY <1>2, <2>1, <2>2, WindowsAreSound
  <1>5. CASE stream = "summary"
    <2> DEFINE first == Smaller(KonnektiveFirstDay, now)
               base == first - 1
               units == Plan(now)
    <2>1. first \in Int /\ (first <= 1 \/ first <= From(saved)) /\ first <= now
      BY <1>1, <1>2, <1>5 DEF Smaller, KonnektiveFirstDay, EngineLooksBack
    <2>2. ~Open /\ units = SummaryPlan(now) /\ From(now) <= now + 1
      BY <1>2, <1>5 DEF Open, Plan
    <2>3. units = [i \in 1 .. now - first + 1 |->
                      Unit(Parts, first + i - 1, first + i - 1, 0)]
      BY <2>2 DEF SummaryPlan
    <2> HIDE DEF first, units
    <2>4. now - first + 1 = now - base /\ base \in Int /\ base <= now
          /\ (base < 1 \/ base < From(saved))
      BY <1>2, <2>1
    <2>5. \A i \in 1 .. now - base : first + i - 1 = base + i
      BY <2>1
    <2>6. Daily(units, base, now)
      BY <2>3, <2>4, <2>5 DEF Daily
    <2> HIDE DEF base
    <2>7. base \in Int /\ base <= now /\ (base < 1 \/ base < From(saved))
      BY <2>4
    <2>8. SoundPlan(units, now)
      BY <2>2, <2>6, <2>7, DaysAreSound
    <2> QED
      BY <2>8 DEF units
  <1>6. CASE stream \in {"search", "conversation_parts"}
    <2>1. ~Open /\ Plan(now) = Windows(StartValue, now)
      BY <1>6 DEF Open, Plan, IntercomPlan
    <2>2. StartValue <= 1 \/ StartValue <= From(saved)
      BY <1>1, <1>2, <1>6 DEF EngineLooksBack
    <2> QED
      BY <1>1, <1>2, <2>1, <2>2, WindowsAreSound
  <1>7. CASE stream = "insights"
    BY <1>7, MetaIsSound DEF Plan
  <1>8. CASE stream = "singular"
    BY <1>8, SingularIsSound DEF Plan
  <1>9. CASE stream = "gaql"
    <2> DEFINE first == GadsSince(now)
    <2>1. ~Open /\ stream \notin InOrder /\ Plan(now) = GadsPlan(now)
      BY <1>9 DEF Open, InOrder, Plan
    <2>2. first \in Int /\ (first <= 1 \/ first <= From(saved))
      BY <1>1, <1>2, <1>9 DEF GadsSince, Smaller, EngineLooksBack
    <2>3. Plan(now) = [i \in 1 .. Cardinality(Parts) |->
                          Unit({Nth(i)}, first, now, 0)]
      BY <2>1 DEF GadsPlan
    <2>4. From(now) <= now + 1 /\ now \in Int /\ now <= now /\ now <= now + 1
      BY <1>2
    <2> HIDE DEF first
    <2> QED
      BY <2>1, <2>2, <2>3, <2>4, PartsAreSound
  <1>10. CASE stream \in {"stripe", "sigma", "items"}
    <2>1. Open /\ Plan(now) = <<Unit(Parts, StartValue, Horizon, 0)>>
      BY <1>10 DEF Open, Plan, StripePlan, SigmaPlan, ItemsPlan
    <2>2. StartValue <= 1 \/ StartValue <= From(saved)
      BY <1>1, <1>2, <1>10 DEF EngineLooksBack
    <2> QED
      BY <1>1, <2>1, <2>2, SingleIsSound
  <1>11. CASE stream = "shiphero"
    <2>1. ~Open /\ Plan(now) = Windows(ShipHeroStart, now - 1)
      BY <1>11 DEF Open, Plan, ShipHeroPlan
    <2>2. ShipHeroStart \in Int
          /\ (ShipHeroStart <= 1 \/ ShipHeroStart <= From(saved))
      BY <1>1, <1>2, <1>11 DEF ShipHeroStart, EngineLooksBack
    <2>3. From(now) <= (now - 1) + 1 /\ now <= (now - 1) + 1
      BY <1>2, <1>11
    <2>4. stream \in CompleteDays
      BY <1>11 DEF CompleteDays
    <2> QED
      BY <2>1, <2>2, <2>3, <2>4, WindowsAreSound
  <1>12. CASE stream = "events"
    <2>1. ~Open /\ stream \notin InOrder /\ Plan(now) = EventsPlan(now)
      BY <1>12 DEF Open, InOrder, Plan
    <2>2. StartValue <= 1 \/ StartValue <= From(saved)
      BY <1>1, <1>2, <1>12 DEF EngineLooksBack
    <2>3. Plan(now) = [i \in 1 .. Cardinality(Parts) |->
                          Unit({Nth(i)}, StartValue, now - 1, 0)]
      BY <2>1 DEF EventsPlan
    <2>4. /\ From(now) <= (now - 1) + 1 /\ now <= (now - 1) + 1
          /\ now - 1 \in Int /\ now - 1 <= now
      BY <1>2, <1>12
    <2>5. stream \in CompleteDays
      BY <1>12 DEF CompleteDays
    <2> QED
      BY <1>1, <2>1, <2>2, <2>3, <2>4, <2>5, PartsAreSound
  <1>13. CASE stream = "profiles"
    <2>1. Open /\ Plan(now) = <<Unit(Parts, StartValue + 1, Horizon, 0)>>
      BY <1>13 DEF Open, Plan, ProfilesPlan
    <2>2. StartValue + 1 \in Int
          /\ (StartValue + 1 <= 1 \/ StartValue + 1 <= From(saved))
      BY <1>1, <1>2, <1>13 DEF EngineLooksBack
    <2> QED
      BY <2>1, <2>2, SingleIsSound
  <1>14. CASE stream \in {"files", "drive"}
    <2> DEFINE units == Plan(now)
    <2>1. ~Open /\ StartValue = saved
      BY <1>1, <1>14 DEF Open, EngineLooksBack
    <2>2. units = [i \in 1 .. now - saved |->
                      Unit(Parts, saved + i, saved + i, 0)]
      BY <1>14, <2>1 DEF Plan, FilesPlan, DrivePlan
    <2> HIDE DEF units
    <2>3. Daily(units, saved, now)
      BY <2>2 DEF Daily
    <2>4. saved \in Int /\ saved < From(saved)
      BY <1>1, <1>2, <1>14
    <2>5. SoundPlan(units, now)
      BY <1>2, <2>1, <2>3, <2>4, DaysAreSound
    <2> QED
      BY <2>5 DEF units
  <1> QED
    BY <1>3, <1>4, <1>5, <1>6, <1>7, <1>8, <1>9, <1>10, <1>11, <1>12, <1>13,
       <1>14 DEF ExtractType, Cursored
-----------------------------------------------------------------------------
(* What the steps of a run leave as it is.                                 *)

\* The service rests.
Calm == UNCHANGED <<stream, today, tick, part, version>>

\* The run may come to persist nothing later than it might have before.
MarksStay == \A x \in Marks' : \E y \in Marks : x <= y

\* Every row that was still to be fetched still is.
LeftStays == \A r \in Rows : Asked(Left, r) => Asked(Left, r)'

LEMMA MarksAreTicks == ExtractType => Marks \subseteq Int
  BY DEF ExtractType, Marks, Records

LEMMA MarksAreTicksNext == ExtractType' => Marks' \subseteq Int
  BY DEF ExtractType, Marks, Records

LEMMA FromStays ==
    ASSUME stream' = stream, NEW x
    PROVE  From(x)' = From(x)
  BY DEF From

LEMMA DropsStay ==
    ASSUME stream' = stream, NEW r
    PROVE  Drops(r)' <=> Drops(r)
  BY DEF Drops, MetaDrops, SingularDrops, IntercomDrops, KlaviyoDrops

LEMMA BehindStays ==
    ASSUME Calm, NEW r, NEW x
    PROVE  Behind(r, x)' <=> Behind(r, x)
  BY FromStays DEF Calm, Behind

LEMMA CurrentStays ==
    ASSUME stream' = stream, landed' = landed, NEW r, version'[r] = version[r]
    PROVE  Current(r)' <=> Current(r)
  BY DropsStay DEF Current

LEMMA LandingStays ==
    ASSUME stream' = stream, landed' = landed, given \subseteq given',
           NEW r, version'[r] = version[r], Landing(r)
    PROVE  Landing(r)'
  BY CurrentStays DEF Landing, Has

LEMMA MarksAreBounded ==
    ASSUME ExtractType, ExtractType', MarksStay, NEW b \in Int,
           \A x \in Marks : x <= b
    PROVE  \A x \in Marks' : x <= b
  BY MarksAreTicks, MarksAreTicksNext DEF MarksStay

LEMMA AheadStays ==
    ASSUME ExtractType, ExtractType', stream' = stream, MarksStay,
           NEW r \in Rows, tick'[r] = tick[r], Ahead(r)
    PROVE  Ahead(r)'
  <1>1. SUFFICES ASSUME NEW x \in Marks'
                 PROVE  From(x) <= tick[r]
    BY FromStays DEF Ahead
  <1>2. PICK y \in Marks : x <= y
    BY DEF MarksStay
  <1>3. x \in Int /\ y \in Int /\ tick[r] \in Int
    BY MarksAreTicks, MarksAreTicksNext DEF ExtractType
  <1>4. From(x) <= From(y) /\ From(y) <= tick[r]
    BY <1>2, <1>3, StartIsMonotone DEF From, Ahead, ExtractType
  <1>5. From(x) \in Int /\ From(y) \in Int
    BY <1>3, FromIs
  <1> QED
    BY <1>3, <1>4, <1>5

\* A row that is ahead is behind no tick that may be persisted.
LEMMA AheadIsNotBehind ==
    ASSUME ExtractType, NEW r \in Rows, Ahead(r), NEW x \in Int,
           NEW y \in Marks, x <= y
    PROVE  ~Behind(r, x)
  <1>1. y \in Int /\ tick[r] \in Int
    BY MarksAreTicks DEF ExtractType
  <1>2. From(x) <= From(y) /\ From(y) <= tick[r]
    BY <1>1, StartIsMonotone DEF From, Ahead, ExtractType
  <1>3. From(x) \in Int /\ From(y) \in Int
    BY <1>1, FromIs
  <1> QED
    BY <1>1, <1>2, <1>3 DEF Behind

LEMMA SafeRests ==
    ASSUME SafeInv, Calm, UNCHANGED <<saved, landed>>
    PROVE  SafeInv'
  BY BehindStays, CurrentStays DEF SafeInv, Calm

LEMMA FreshRests ==
    ASSUME ExtractType, ExtractType', FreshInv, Calm, MarksStay,
           (unread \cup held \cup given)' \subseteq unread \cup held \cup given
    PROVE  FreshInv'
  <1>1. SUFFICES ASSUME NEW rec \in (unread \cup held \cup given)'
                 PROVE  rec.version = version[rec.row] \/ Ahead(rec.row)'
    BY DEF FreshInv, Calm
  <1>2. rec \in unread \cup held \cup given /\ rec.row \in Rows
    BY DEF ExtractType, Records
  <1>3. CASE Ahead(rec.row)
    BY <1>2, <1>3, AheadStays DEF Calm
  <1> QED
    BY <1>2, <1>3 DEF FreshInv

LEMMA CoverRests ==
    ASSUME ExtractType, ExtractType', CoverInv, Complete, Calm,
           landed' = landed, MarksStay, LeftStays, given \subseteq given',
           held \cup unread \subseteq (held \cup unread \cup given)'
    PROVE  CoverInv'
  <1>1. SUFFICES ASSUME NEW r \in Rows, tick[r] # 0
                 PROVE  Covered(r)'
    BY DEF CoverInv, Calm
  <1>2. CASE Landing(r)
    BY <1>2, LandingStays DEF Covered, Calm
  <1>3. CASE Has(held \cup unread, r, version[r])
    BY <1>3 DEF Has, Covered, Landing, Calm
  <1>4. CASE Asked(Left, r)
    BY <1>4 DEF LeftStays, Covered
  <1>5. CASE Ahead(r)
    BY <1>5, AheadStays DEF Covered, Calm
  <1> QED
    BY <1>1, <1>2, <1>3, <1>4, <1>5 DEF CoverInv, Covered

LEMMA NoneIsHanded ==
    ASSUME ExtractType, NEW x \in Int, x <= 0
    PROVE  Handed(x)
  BY NothingIsBehindNone DEF Handed

LEMMA HandedStays ==
    ASSUME Calm, landed' = landed, given \subseteq given',
           held \subseteq (held \cup given)', NEW x, Handed(x)
    PROVE  Handed(x)'
  <1>1. SUFFICES ASSUME NEW r \in Rows, Behind(r, x)
                 PROVE  Landing(r)' \/ Has(held, r, version[r])'
    BY BehindStays DEF Handed
  <1>2. CASE Landing(r)
    BY <1>2, LandingStays DEF Calm
  <1>3. CASE Has(held, r, version[r])
    BY <1>3 DEF Has, Landing, Calm
  <1> QED
    BY <1>1, <1>2, <1>3 DEF Handed
-----------------------------------------------------------------------------
(* What has been handed over.                                              *)

LEMMA PlanHead ==
    ASSUME plan \in Seq(Units), plan # <<>>
    PROVE  /\ Head(plan) = plan[1] /\ 1 \in DOMAIN plan /\ Head(plan) \in Units
           /\ Head(plan).last \in Int /\ Head(plan).closes \in Int
           /\ Tail(plan) \in Seq(Units) /\ Len(plan) \in Nat \ {0}
           /\ DOMAIN plan = 1 .. Len(plan) /\ DOMAIN Tail(plan) = 1 .. Len(plan) - 1
           /\ \A i \in DOMAIN Tail(plan) :
                  i + 1 \in DOMAIN plan /\ Tail(plan)[i] = plan[i + 1]
           /\ \A i \in DOMAIN plan : plan[i] \in Units
  <1>1. plan \in Seq(Units) /\ Len(plan) \in Nat /\ DOMAIN plan = 1 .. Len(plan)
    BY LenProperties
  <1>2. Len(plan) # 0
    BY <1>1, EmptySeq
  <1>3. Head(plan) = plan[1] /\ 1 \in DOMAIN plan
    BY <1>1, <1>2
  <1>4. \A i \in DOMAIN plan : plan[i] \in Units
    BY <1>1, ElementOfSeq
  <1>5. Tail(plan) \in Seq(Units) /\ Len(Tail(plan)) = Len(plan) - 1
        /\ \A i \in 1 .. Len(Tail(plan)) : Tail(plan)[i] = plan[i + 1]
    BY <1>1, <1>2, HeadTailProperties
  <1>6. DOMAIN Tail(plan) = 1 .. Len(plan) - 1
    BY <1>5, LenProperties
  <1> QED
    <2>1. Head(plan) \in Units
      BY <1>3, <1>4
    <2>2. Head(plan).last \in Int /\ Head(plan).closes \in Int
      BY <2>1 DEF Units
    <2> QED
      BY <1>1, <1>2, <1>3, <1>4, <1>5, <1>6, <2>1, <2>2

\* Units to come ask for nothing behind a tick of the unit under way.
LEMMA BeforeHead ==
    ASSUME ExtractType, ShapeInv, PlanInv, plan # <<>>,
           stream \in InOrder \/ Open, NEW r \in Rows, NEW x \in Int,
           x <= Head(plan).last, Asked(Tail(plan), r)
    PROVE  ~Behind(r, x)
  <1>1. PICK i \in DOMAIN Tail(plan) : Within(Tail(plan)[i], part[r], tick[r])
    BY DEF Asked, Covers
  <1>2. /\ 1 \in DOMAIN plan /\ i + 1 \in DOMAIN plan /\ i \in 1 .. Len(plan) - 1
        /\ Len(plan) \in Nat /\ Tail(plan)[i] = plan[i + 1]
        /\ plan[i + 1] \in Units /\ Head(plan) = plan[1]
        /\ Head(plan).last \in Int
    BY PlanHead DEF ExtractType
  <1>3. stream \in InOrder
    BY <1>2 DEF ShapeInv
  <1>4. plan[1].last < plan[i + 1].first
    BY <1>2, <1>3 DEF PlanInv, Sorted
  <1>5. plan[i + 1].first <= tick[r] /\ plan[i + 1].first \in Int
    BY <1>1, <1>2 DEF Within, Units
  <1>6. From(x) \in Int /\ From(x) <= x + 1 /\ tick[r] \in Nat
    BY FromIs DEF ExtractType
  <1> QED
    BY <1>2, <1>4, <1>5, <1>6 DEF Behind

\* A unit that has been gone through is behind the cursor as a whole.
LEMMA UpToHead ==
    ASSUME ExtractInv, pc = "unit", unread = {}, stream \in InOrder,
           NEW x \in Int, x <= Head(plan).last
    PROVE  Handed(x)
  <1> USE DEF ExtractInv
  <1>1. SUFFICES ASSUME NEW r \in Rows, Behind(r, x)
                 PROVE  Landing(r) \/ Has(held, r, version[r])
    BY DEF Handed
  <1>2. Covered(r) /\ plan # <<>> /\ Left = Tail(plan)
    BY <1>1 DEF CoverInv, Complete, Behind, ShapeInv, Left
  <1>3. ~Asked(Left, r)
    BY <1>1, <1>2, BeforeHead
  <1>4. x <= ranOn /\ ranOn \in Marks
    <2>1. ~Open
      BY DEF Open, InOrder
    <2>2. Head(plan).last <= ranOn /\ Head(plan).last \in Int
      BY <1>2, <2>1, PlanHead DEF PlanInv, EndBy, ExtractType
    <2> QED
      BY <2>2 DEF Marks, ExtractType
  <1>5. ~Ahead(r)
    BY <1>1, <1>4, AheadIsNotBehind
  <1> QED
    BY <1>2, <1>3, <1>5 DEF Covered

\* Rows that come oldest first: those before the next are in the batch.
LEMMA UpToRow ==
    ASSUME ExtractInv, pc = "unit", NEW rec \in unread,
           \A other \in unread : Comes(rec, other),
           stream \in {"profiles", "conversation_parts"}
    PROVE  Handed(rec.tick)
  <1> USE DEF ExtractInv
  <1>1. SUFFICES ASSUME NEW r \in Rows, Behind(r, rec.tick)
                 PROVE  Landing(r) \/ Has(held, r, version[r])
    BY DEF Handed
  <1>2. Covered(r) /\ plan # <<>> /\ Left = Tail(plan)
    BY <1>1 DEF CoverInv, Complete, Behind, ShapeInv, Left
  <1>3. rec.tick \in Int /\ rec.tick <= Head(plan).last /\ tick[r] \in Int
        /\ rec.tick \in Marks
    BY DEF ExtractType, Records, UnreadInv, Marks
  <1>4. ~Asked(Left, r)
    <2>1. stream \in InOrder \/ Open
      BY DEF InOrder, Open
    <2> QED
      BY <1>1, <1>2, <1>3, <2>1, BeforeHead
  <1>5. ~Ahead(r)
    BY <1>1, <1>3, AheadIsNotBehind
  <1>6. ASSUME NEW other \in unread, other.row = r
        PROVE  FALSE
    <2>1. other.tick = tick[r]
      BY <1>6 DEF UnreadInv
    <2>2. rec.tick <= other.tick
      BY DEF Comes
    <2>3. From(rec.tick) <= rec.tick /\ From(rec.tick) \in Int
      BY <1>3, FromIs
    <2> QED
      BY <1>1, <1>3, <2>1, <2>2, <2>3 DEF Behind
  <1> QED
    BY <1>2, <1>4, <1>5, <1>6 DEF Covered, Has
-----------------------------------------------------------------------------
(* The service.                                                            *)

LEMMA StartsSafe == Init /\ stream \in Cursored => ExtractInv
  <1> SUFFICES ASSUME Init, stream \in Cursored
               PROVE  ExtractInv
    OBVIOUS
  <1>1. Horizon \in Nat
    BY ExtractAssumption DEF ExtractAssumption
  <1>2. ExtractType
    BY <1>1 DEF Init, ExtractType, Larger
  <1>3. \A x : x \in Marks => x = 0
    BY DEF Init, Marks
  <1>4. ShapeInv /\ PlanInv
    BY DEF Init, ShapeInv, PlanInv, Sorted, EndBy
  <1>5. MarksInv
    BY <1>2, <1>3 DEF Init, MarksInv
  <1>6. FreshInv /\ UnreadInv /\ CoverInv
    BY DEF Init, FreshInv, UnreadInv, CoverInv, Complete
  <1>7. OrderInv
    <2>1. \A x \in Told : Handed(x)
      BY <1>2, NoneIsHanded DEF Init, Told
    <2> QED
      BY <2>1 DEF OrderInv
  <1>8. SafeInv
    BY <1>2, NothingIsBehindNone DEF Init, SafeInv
  <1> QED
    BY <1>2, <1>4, <1>5, <1>6, <1>7, <1>8 DEF ExtractInv

LEMMA TickKeeps ==
    ASSUME ExtractInv, Tick
    PROVE  ExtractInv'
  <1> USE DEF ExtractInv, Tick, tableVars, walkVars, yieldVars
  <1>1. Horizon \in Nat
    BY ExtractAssumption DEF ExtractAssumption
  <1>2. ExtractType'
    BY <1>1 DEF ExtractType, Larger
  <1>3. Marks' = Marks
    BY DEF Marks
  <1>4. Open' <=> Open
    BY DEF Open
  <1>5. \A x : From(x)' = From(x)
    BY FromStays
  <1>6. ShapeInv'
    BY <1>4 DEF ShapeInv
  <1>7. PlanInv'
    BY <1>4, <1>5 DEF PlanInv, AsksFrom
  <1>8. MarksInv'
    <2>1. \A x \in Marks' : x <= today'
      BY <1>3, MarksAreTicks DEF MarksInv, ExtractType
    <2> QED
      BY <1>3, <1>4, <2>1 DEF MarksInv
  <1>9. \A r : (Ahead(r)' <=> Ahead(r)) /\ (Landing(r)' <=> Landing(r))
    BY <1>3, <1>5, CurrentStays DEF Ahead, Landing
  <1>10. FreshInv' /\ UnreadInv'
    BY <1>9 DEF FreshInv, UnreadInv
  <1>11. CoverInv'
    BY <1>9 DEF CoverInv, Complete, Covered, Left, Asked
  <1>12. \A r, x : Behind(r, x)' <=> Behind(r, x)
    BY <1>5 DEF Behind
  <1>13. OrderInv'
    <2>1. \A x : Handed(x)' <=> Handed(x)
      BY <1>9, <1>12 DEF Handed
    <2> QED
      BY <2>1 DEF OrderInv, Told
  <1>14. SafeInv'
    BY <1>12, CurrentStays DEF SafeInv
  <1> QED
    BY <1>2, <1>6, <1>7, <1>8, <1>10, <1>11, <1>13, <1>14

\* A row that changes is asked for by the next run, whatever this one saves.
LEMMA ChangeIsAhead ==
    ASSUME ExtractInv, NEW q \in Rows, NEW t \in 1 .. Horizon, Change(q, t),
           NEW x \in Marks
    PROVE  From(x) <= t
  <1>1. /\ Lookback \in Nat /\ Lag \in Nat /\ Lag <= Lookback
        /\ stream = "profiles" => Lookback > 0
    BY ExtractAssumption DEF ExtractAssumption, ExtractInv, ExtractType
  <1>2. x \in Int /\ today \in Int /\ ranOn \in Int /\ t \in Int
    BY MarksAreTicks DEF ExtractInv, ExtractType
  <1>3. x <= today
    BY DEF ExtractInv, MarksInv
  <1>4. /\ From(x) \in Int
        /\ stream \in {"files", "drive"} => From(x) = x + 1
        /\ stream = "items" => From(x) = x
        /\ stream = "profiles" => From(x) = x - Lookback + 1
        /\ stream \notin {"files", "drive", "items", "profiles"} =>
               From(x) = x - Lookback
    BY <1>2, FromIs DEF ExtractInv
  <1>5. CASE stream \in {"files", "drive"}
    <2>1. x <= ranOn /\ ranOn < t
      BY <1>2, <1>5 DEF ExtractInv, MarksInv, Change
    <2> QED
      BY <1>2, <1>4, <1>5, <2>1
  <1>6. CASE stream \notin {"files", "drive"}
    <2>1. Earliest \in Int /\ Earliest <= t
      BY <1>1, <1>2 DEF Change, Earliest, Larger
    <2>2. CASE stream = "items"
      <3>1. Earliest = today
        BY <2>2 DEF Earliest, LookingBack
      <3> QED
        BY <1>2, <1>3, <1>4, <2>1, <2>2, <3>1
    <2>3. CASE stream = "profiles"
      <3>1. Lookback > 0 /\ From(x) = x - Lookback + 1
        BY <1>1, <1>4, <2>3
      <3>2. CASE Lag > 0
        <4>1. Earliest = today - Lag + 1
          BY <2>3, <3>2 DEF Earliest, LookingBack, Cursored
        <4> QED
          BY <1>1, <1>2, <1>3, <2>1, <3>1, <4>1
      <3>3. CASE ~(Lag > 0)
        <4>1. Earliest = today - Lag
          BY <2>3, <3>3 DEF Earliest, LookingBack, Cursored
        <4> QED
          BY <1>1, <1>2, <1>3, <2>1, <3>1, <3>3, <4>1
      <3> QED
        BY <3>2, <3>3
    <2>4. CASE stream \notin {"items", "profiles"}
      <3>1. Earliest = today - Lag
        BY <1>6, <2>4 DEF Earliest, LookingBack, ExtractInv, ExtractType
      <3> QED
        BY <1>1, <1>2, <1>3, <1>4, <1>6, <2>1, <2>4, <3>1
    <2> QED
      BY <2>2, <2>3, <2>4
  <1> QED
    BY <1>5, <1>6

LEMMA ChangeKeeps ==
    ASSUME ExtractInv, NEW q \in Rows, NEW t \in 1 .. Horizon, Change(q, t)
    PROVE  ExtractInv'
  <1> USE DEF ExtractInv
  <1>1. /\ UNCHANGED <<stream, today, part, saved, landed, kills, pc, ranOn,
                       plan, unread, held, walked, noted, observed, due,
                       atYield, given, shown>>
        /\ tick' = [tick EXCEPT ![q] = t]
        /\ version' = [version EXCEPT ![q] = @ + 1]
        /\ pc \in {"idle", "walk"}
        /\ t <= today /\ t < Horizon /\ t \in Nat
    <2>1. today \in Int /\ Horizon \in Int
      BY ExtractAssumption DEF ExtractAssumption, ExtractType
    <2> QED
      BY <2>1 DEF Change, Looked, tableVars, walkVars, yieldVars, Smaller
  <1>2. ExtractType'
    <2>1. tick \in [Rows -> Nat] /\ version \in [Rows -> Nat] /\ today \in Nat
          /\ Horizon \in Nat
      BY ExtractAssumption DEF ExtractAssumption, ExtractType
    <2>2. tick' \in [Rows -> Nat] /\ version' \in [Rows -> Nat]
      <3>1. tick' \in [Rows -> Nat]
        BY <1>1, <2>1
      <3>2. version[q] + 1 \in Nat
        BY <2>1
      <3> QED
        BY <1>1, <2>1, <3>1, <3>2
    <2>3. \A r \in Rows : tick'[r] <= today /\ (tick'[r] # 0 => tick'[r] < Horizon)
      BY <1>1, <2>1 DEF ExtractType
    <2> QED
      BY <1>1, <2>2, <2>3 DEF ExtractType
  <1>3. Marks' = Marks /\ unread = {} /\ unread' = {}
    BY <1>1 DEF Marks, ShapeInv
  <1>4. MarksStay
    <2>1. \A x \in Marks : x <= x
      BY MarksAreTicks
    <2> QED
      BY <1>3, <2>1 DEF MarksStay
  <1>5. Ahead(q)'
    BY <1>1, <1>2, <1>3, ChangeIsAhead, FromStays DEF Ahead, ExtractType
  <1>6. ASSUME NEW r \in Rows, r # q
        PROVE  tick'[r] = tick[r] /\ version'[r] = version[r]
    BY <1>1, <1>6 DEF ExtractType
  <1>7. Open' <=> Open
    BY <1>1 DEF Open
  <1>8. ShapeInv'
    BY <1>1, <1>7 DEF ShapeInv
  <1>9. PlanInv'
    BY <1>1, <1>7, FromStays DEF PlanInv, AsksFrom
  <1>10. MarksInv'
    BY <1>1, <1>3, <1>7 DEF MarksInv
  <1>11. FreshInv'
    <2>1. SUFFICES ASSUME NEW rec \in unread \cup held \cup given
                   PROVE  rec.version = version'[rec.row] \/ Ahead(rec.row)'
      BY <1>1 DEF FreshInv
    <2>2. rec.row \in Rows
      BY DEF ExtractType, Records
    <2>3. CASE rec.row = q
      BY <1>5, <2>3
    <2>4. CASE rec.row # q
      BY <1>1, <1>2, <1>4, <1>6, <2>2, <2>4, AheadStays DEF FreshInv
    <2> QED
      BY <2>3, <2>4
  <1>12. UnreadInv'
    BY <1>3 DEF UnreadInv
  <1>13. CoverInv'
    <2>1. SUFFICES ASSUME Complete, NEW r \in Rows, tick'[r] # 0
                   PROVE  Covered(r)'
      BY <1>1 DEF CoverInv, Complete
    <2>2. CASE r = q
      BY <1>5, <2>2 DEF Covered
    <2>3. CASE r # q
      <3>1. Covered(r) /\ tick'[r] = tick[r] /\ version'[r] = version[r]
        BY <1>6, <2>1, <2>3 DEF CoverInv
      <3>2. CASE Landing(r)
        BY <1>1, <3>1, <3>2, LandingStays DEF Covered
      <3>3. CASE Has(held \cup unread, r, version[r])
        BY <1>1, <3>1, <3>3 DEF Covered
      <3>4. CASE Asked(Left, r)
        BY <1>1, <3>1, <3>4 DEF Covered, Asked, Left
      <3>5. CASE Ahead(r)
        BY <1>1, <1>2, <1>4, <3>1, <3>5, AheadStays DEF Covered
      <3> QED
        BY <3>1, <3>2, <3>3, <3>4, <3>5 DEF Covered
    <2> QED
      BY <2>2, <2>3
  <1>14. ASSUME NEW x \in Marks
         PROVE  ~Behind(q, x)'
    <2>1. x \in Marks' /\ x \in Int /\ From(x)' = From(x)
      BY <1>1, <1>3, MarksAreTicks, FromStays
    <2>2. From(x) \in Int /\ tick'[q] \in Int /\ From(x) <= tick'[q]
      BY <1>2, <1>5, <2>1, FromIs DEF Ahead, ExtractType
    <2> QED
      BY <2>1, <2>2 DEF Behind
  <1>15. OrderInv'
    <2>1. SUFFICES ASSUME stream \in Ordered, NEW x \in Told, NEW r \in Rows,
                          Behind(r, x)'
                   PROVE  Landing(r)' \/ Has(held, r, version'[r])
      BY <1>1 DEF OrderInv, Told, Handed
    <2>2. x \in Marks
      BY DEF Told, Marks, Counts
    <2>3. r # q /\ tick'[r] = tick[r] /\ version'[r] = version[r]
      BY <1>6, <1>14, <2>1, <2>2
    <2>4. Behind(r, x)
      BY <1>1, <2>1, <2>3, FromStays DEF Behind
    <2>5. Landing(r) \/ Has(held, r, version[r])
      BY <2>1, <2>4 DEF OrderInv, Handed
    <2> QED
      BY <1>1, <2>3, <2>5, LandingStays
  <1>16. SafeInv'
    <2>1. SUFFICES ASSUME NEW r \in Rows, Behind(r, saved)'
                   PROVE  Current(r)'
      BY <1>1 DEF SafeInv
    <2>2. saved \in Marks
      BY DEF Marks
    <2>3. r # q /\ tick'[r] = tick[r] /\ version'[r] = version[r]
      BY <1>1, <1>6, <1>14, <2>1, <2>2
    <2> QED
      BY <1>1, <2>1, <2>3, CurrentStays, FromStays DEF SafeInv, Behind
  <1> QED
    BY <1>2, <1>8, <1>9, <1>10, <1>11, <1>12, <1>13, <1>15, <1>16
-----------------------------------------------------------------------------
(* The walk.                                                               *)

LEMMA BeginKeeps ==
    ASSUME ExtractInv, Begin
    PROVE  ExtractInv'
  <1> USE DEF ExtractInv
  <1>1. /\ Calm /\ UNCHANGED <<saved, landed, unread, held, due, atYield, given>>
        /\ pc = "idle" /\ pc' = "walk" /\ ranOn' = today /\ plan' = Plan(today)
        /\ noted' = 0 /\ observed' = 0
    BY DEF Begin, Calm, serviceVars, tableVars
  <1>2. /\ observed = 0 /\ due = 0 /\ noted = 0 /\ given = {} /\ ~atYield
        /\ unread = {} /\ held = {}
    BY <1>1 DEF ShapeInv
  <1>3. today \in Nat \ {0} /\ saved \in Nat /\ saved <= today
    BY DEF ExtractType, MarksInv, Marks
  <1>4. SoundPlan(Plan(today), today)
    BY <1>3, PlanIsSound
  <1>5. ExtractType'
    BY <1>1, <1>2, <1>3, <1>4 DEF ExtractType, SoundPlan, Calm
  <1>6. Open' <=> Open
    BY <1>1 DEF Open, Calm
  <1>7. ShapeInv'
    BY <1>1, <1>2, <1>4, <1>6 DEF ShapeInv, SoundPlan
  <1>8. From(saved)' = From(saved)
    BY <1>1 DEF From, Calm
  <1>9. PlanInv'
    <2>1. pc' # "idle" /\ ~Open' => EndBy(plan', ranOn')
      BY <1>1, <1>4, <1>6 DEF SoundPlan
    <2>2. stream' \in InOrder => Sorted(plan')
      BY <1>1, <1>4 DEF SoundPlan, Calm
    <2>3. Open' => AsksFrom(plan, From(saved))'
      BY <1>1, <1>4, <1>6, <1>8 DEF SoundPlan, AsksFrom, Calm
    <2> QED
      BY <2>1, <2>2, <2>3 DEF PlanInv
  <1>10. \A x \in Marks' : x = 0 \/ x = saved \/ x = today
    BY <1>1, <1>2 DEF Marks
  <1>11. MarksInv'
    <2>1. \A x \in Marks' : x <= today
      BY <1>3, <1>10
    <2>2. today' = today /\ ranOn' = today /\ noted' = 0
      BY <1>1 DEF Calm
    <2> QED
      BY <2>1, <2>2 DEF MarksInv
  <1>12. FreshInv' /\ UnreadInv'
    BY <1>1, <1>2 DEF FreshInv, UnreadInv
  <1>13. CoverInv'
    <2>1. SUFFICES ASSUME NEW r \in Rows, tick[r] # 0
                   PROVE  Covered(r)'
      BY <1>1 DEF CoverInv, Calm
    <2>2. Left' = Plan(today)
      BY <1>1 DEF Left
    <2>3. part[r] \in Parts /\ tick[r] \in Nat /\ Horizon \in Nat
      BY PartIsListed, ExtractAssumption DEF ExtractAssumption
    <2>4. CASE Behind(r, saved)
      <3>1. Current(r)'
        BY <1>1, <2>4, CurrentStays DEF SafeInv, Calm
      <3> QED
        BY <3>1 DEF Covered, Landing
    <2>5. CASE Asked(Plan(today), r)
      BY <1>1, <2>2, <2>5 DEF Covered, Asked, Calm
    <2>6. CASE Open /\ ~Behind(r, saved)
      <3>1. From(saved) <= tick[r] /\ tick[r] \in 1 .. Horizon
        <4>1. From(saved) \in Int /\ saved \in Int
          BY <1>3, FromIs
        <4>2. tick[r] < Horizon
          BY <2>1 DEF ExtractType
        <4> QED
          BY <2>1, <2>3, <2>6, <4>1, <4>2 DEF Behind
      <3>2. Covers(Plan(today), part[r], tick[r])
        BY <1>4, <2>6, <3>1 DEF SoundPlan, AsksFrom
      <3> QED
        BY <2>5, <3>2 DEF Asked
    <2>7. CASE Later(r, today)
      <3>1. SUFFICES ASSUME NEW x \in Marks'
                     PROVE  From(x) <= tick[r]
        BY <1>1, FromStays DEF Covered, Ahead, Calm
      <3>2. x \in Int /\ today \in Int /\ x <= today
        BY <1>3, <1>10
      <3>3. From(x) <= From(today)
        BY <3>2, StartIsMonotone DEF From, ExtractType
      <3>4. From(x) \in Int /\ From(today) \in Int /\ From(today) <= tick[r]
        BY <2>7, <3>2, FromIs DEF Later
      <3> QED
        BY <2>3, <3>3, <3>4
    <2> QED
      BY <1>4, <2>1, <2>4, <2>5, <2>6, <2>7 DEF SoundPlan
  <1>14. OrderInv'
    <2>1. ASSUME NEW x \in Told'
          PROVE  Handed(x)'
      <3>1. x = 0
        BY <1>1, <1>2 DEF Told
      <3>2. Handed(0)
        BY NoneIsHanded
      <3> QED
        BY <1>1, <3>1, <3>2, HandedStays
    <2> QED
      BY <2>1 DEF OrderInv
  <1>15. SafeInv'
    BY <1>1, SafeRests
  <1> QED
    BY <1>5, <1>7, <1>9, <1>11, <1>12, <1>13, <1>14, <1>15

LEMMA AnswerIs ==
    ASSUME ExtractType, plan # <<>>, NEW rec \in Answer(Head(plan))
    PROVE  /\ rec \in Records
           /\ rec.version = version[rec.row] /\ rec.tick = tick[rec.row]
           /\ rec.tick \in Head(plan).first .. Head(plan).last
  <1>1. PICK r \in Rows :
            /\ rec = [row |-> r, tick |-> tick[r], version |-> version[r]]
            /\ tick[r] \in Head(plan).first .. Head(plan).last
    BY DEF Answer
  <1>2. tick[r] \in Nat /\ version[r] \in Nat
    BY DEF ExtractType
  <1> QED
    BY <1>1, <1>2 DEF Records

\* A row asked for by the unit is in the answer, unless it is left out.
LEMMA AnswerHas ==
    ASSUME NEW unit, NEW r \in Rows, tick[r] # 0, Within(unit, part[r], tick[r])
    PROVE  Drops(r) \/ Has(Answer(unit), r, version[r])
  <1> DEFINE rec == [row |-> r, tick |-> tick[r], version |-> version[r]]
  <1>1. rec.row = r /\ rec.version = version[r]
    OBVIOUS
  <1>2. ~Drops(r) => rec \in Answer(unit)
    BY DEF Answer, Within
  <1> QED
    BY <1>1, <1>2 DEF Has

\* What the plan asks for is in the answer to its first unit, or still to come.
LEMMA FetchedOrLeft ==
    ASSUME plan \in Seq(Units), plan # <<>>, NEW r \in Rows, tick[r] # 0,
           Asked(plan, r)
    PROVE  \/ Drops(r) \/ Has(Answer(Head(plan)), r, version[r])
           \/ Asked(Tail(plan), r)
  <1>1. PICK i \in DOMAIN plan : Within(plan[i], part[r], tick[r])
    BY DEF Asked, Covers
  <1>2. /\ Head(plan) = plan[1] /\ Len(plan) \in Nat \ {0}
        /\ DOMAIN plan = 1 .. Len(plan) /\ DOMAIN Tail(plan) = 1 .. Len(plan) - 1
        /\ \A k \in DOMAIN Tail(plan) : Tail(plan)[k] = plan[k + 1]
    BY PlanHead
  <1>3. CASE i = 1
    BY <1>1, <1>2, <1>3, AnswerHas
  <1>4. CASE i # 1
    <2>1. i - 1 \in DOMAIN Tail(plan) /\ (i - 1) + 1 = i
      BY <1>1, <1>2, <1>4
    <2>2. Tail(plan)[i - 1] = plan[i]
      BY <1>2, <2>1
    <2> QED
      BY <1>1, <2>1, <2>2 DEF Asked, Covers
  <1> QED
    BY <1>3, <1>4

LEMMA FetchKeeps ==
    ASSUME ExtractInv, Fetch
    PROVE  ExtractInv'
  <1> USE DEF ExtractInv
  <1>1. /\ Calm /\ UNCHANGED <<saved, landed, plan, ranOn, held, observed, due,
                               atYield, given>>
        /\ pc = "walk" /\ pc' = "unit" /\ ~atYield /\ plan # <<>>
        /\ unread' = Answer(Head(plan))
        /\ stream \notin Counts => noted' = noted
    BY DEF Fetch, Calm, serviceVars, tableVars, yieldVars, Counts
  <1>2. unread = {}
    BY <1>1 DEF ShapeInv
  <1>3. /\ Head(plan) = plan[1] /\ 1 \in DOMAIN plan /\ Head(plan).last \in Int
        /\ Tail(plan) \in Seq(Units)
    BY <1>1, PlanHead DEF ExtractType
  <1>4. ExtractType'
    <2>1. unread' \subseteq Records
      BY <1>1, AnswerIs
    <2> QED
      BY <1>1, <2>1 DEF ExtractType, Calm
  <1>5. Open' <=> Open
    BY <1>1 DEF Open, Calm
  <1>6. ShapeInv'
    BY <1>1, <1>5 DEF ShapeInv
  <1>7. PlanInv'
    BY <1>1, <1>5 DEF PlanInv, Calm
  <1>8. \A x \in Marks' : x \in Marks \/ \E rec \in Answer(Head(plan)) : x = rec.tick
    BY <1>1 DEF Marks, Calm
  <1>9. ASSUME ~Open
        PROVE  MarksStay
    <2>1. SUFFICES ASSUME NEW x \in Marks'
                   PROVE  \E y \in Marks : x <= y
      BY DEF MarksStay
    <2>2. CASE x \in Marks
      <3>1. x <= x
        BY <2>2, MarksAreTicks
      <3> QED
        BY <2>2, <3>1
    <2>3. CASE \E rec \in Answer(Head(plan)) : x = rec.tick
      <3>1. x <= Head(plan).last /\ x \in Int
        BY <1>1, <2>3, AnswerIs DEF Records
      <3>2. Head(plan).last <= ranOn /\ ranOn \in Int /\ ranOn \in Marks
        BY <1>1, <1>3, <1>9 DEF PlanInv, EndBy, ExtractType, Marks
      <3> QED
        BY <1>3, <3>1, <3>2
    <2> QED
      BY <1>8, <2>2, <2>3
  <1>10. MarksInv'
    <2>1. \A x \in Marks' : x <= today
      <3>1. ASSUME NEW rec \in Answer(Head(plan))
            PROVE  rec.tick <= today
        BY <1>1, AnswerIs DEF ExtractType, Records
      <3> QED
        BY <1>8, <3>1 DEF MarksInv
    <2>2. ~Open' \/ stream' \in {"files", "drive"} => \A x \in Marks' : x <= ranOn'
      <3>1. stream \in {"files", "drive"} => ~Open
        BY DEF Open
      <3>2. ranOn \in Int
        BY DEF ExtractType
      <3>3. ~Open => \A x \in Marks : x <= ranOn
        BY <1>1 DEF MarksInv
      <3>4. ~Open => \A x \in Marks' : x <= ranOn
        BY <1>4, <1>9, <3>2, <3>3, MarksAreBounded
      <3> QED
        BY <1>1, <1>5, <3>1, <3>4 DEF Calm
    <2>3. stream' = "konnektive" => ~(noted' > 0)
      BY <1>1 DEF MarksInv, Calm, Counts
    <2> QED
      BY <1>1, <2>1, <2>2, <2>3 DEF MarksInv, Calm
  <1>11. UnreadInv'
    <2>1. Head(plan)' = Head(plan) /\ version' = version /\ tick' = tick
      BY <1>1 DEF Calm
    <2>2. ASSUME NEW rec \in Answer(Head(plan))
          PROVE  /\ rec.version = version[rec.row] /\ rec.tick = tick[rec.row]
                 /\ rec.tick <= Head(plan).last
      BY <1>1, <1>3, AnswerIs DEF Records
    <2> QED
      BY <1>1, <2>1, <2>2 DEF UnreadInv
  <1>12. FreshInv'
    <2>1. SUFFICES ASSUME NEW rec \in (held \cup given \cup unread)'
                   PROVE  rec.version = version[rec.row] \/ Ahead(rec.row)'
      BY <1>1 DEF FreshInv, Calm
    <2>2. CASE rec \in unread'
      BY <1>1, <1>11, <2>2 DEF UnreadInv, Calm
    <2>3. CASE Open
      BY <1>1, <2>1, <2>2, <2>3 DEF ShapeInv
    <2>4. CASE ~Open /\ rec \in held \cup given
      <3>1. rec.row \in Rows
        BY <2>4 DEF ExtractType, Records
      <3> QED
        BY <1>1, <1>4, <1>9, <2>4, <3>1, AheadStays DEF FreshInv, Calm
    <2> QED
      BY <1>1, <2>1, <2>2, <2>3, <2>4
  <1>13. CoverInv'
    <2>1. SUFFICES ASSUME NEW r \in Rows, tick[r] # 0
                   PROVE  Covered(r)'
      BY <1>1 DEF CoverInv, Calm
    <2>2. Left = plan /\ Left' = Tail(plan)
      BY <1>1 DEF Left
    <2>3. CASE Landing(r)
      BY <1>1, <2>3, LandingStays DEF Covered, Calm
    <2>4. CASE Has(held, r, version[r])
      BY <1>1, <2>4 DEF Has, Covered, Calm
    <2>5. CASE Asked(plan, r)
      <3>1. plan \in Seq(Units)
        BY DEF ExtractType
      <3>2. CASE Drops(r)
        <4>1. Current(r)'
          BY <1>1, <3>2, DropsStay DEF Current, Calm
        <4> QED
          BY <4>1 DEF Covered, Landing
      <3>3. CASE Has(Answer(Head(plan)), r, version[r])
        BY <1>1, <3>3 DEF Has, Covered, Calm
      <3>4. CASE Asked(Tail(plan), r)
        BY <1>1, <2>2, <3>4 DEF Covered, Asked, Calm
      <3> QED
        BY <1>1, <2>1, <2>5, <3>1, <3>2, <3>3, <3>4, FetchedOrLeft
    <2>6. CASE Ahead(r)
      <3>1. CASE Open
        <4>1. saved \in Marks /\ tick[r] \in 1 .. Horizon
          BY <2>1, ExtractAssumption DEF Marks, ExtractType, ExtractAssumption
        <4>2. Asked(plan, r)
          BY <1>1, <2>6, <3>1, <4>1 DEF PlanInv, AsksFrom, Ahead, Asked
        <4> QED
          BY <2>5, <4>2
      <3>2. CASE ~Open
        BY <1>1, <1>4, <1>9, <2>6, <3>2, AheadStays DEF Covered, Calm
      <3> QED
        BY <3>1, <3>2
    <2>7. Covered(r)
      BY <1>1, <2>1 DEF CoverInv, Complete
    <2> QED
      BY <1>2, <2>2, <2>3, <2>4, <2>5, <2>6, <2>7 DEF Covered
  <1>14. OrderInv'
    <2>1. ASSUME stream \in Ordered, NEW x \in Told'
          PROVE  Handed(x)'
      <3>1. x \in Told
        BY <1>1 DEF Told, Calm, Counts
      <3>2. Handed(x)
        BY <2>1, <3>1 DEF OrderInv
      <3> QED
        BY <1>1, <3>2, HandedStays
    <2> QED
      BY <1>1, <2>1 DEF OrderInv, Calm
  <1>15. SafeInv'
    BY <1>1, SafeRests
  <1> QED
    BY <1>4, <1>6, <1>7, <1>10, <1>11, <1>12, <1>13, <1>14, <1>15

LEMMA SubsetOfMarks ==
    ASSUME ExtractType, Marks' \subseteq Marks
    PROVE  MarksStay
  <1>1. \A x \in Marks : x <= x
    BY MarksAreTicks
  <1> QED
    BY <1>1 DEF MarksStay

LEMMA MarksRest ==
    ASSUME ExtractType, ExtractType', MarksInv, Calm, MarksStay,
           ranOn' = ranOn, Open' <=> Open, pc # "idle",
           stream = "konnektive" /\ noted' > 0 =>
               pc' = "unit" /\ noted' <= Head(plan').last
    PROVE  MarksInv'
  <1>1. today \in Int /\ ranOn \in Int
    BY DEF ExtractType
  <1>2. \A x \in Marks' : x <= today
    BY <1>1, MarksAreBounded DEF MarksInv
  <1>3. ~Open \/ stream \in {"files", "drive"} => \A x \in Marks' : x <= ranOn
    <2>1. ~Open \/ stream \in {"files", "drive"} => \A x \in Marks : x <= ranOn
      BY DEF MarksInv
    <2> QED
      BY <1>1, <2>1, MarksAreBounded
  <1> QED
    BY <1>2, <1>3 DEF MarksInv, Calm

\* The two halves of a unit ask for what it asked for.
LEMMA Halves ==
    ASSUME ExtractType, MetaBisect
    PROVE  /\ plan' \in Seq(Units) /\ plan' # <<>>
           /\ \A now \in Nat : EndBy(plan, now) => EndBy(plan', now)
           /\ \A p, t : Covers(plan, p, t) => Covers(plan', p, t)
  <1> DEFINE u == Head(plan)
             middle == u.first + (u.last - u.first + 1) \div 2
             a == [u EXCEPT !.last = middle - 1, !.closes = 0]
             b == [u EXCEPT !.first = middle]
  <1>1. plan # <<>> /\ u.first < u.last /\ plan' = <<a, b>> \o Tail(plan)
    BY DEF MetaBisect
  <1>2. /\ u = plan[1] /\ 1 \in DOMAIN plan /\ u \in Units
        /\ Tail(plan) \in Seq(Units) /\ DOMAIN plan = 1 .. Len(plan)
        /\ Len(plan) \in Nat \ {0}
    BY <1>1, PlanHead DEF ExtractType
  <1>3. /\ u.first \in Int /\ u.last \in Int /\ u.closes \in Int
        /\ middle \in Int /\ middle - 1 <= u.last
    BY <1>1, <1>2 DEF Units
  <1>4. /\ a \in Units /\ b \in Units
        /\ a.parts = u.parts /\ a.first = u.first /\ a.last = middle - 1
        /\ a.closes = 0
        /\ b.parts = u.parts /\ b.first = middle /\ b.last = u.last
        /\ b.closes = u.closes
    <2> HIDE DEF middle, u
    <2>1. /\ u = [parts |-> u.parts, first |-> u.first, last |-> u.last,
                  closes |-> u.closes]
          /\ u.parts \in {Parts} \cup {{Nth(k)} : k \in 1 .. Cardinality(Parts)}
      BY <1>2 DEF Units
    <2>2. a = [parts |-> u.parts, first |-> u.first, last |-> middle - 1,
               closes |-> 0]
      <3> DEFINE c == [u EXCEPT !.last = middle - 1]
      <3>1. a = [c EXCEPT !.closes = 0]
        OBVIOUS
      <3>2. c = [parts |-> u.parts, first |-> u.first, last |-> middle - 1,
                 closes |-> u.closes]
        BY <2>1
      <3> HIDE DEF a, c
      <3> QED
        BY <3>1, <3>2
    <2>3. b = [parts |-> u.parts, first |-> middle, last |-> u.last,
               closes |-> u.closes]
      BY <2>1
    <2> HIDE DEF a, b
    <2>4. middle - 1 \in Int /\ middle \in Int
      BY <1>3
    <2> QED
      BY <1>3, <2>1, <2>2, <2>3, <2>4 DEF Units
  <1> HIDE DEF u, middle, a, b
  <1>5. /\ plan' \in Seq(Units) /\ DOMAIN plan' = 1 .. Len(plan) + 1
        /\ plan'[1] = a /\ plan'[2] = b
        /\ \A i \in 2 .. Len(plan) :
               i + 1 \in DOMAIN plan' /\ plan'[i + 1] = plan[i]
    <2>1. <<a, b>> \in Seq(Units) /\ Len(<<a, b>>) = 2
      BY <1>4
    <2>2. /\ plan' \in Seq(Units) /\ Len(Tail(plan)) = Len(plan) - 1
          /\ Len(plan') = Len(plan) + 1
          /\ \A i \in 1 .. Len(plan') :
                 plan'[i] = IF i <= 2 THEN <<a, b>>[i] ELSE Tail(plan)[i - 2]
      BY <1>1, <1>2, <2>1, ConcatProperties, HeadTailProperties
         DEF ExtractType
    <2>3. \A i \in 1 .. Len(plan) - 1 : Tail(plan)[i] = plan[i + 1]
      BY <1>1, HeadTailProperties, <2>2 DEF ExtractType
    <2>4. DOMAIN plan' = 1 .. Len(plan) + 1
      BY <2>2, LenProperties
    <2>5. plan'[1] = a /\ plan'[2] = b
      BY <1>2, <2>2
    <2>6. ASSUME NEW i \in 2 .. Len(plan)
          PROVE  i + 1 \in DOMAIN plan' /\ plan'[i + 1] = plan[i]
      <3>1. i + 1 \in 1 .. Len(plan') /\ ~(i + 1 <= 2) /\ (i + 1) - 2 = i - 1
            /\ i - 1 \in 1 .. Len(plan) - 1 /\ (i - 1) + 1 = i
        BY <1>2, <2>2
      <3> QED
        BY <2>2, <2>3, <2>4, <3>1
    <2> QED
      BY <2>2, <2>4, <2>5, <2>6
  <1>6. ASSUME NEW now \in Nat, EndBy(plan, now)
        PROVE  EndBy(plan', now)
    <2>1. SUFFICES ASSUME NEW i \in DOMAIN plan'
                   PROVE  plan'[i].last <= now /\ plan'[i].closes <= now
      BY DEF EndBy
    <2>2. u.last <= now /\ u.closes <= now
      BY <1>2, <1>6 DEF EndBy
    <2>3. CASE i = 1
      BY <1>3, <1>4, <1>5, <2>2, <2>3
    <2>4. CASE i = 2
      BY <1>4, <1>5, <2>2, <2>4
    <2>5. CASE i \notin {1, 2}
      <3>1. i - 1 \in 2 .. Len(plan) /\ (i - 1) + 1 = i
        BY <1>2, <1>5, <2>5
      <3>2. i - 1 \in DOMAIN plan /\ plan'[i] = plan[i - 1]
        BY <1>2, <1>5, <3>1
      <3> QED
        BY <1>6, <3>2 DEF EndBy
    <2> QED
      BY <2>3, <2>4, <2>5
  <1>7. ASSUME NEW p, NEW t, Covers(plan, p, t)
        PROVE  Covers(plan', p, t)
    <2>1. PICK i \in DOMAIN plan : Within(plan[i], p, t)
      BY <1>7 DEF Covers
    <2>2. CASE i = 1
      <3>1. p \in u.parts /\ t \in u.first .. u.last
        BY <1>2, <2>1, <2>2 DEF Within
      <3>2. Within(plan'[1], p, t) \/ Within(plan'[2], p, t)
        BY <1>3, <1>4, <1>5, <3>1 DEF Within
      <3>3. 1 \in DOMAIN plan' /\ 2 \in DOMAIN plan'
        BY <1>2, <1>5
      <3> QED
        BY <3>2, <3>3 DEF Covers
    <2>3. CASE i # 1
      <3>1. i \in 2 .. Len(plan)
        BY <1>2, <2>1, <2>3
      <3>2. i + 1 \in DOMAIN plan' /\ plan'[i + 1] = plan[i]
        BY <1>5, <3>1
      <3> QED
        BY <2>1, <3>2 DEF Covers
    <2> QED
      BY <2>2, <2>3
  <1>8. plan' # <<>>
    <2>1. 1 \in DOMAIN plan'
      BY <1>2, <1>5
    <2> QED
      BY <2>1
  <1> QED
    BY <1>5, <1>6, <1>7, <1>8

LEMMA BisectKeeps ==
    ASSUME ExtractInv, MetaBisect
    PROVE  ExtractInv'
  <1> USE DEF ExtractInv
  <1>1. /\ Calm /\ UNCHANGED <<saved, landed, ranOn, unread, held, noted,
                               observed, due, atYield, given, pc>>
        /\ stream = "insights" /\ pc = "walk" /\ plan # <<>>
    BY DEF MetaBisect, Calm, serviceVars, tableVars, yieldVars
  <1>2. ~Open /\ stream \notin InOrder /\ ~Open' /\ stream' \notin InOrder
    BY <1>1 DEF Open, InOrder, Calm
  <1>3. /\ plan' \in Seq(Units) /\ plan' # <<>>
        /\ \A now \in Nat : EndBy(plan, now) => EndBy(plan', now)
        /\ \A p, t : Covers(plan, p, t) => Covers(plan', p, t)
    BY Halves
  <1>4. ExtractType'
    BY <1>1, <1>3 DEF ExtractType, Calm
  <1>5. ShapeInv'
    BY <1>1, <1>2, <1>3 DEF ShapeInv
  <1>6. PlanInv'
    BY <1>1, <1>2, <1>3 DEF PlanInv, ExtractType
  <1>7. MarksStay
    <2>1. Marks' \subseteq Marks
      BY <1>1 DEF Marks, Calm
    <2> QED
      BY <2>1, SubsetOfMarks
  <1>8. MarksInv'
    BY <1>1, <1>2, <1>4, <1>7, MarksRest
  <1>9. FreshInv' /\ UnreadInv'
    <2>1. unread' = {} /\ unread = {}
      BY <1>1 DEF ShapeInv
    <2> QED
      BY <1>1, <1>4, <1>7, <2>1, FreshRests DEF UnreadInv
  <1>10. CoverInv'
    <2>1. LeftStays
      BY <1>1, <1>3 DEF LeftStays, Left, Asked, Calm
    <2> QED
      BY <1>1, <1>4, <1>7, <2>1, CoverRests DEF Complete
  <1>11. OrderInv'
    BY <1>1 DEF OrderInv, Ordered, Calm
  <1>12. SafeInv'
    BY <1>1, SafeRests
  <1> QED
    BY <1>4, <1>5, <1>6, <1>8, <1>9, <1>10, <1>11, <1>12

\* A tick that is told of may not be after what a mark was before.
LEMMA OldOrNone ==
    ASSUME ExtractType, \A x \in Marks' : x \in Marks \/ x = 0
    PROVE  MarksStay
  <1>1. saved \in Marks /\ 0 <= saved
    BY DEF Marks, ExtractType
  <1>2. \A x \in Marks : x <= x
    BY MarksAreTicks
  <1> QED
    BY <1>1, <1>2 DEF MarksStay

LEMMA LargerIs ==
    ASSUME NEW a \in Nat, NEW b \in Int
    PROVE  Larger(a, b) \in Nat /\ Larger(a, b) \in {a, b}
  BY DEF Larger

LEMMA NothingNewToFetch ==
    ASSUME Calm, Left' = Left
    PROVE  LeftStays
  BY DEF LeftStays, Asked, Calm

LEMMA ReadKeeps ==
    ASSUME ExtractInv, NEW rec \in unread, NEW full \in BOOLEAN, Read(rec, full)
    PROVE  ExtractInv'
  <1> USE DEF ExtractInv
  <1>1. /\ Calm /\ UNCHANGED <<saved, landed, ranOn, plan, pc>>
        /\ pc = "unit" /\ ~atYield /\ plan # <<>>
        /\ \A other \in unread : Comes(rec, other)
        /\ unread' = unread \ {rec} /\ noted' = Notes(rec)
    BY DEF Read, Calm, serviceVars, tableVars, ShapeInv
  <1>2. \/ /\ atYield' /\ held' = {} /\ given' = given \cup (held \cup {rec})
           /\ observed' = Larger(observed, RowObserved(rec))
           /\ due' = AfterRow(rec, TRUE)
        \/ /\ ~atYield' /\ held' = held \cup {rec} /\ given' = given
           /\ observed' = Larger(Larger(observed, RowObserved(rec)),
                                 AfterRow(rec, FALSE))
           /\ due' = due
    <2>1. CASE full
      BY <2>1 DEF Read, Observe
    <2>2. CASE ~full
      BY <2>2 DEF Read, Observe
    <2> QED
      BY <2>1, <2>2
  <1>3. rec \in Records /\ rec.tick \in Nat /\ rec.tick \in Marks
    BY DEF ExtractType, Records, Marks
  <1>4. /\ RowObserved(rec) \in {0, rec.tick}
        /\ stream \in Ordered \ {"profiles"} => RowObserved(rec) = 0
    BY DEF RowObserved, Ordered
  <1>5. /\ \/ AfterRow(rec, FALSE) = 0
           \/ AfterRow(rec, FALSE) = rec.tick /\ stream = "conversation_parts"
        /\ \/ AfterRow(rec, TRUE) = 0
           \/ AfterRow(rec, TRUE) = rec.tick /\ stream = "conversation_parts"
           \/ AfterRow(rec, TRUE) = noted /\ stream = "search"
    BY DEF AfterRow, IntercomYielded
  <1>6. stream \notin Counts => /\ noted' \in {noted, rec.tick, ranOn}
                                /\ noted' \in Int /\ noted \in Int
    <2>1. noted' \in {noted, rec.tick, ranOn}
      BY <1>1 DEF Notes, ChargebacksNotes, KonnektiveNotes, SummaryNotes,
                  GadsNotes, Larger
    <2> QED
      BY <1>3, <2>1 DEF ExtractType
  <1>7. /\ observed' \in Nat /\ due' \in Int
        /\ observed' \in {observed, RowObserved(rec), AfterRow(rec, FALSE)}
        /\ due' \in {due, AfterRow(rec, TRUE)}
    <2>1. observed \in Nat /\ due \in Int /\ RowObserved(rec) \in Int
      BY <1>3, <1>4 DEF ExtractType
    <2>2. AfterRow(rec, FALSE) \in Int /\ AfterRow(rec, TRUE) \in Int
      <3>1. rec.tick \in Int /\ 0 \in Int /\ (stream = "search" => noted \in Int)
        BY <1>3, <1>6 DEF Counts
      <3>2. AfterRow(rec, FALSE) \in Int
        BY <1>5, <3>1, Zenon
      <3>3. AfterRow(rec, TRUE) \in Int
        BY <1>5, <3>1, Zenon
      <3> QED
        BY <3>2, <3>3
    <2>3. /\ Larger(observed, RowObserved(rec)) \in Nat
          /\ Larger(observed, RowObserved(rec)) \in {observed, RowObserved(rec)}
      BY <2>1, LargerIs
    <2> HIDE DEF ExtractInv
    <2>4. /\ Larger(Larger(observed, RowObserved(rec)), AfterRow(rec, FALSE)) \in Nat
          /\ Larger(Larger(observed, RowObserved(rec)), AfterRow(rec, FALSE))
                 \in {observed, RowObserved(rec), AfterRow(rec, FALSE)}
      BY <2>2, <2>3, LargerIs
    <2> QED
      BY <1>2, <2>1, <2>2, <2>3, <2>4
  <1>8. ExtractType'
    <2>1. unread' \subseteq Records /\ held' \subseteq Records
          /\ given' \subseteq Records
      BY <1>1, <1>2, <1>3 DEF ExtractType
    <2> QED
      BY <1>1, <1>6, <1>7, <2>1 DEF ExtractType, Calm
  <1>9. Open' <=> Open
    BY <1>1 DEF Open, Calm
  <1>10. ShapeInv'
    BY <1>1, <1>2, <1>9 DEF ShapeInv
  <1>11. PlanInv'
    BY <1>1, <1>9 DEF PlanInv, Calm
  <1>12. MarksStay
    <2>1. observed' \in Marks \cup {0} /\ due' \in Marks \cup {0}
      BY <1>3, <1>4, <1>5, <1>7 DEF Marks, Counts
    <2>2. stream \notin Counts => noted' \in Marks
      BY <1>3, <1>6 DEF Marks
    <2>3. \A x \in Marks' : x \in Marks \/ x = 0
      BY <1>1, <2>1, <2>2 DEF Marks, Calm
    <2> QED
      BY <2>3, OldOrNone
  <1>13. MarksInv'
    <2>1. ASSUME stream = "konnektive", noted' > 0
          PROVE  noted' <= Head(plan).last
      <3>1. noted' \in {noted, rec.tick}
        BY <1>1, <2>1 DEF Notes, KonnektiveNotes, Larger
      <3>2. rec.tick <= Head(plan).last
        BY DEF UnreadInv
      <3> QED
        BY <2>1, <3>1, <3>2 DEF MarksInv
    <2> QED
      BY <1>1, <1>8, <1>9, <1>12, <2>1, MarksRest
  <1>14. FreshInv'
    <2>1. (unread \cup held \cup given)' \subseteq unread \cup held \cup given
      BY <1>1, <1>2
    <2> QED
      BY <1>1, <1>8, <1>12, <2>1, FreshRests
  <1>15. UnreadInv'
    BY <1>1 DEF UnreadInv, Calm
  <1>16. CoverInv'
    <2>1. LeftStays
      BY <1>1, NothingNewToFetch DEF Left
    <2>2. given \subseteq given'
          /\ held \cup unread \subseteq (held \cup unread \cup given)'
      BY <1>1, <1>2
    <2> QED
      BY <1>1, <1>8, <1>12, <2>1, <2>2, CoverRests DEF Complete
  <1>17. OrderInv'
    <2>1. SUFFICES ASSUME stream \in Ordered, NEW x \in Told'
                   PROVE  Handed(x)'
      BY <1>1 DEF OrderInv, Calm
    <2>2. Handed(x)
      <3>1. \/ x \in Told \/ x = 0
            \/ x = rec.tick /\ stream \in {"profiles", "conversation_parts"}
        <4>1. observed' \in Told \cup {0}
              \/ (observed' = rec.tick
                      /\ stream \in {"profiles", "conversation_parts"})
          BY <1>4, <1>5, <1>7, <2>1 DEF Told
        <4>2. due' \in Told \cup {0}
              \/ (due' = rec.tick /\ stream = "conversation_parts")
          BY <1>5, <1>7 DEF Told
        <4>3. stream = "search" => noted' = noted
          BY <1>1 DEF Notes
        <4> QED
          BY <1>1, <4>1, <4>2, <4>3 DEF Told, Calm
      <3>2. CASE x \in Told
        BY <2>1, <3>2 DEF OrderInv
      <3>3. CASE x = 0
        BY <3>3, NoneIsHanded
      <3>4. CASE x = rec.tick /\ stream \in {"profiles", "conversation_parts"}
        BY <1>1, <3>4, UpToRow
      <3> QED
        BY <3>1, <3>2, <3>3, <3>4
    <2>3. given \subseteq given' /\ held \subseteq (held \cup given)'
      BY <1>2
    <2> QED
      BY <1>1, <2>2, <2>3, HandedStays
  <1>18. SafeInv'
    BY <1>1, SafeRests
  <1> QED
    BY <1>8, <1>10, <1>11, <1>13, <1>14, <1>15, <1>16, <1>17, <1>18

LEMMA OldOrEarlier ==
    ASSUME ExtractType, \A x \in Marks' : x \in Marks \/ x <= ranOn
    PROVE  MarksStay
  <1>1. ranOn \in Marks
    BY DEF Marks
  <1>2. \A x \in Marks : x <= x
    BY MarksAreTicks
  <1> QED
    BY <1>1, <1>2 DEF MarksStay

\* What is held is yielded, or kept; `value` is observed in the end.
LEMMA HandOver ==
    ASSUME ExtractType, ShapeInv, ~atYield, NEW value \in Int,
           Yield(value) \/ GoOn(value)
    PROVE  /\ given \subseteq given' /\ held \subseteq (held \cup given)'
           /\ (held \cup given)' \subseteq held \cup given
           /\ held' = held \/ held' = {}
           /\ observed' \in Nat /\ observed' \in {observed, value}
           /\ due' \in Int /\ due' \in {due, value}
           /\ atYield' => held' = {}
           /\ ~atYield' => due' = 0
  <1>1. observed \in Nat /\ due \in Int /\ due = 0
    BY DEF ExtractType, ShapeInv
  <1>2. CASE Yield(value)
    <2>1. /\ given' = given \cup held /\ held' = {} /\ atYield'
          /\ due' = value /\ observed' = observed
      BY <1>2 DEF Yield
    <2> QED
      BY <1>1, <2>1
  <1>3. CASE GoOn(value)
    <2>1. /\ UNCHANGED <<held, given, due>> /\ ~atYield'
          /\ observed' = Larger(observed, value)
      BY <1>3 DEF GoOn, Observe
    <2>2. observed' \in Nat /\ observed' \in {observed, value}
      BY <1>1, <2>1, LargerIs
    <2> QED
      BY <1>1, <2>1, <2>2
  <1> QED
    BY <1>2, <1>3

LEMMA OtherPageKeeps ==
    ASSUME ExtractInv, OtherPage
    PROVE  ExtractInv'
  <1> USE DEF ExtractInv
  <1>1. /\ Calm /\ UNCHANGED <<saved, landed, ranOn, plan, pc, unread, noted>>
        /\ pc = "unit" /\ ~atYield /\ stream = "search" /\ Yield(noted)
    BY DEF OtherPage, Calm, serviceVars, tableVars, IntercomYielded
  <1>2. noted \in Int
    BY <1>1 DEF ExtractType, Counts
  <1>3. /\ given \subseteq given' /\ held \subseteq (held \cup given)'
        /\ (held \cup given)' \subseteq held \cup given
        /\ observed' \in Nat /\ observed' \in {observed, noted}
        /\ due' \in Int /\ due' \in {due, noted}
        /\ atYield' => held' = {}
        /\ ~atYield' => due' = 0
    BY <1>1, <1>2, HandOver
  <1>4. ExtractType'
    BY <1>1, <1>3 DEF ExtractType, Calm
  <1>5. Open' <=> Open
    BY <1>1 DEF Open, Calm
  <1>6. ShapeInv'
    BY <1>1, <1>3, <1>5 DEF ShapeInv
  <1>7. PlanInv'
    BY <1>1, <1>5 DEF PlanInv, Calm
  <1>8. MarksStay
    <2>1. Marks' \subseteq Marks
      BY <1>1, <1>3 DEF Marks, Calm, Counts
    <2> QED
      BY <2>1, SubsetOfMarks
  <1>9. MarksInv'
    BY <1>1, <1>4, <1>5, <1>8, MarksRest
  <1>10. FreshInv' /\ UnreadInv'
    <2>1. (unread \cup held \cup given)' \subseteq unread \cup held \cup given
      BY <1>1, <1>3
    <2> QED
      BY <1>1, <1>4, <1>8, <2>1, FreshRests DEF UnreadInv, Calm
  <1>11. CoverInv'
    <2>1. LeftStays
      BY <1>1, NothingNewToFetch DEF Left
    <2>2. held \cup unread \subseteq (held \cup unread \cup given)'
      BY <1>1, <1>3
    <2> QED
      BY <1>1, <1>3, <1>4, <1>8, <2>1, <2>2, CoverRests DEF Complete
  <1>12. OrderInv'
    <2>1. ASSUME NEW x \in Told'
          PROVE  Handed(x)'
      <3>1. x \in Told
        BY <1>1, <1>3 DEF Told, Calm
      <3>2. Handed(x)
        BY <1>1, <3>1 DEF OrderInv, Ordered
      <3> QED
        BY <1>1, <1>3, <3>2, HandedStays
    <2> QED
      BY <2>1 DEF OrderInv
  <1>13. SafeInv'
    BY <1>1, SafeRests
  <1> QED
    BY <1>4, <1>6, <1>7, <1>9, <1>10, <1>11, <1>12, <1>13

LEMMA UnitEndKeeps ==
    ASSUME ExtractInv, UnitEnd
    PROVE  ExtractInv'
  <1> USE DEF ExtractInv
  <1> DEFINE v == UnitObserved
  <1>1. /\ Calm /\ UNCHANGED <<saved, landed, ranOn, unread>>
        /\ pc = "unit" /\ pc' = "walk" /\ ~atYield /\ unread = {}
        /\ plan # <<>> /\ plan' = Tail(plan) /\ (Yield(v) \/ GoOn(v))
        /\ stream = "search" => noted' = Head(plan).last
        /\ stream \in {"konnektive", "conversation_parts", "files", "drive"} =>
               noted' = 0
        /\ stream \notin {"search", "konnektive", "conversation_parts", "files",
                          "drive"} => noted' = noted
    <2>1. Yield(v) \/ GoOn(v)
      BY DEF UnitEnd
    <2> QED
      BY <2>1 DEF UnitEnd, Calm, serviceVars, tableVars, ShapeInv
  <1>2. /\ Head(plan) = plan[1] /\ 1 \in DOMAIN plan
        /\ Head(plan).last \in Int /\ Head(plan).closes \in Int
        /\ Tail(plan) \in Seq(Units) /\ Len(plan) \in Nat \ {0}
        /\ DOMAIN Tail(plan) = 1 .. Len(plan) - 1
        /\ \A i \in DOMAIN Tail(plan) :
               i + 1 \in DOMAIN plan /\ Tail(plan)[i] = plan[i + 1]
    BY <1>1, PlanHead DEF ExtractType
  <1>3. \/ v = 0
        \/ v = noted /\ stream = "konnektive"
        \/ v = Head(plan).closes /\ stream = "insights"
        \/ /\ v = Head(plan).last
           /\ stream \in {"search", "conversation_parts", "files", "drive"}
    BY DEF UnitObserved, KonnektiveUnit, MetaUnit, SearchUnit,
           ConversationsUnit, FilesUnit, DriveUnit
  <1>4. v \in Int
    BY <1>2, <1>3 DEF ExtractType, Counts
  <1> HIDE DEF v
  <1>5. /\ given \subseteq given' /\ held \subseteq (held \cup given)'
        /\ (held \cup given)' \subseteq held \cup given
        /\ observed' \in Nat /\ observed' \in {observed, v}
        /\ due' \in Int /\ due' \in {due, v}
        /\ atYield' => held' = {}
        /\ ~atYield' => due' = 0
    BY <1>1, <1>4, HandOver
  <1>6. ExtractType'
    BY <1>1, <1>2, <1>5 DEF ExtractType, Calm, Counts
  <1>7. Open' <=> Open
    BY <1>1 DEF Open, Calm
  <1>8. Open => plan' = <<>>
    <2>1. Open => Len(plan) = 1
      BY <1>1 DEF ShapeInv
    <2>2. Len(plan) = 1 => Tail(plan) = <<>>
      BY <1>2, LenProperties, EmptySeq
    <2> QED
      BY <1>1, <2>1, <2>2
  <1>9. ShapeInv'
    BY <1>1, <1>5, <1>7, <1>8 DEF ShapeInv
  <1>10. PlanInv'
    <2>1. ~Open => EndBy(plan', ranOn)
      BY <1>1, <1>2 DEF PlanInv, EndBy
    <2>2. stream \in InOrder => Sorted(plan')
      <3>1. ASSUME NEW i \in DOMAIN Tail(plan), NEW j \in DOMAIN Tail(plan), i < j,
                   Sorted(plan)
            PROVE  Tail(plan)[i].last < Tail(plan)[j].first
        <4>1. i + 1 < j + 1 /\ i + 1 \in DOMAIN plan /\ j + 1 \in DOMAIN plan
          BY <1>2, <3>1
        <4> QED
          BY <1>2, <3>1, <4>1 DEF Sorted
      <3> QED
        BY <1>1, <3>1 DEF PlanInv, Sorted
    <2> QED
      BY <1>1, <1>7, <1>8, <2>1, <2>2 DEF PlanInv, Calm
  <1>11. /\ ~Open => Head(plan).last <= ranOn /\ Head(plan).closes <= ranOn
         /\ ranOn \in Nat
    BY <1>1, <1>2 DEF PlanInv, EndBy, ExtractType
  <1>12. MarksStay
    <2>1. stream \in {"search", "conversation_parts", "files", "drive",
                      "insights"} => ~Open
      BY DEF Open
    <2>2. v \in Marks \/ v <= ranOn
      BY <1>3, <1>11, <2>1 DEF Marks, Counts
    <2>3. stream \notin Counts => noted' \in Marks \/ noted' <= ranOn
      BY <1>1, <1>11, <2>1 DEF Marks, Counts
    <2>4. \A x \in Marks' : x \in Marks \/ x <= ranOn
      BY <1>1, <1>5, <2>2, <2>3 DEF Marks, Calm
    <2> QED
      BY <2>4, OldOrEarlier
  <1>13. MarksInv'
    <2>1. ~(stream = "konnektive" /\ noted' > 0)
      BY <1>1
    <2> QED
      BY <1>1, <1>6, <1>7, <1>12, <2>1, MarksRest
  <1>14. FreshInv' /\ UnreadInv'
    <2>1. (unread \cup held \cup given)' \subseteq unread \cup held \cup given
      BY <1>1, <1>5
    <2> QED
      BY <1>1, <1>6, <1>12, <2>1, FreshRests DEF UnreadInv
  <1>15. CoverInv'
    <2>1. LeftStays
      BY <1>1, NothingNewToFetch DEF Left
    <2>2. held \cup unread \subseteq (held \cup unread \cup given)'
      BY <1>1, <1>5
    <2> QED
      BY <1>1, <1>5, <1>6, <1>12, <2>1, <2>2, CoverRests DEF Complete
  <1>16. OrderInv'
    <2>1. SUFFICES ASSUME stream \in Ordered, NEW x \in Told'
                   PROVE  Handed(x)'
      BY <1>1 DEF OrderInv, Calm
    <2>2. /\ noted <= 0 \/ noted <= Head(plan).last \/ stream # "konnektive"
          /\ stream = "konnektive" => noted \in Int
      BY <1>1, <1>2 DEF MarksInv, ExtractType, Counts
    <2>3. Handed(x)
      <3>1. x \in Told \/ x = v \/ (x = Head(plan).last /\ stream = "search")
        BY <1>1, <1>5 DEF Told, Calm
      <3>2. \/ x \in Told
            \/ x \in Int /\ x <= 0
            \/ x \in Int /\ x <= Head(plan).last /\ stream \in InOrder
        BY <1>2, <1>3, <2>1, <2>2, <3>1 DEF Ordered, InOrder
      <3>3. CASE x \in Told
        BY <2>1, <3>3 DEF OrderInv
      <3>4. CASE x \in Int /\ x <= 0
        BY <3>4, NoneIsHanded
      <3>5. CASE x \in Int /\ x <= Head(plan).last /\ stream \in InOrder
        BY <1>1, <3>5, UpToHead
      <3> QED
        BY <3>2, <3>3, <3>4, <3>5
    <2> QED
      BY <1>1, <1>5, <2>3, HandedStays
  <1>17. SafeInv'
    BY <1>1, SafeRests
  <1> QED
    BY <1>6, <1>9, <1>10, <1>13, <1>14, <1>15, <1>16, <1>17

LEMMA CapReachedKeeps ==
    ASSUME ExtractInv, CapReached
    PROVE  ExtractInv'
  <1> USE DEF ExtractInv
  <1>1. /\ Calm /\ UNCHANGED <<saved, landed, ranOn, noted>>
        /\ pc = "unit" /\ pc' = "done" /\ ~atYield
        /\ stream = "conversation_parts"
        /\ plan' = <<>> /\ unread' = {} /\ (Yield(0) \/ GoOn(0))
        /\ held' = {}
    <2>1. Yield(0) \/ (GoOn(0) /\ held = {})
      BY DEF CapReached
    <2>2. held' = {}
      BY <2>1 DEF Yield, GoOn
    <2> QED
      BY <2>1, <2>2 DEF CapReached, Calm, serviceVars, tableVars
  <1>2. /\ given \subseteq given' /\ held \subseteq (held \cup given)'
        /\ (held \cup given)' \subseteq held \cup given
        /\ observed' \in Nat /\ observed' \in {observed, 0}
        /\ due' \in Int /\ due' \in {due, 0}
        /\ atYield' => held' = {}
        /\ ~atYield' => due' = 0
    BY <1>1, HandOver
  <1>3. ExtractType'
    <2>1. plan' \in Seq(Units)
      BY <1>1
    <2> QED
      BY <1>1, <1>2, <2>1 DEF ExtractType, Calm, Counts
  <1>4. ~Open /\ ~Open'
    BY <1>1 DEF Open, Calm
  <1>5. ShapeInv'
    BY <1>1, <1>2, <1>4 DEF ShapeInv
  <1>6. PlanInv'
    BY <1>1, <1>4 DEF PlanInv, EndBy, Sorted
  <1>7. MarksStay
    <2>1. \A x \in Marks' : x \in Marks \/ x = 0
      BY <1>1, <1>2 DEF Marks, Calm
    <2> QED
      BY <2>1, OldOrNone
  <1>8. MarksInv'
    BY <1>1, <1>3, <1>4, <1>7, MarksRest
  <1>9. FreshInv' /\ UnreadInv'
    <2>1. (unread \cup held \cup given)' \subseteq unread \cup held \cup given
      BY <1>1, <1>2
    <2> QED
      BY <1>1, <1>3, <1>7, <2>1, FreshRests DEF UnreadInv
  <1>10. CoverInv'
    BY <1>1 DEF CoverInv, Complete, Calm
  <1>11. OrderInv'
    <2>1. ASSUME NEW x \in Told'
          PROVE  Handed(x)'
      <3>1. x \in Told \/ x = 0
        BY <1>1, <1>2 DEF Told, Calm
      <3>2. Handed(x)
        BY <1>1, <3>1, NoneIsHanded DEF OrderInv, Ordered
      <3> QED
        BY <1>1, <1>2, <3>2, HandedStays
    <2> QED
      BY <2>1 DEF OrderInv
  <1>12. SafeInv'
    BY <1>1, SafeRests
  <1> QED
    BY <1>3, <1>5, <1>6, <1>8, <1>9, <1>10, <1>11, <1>12

LEMMA WalkEndKeeps ==
    ASSUME ExtractInv, WalkEnd
    PROVE  ExtractInv'
  <1> USE DEF ExtractInv
  <1> DEFINE v == EndObserved
  <1>1. /\ Calm /\ UNCHANGED <<saved, landed, ranOn, noted, plan, unread>>
        /\ pc = "walk" /\ pc' = "done" /\ ~atYield
        /\ plan = <<>> /\ (Yield(v) \/ GoOn(v)) /\ held' = {}
    <2>1. Yield(v) \/ (GoOn(v) /\ held = {})
      BY DEF WalkEnd
    <2>2. held' = {}
      BY <2>1 DEF Yield, GoOn
    <2> QED
      BY <2>1, <2>2 DEF WalkEnd, Calm, serviceVars, tableVars
  <1>2. \/ v = 0
        \/ /\ v = noted
           /\ stream \in {"chargebacks", "alerts", "summary", "gaql", "search"}
        \/ v = ranOn - 1 /\ stream = "singular"
    BY DEF EndObserved, SingularLast, SingularEnd
  <1>3. ranOn \in Nat /\ (stream \notin Counts => noted \in Int)
    BY DEF ExtractType
  <1>4. v \in Int
    BY <1>2, <1>3 DEF Counts
  <1> HIDE DEF v
  <1>5. /\ given \subseteq given' /\ held \subseteq (held \cup given)'
        /\ (held \cup given)' \subseteq held \cup given
        /\ observed' \in Nat /\ observed' \in {observed, v}
        /\ due' \in Int /\ due' \in {due, v}
        /\ atYield' => held' = {}
        /\ ~atYield' => due' = 0
    BY <1>1, <1>4, HandOver
  <1>6. ExtractType'
    BY <1>1, <1>5 DEF ExtractType, Calm
  <1>7. Open' <=> Open
    BY <1>1 DEF Open, Calm
  <1>8. ShapeInv'
    BY <1>1, <1>5, <1>7 DEF ShapeInv
  <1>9. PlanInv'
    BY <1>1, <1>7 DEF PlanInv, Calm
  <1>10. MarksStay
    <2>1. v \in Marks \/ v <= ranOn
      BY <1>2, <1>3 DEF Marks, Counts
    <2>2. \A x \in Marks' : x \in Marks \/ x <= ranOn
      BY <1>1, <1>5, <2>1 DEF Marks, Calm
    <2> QED
      BY <2>2, OldOrEarlier
  <1>11. MarksInv'
    <2>1. ~(stream = "konnektive" /\ noted' > 0)
      BY <1>1 DEF MarksInv
    <2> QED
      BY <1>1, <1>6, <1>7, <1>10, <2>1, MarksRest
  <1>12. FreshInv' /\ UnreadInv'
    <2>1. unread = {} /\ unread' = {}
      BY <1>1 DEF ShapeInv
    <2>2. (unread \cup held \cup given)' \subseteq unread \cup held \cup given
      BY <1>5, <2>1
    <2> QED
      BY <1>1, <1>6, <1>10, <2>1, <2>2, FreshRests DEF UnreadInv
  <1>13. CoverInv'
    <2>1. LeftStays
      BY <1>1, NothingNewToFetch DEF Left
    <2>2. held \cup unread \subseteq (held \cup unread \cup given)'
      BY <1>1, <1>5
    <2> QED
      BY <1>1, <1>5, <1>6, <1>10, <2>1, <2>2, CoverRests DEF Complete
  <1>14. OrderInv'
    <2>1. SUFFICES ASSUME stream \in Ordered, NEW x \in Told'
                   PROVE  Handed(x)'
      BY <1>1 DEF OrderInv, Calm
    <2>2. x \in Told \/ x = 0
      BY <1>1, <1>2, <1>5, <2>1 DEF Told, Ordered, Calm
    <2>3. Handed(x)
      BY <2>1, <2>2, NoneIsHanded DEF OrderInv
    <2> QED
      BY <1>1, <1>5, <2>3, HandedStays
  <1>15. SafeInv'
    BY <1>1, SafeRests
  <1> QED
    BY <1>6, <1>8, <1>9, <1>11, <1>12, <1>13, <1>14, <1>15
-----------------------------------------------------------------------------
(* The engine.                                                             *)

\* All records of a row that are written being of one version, it lands.
LEMMA LandIs ==
    ASSUME NEW r \in Rows, version[r] \in Int,
           \A rec \in given : rec.row = r => rec.version = version[r]
    PROVE  \/ Land(given)[r] = version[r]
           \/ /\ Land(given)[r] = landed[r]
              /\ ~Has(given, r, version[r])
  <1> DEFINE mine == {rec.version : rec \in {q \in given : q.row = r}}
  <1>1. CASE \E rec \in given : rec.row = r
    <2>1. mine = {version[r]}
      BY <1>1
    <2>2. Land(given)[r] = Max(mine)
      BY <1>1 DEF Land
    <2> HIDE DEF mine
    <2>3. Max({version[r]}) = version[r]
      BY DEF Max
    <2> QED
      BY <2>1, <2>2, <2>3
  <1>2. CASE ~\E rec \in given : rec.row = r
    BY <1>2 DEF Land, Has
  <1> QED
    BY <1>1, <1>2

\* Of a row, the last version is written, or the row is ahead of all marks.
LEMMA LandsNewest ==
    ASSUME ExtractType, FreshInv, NEW r \in Rows, Landing(r), ~Ahead(r)
    PROVE  Drops(r) \/ Land(given)[r] = version[r]
  <1>1. \A rec \in given : rec.row = r => rec.version = version[r]
    BY DEF FreshInv
  <1>2. version[r] \in Int
    BY DEF ExtractType
  <1> QED
    BY <1>1, <1>2, LandIs DEF Landing, Current

LEMMA WrittenIsCurrent ==
    ASSUME ExtractType, FreshInv, Calm, landed' = Land(given),
           NEW r \in Rows, Landing(r), ~Ahead(r)
    PROVE  Current(r)'
  BY LandsNewest, DropsStay DEF Current, Calm

LEMMA ResumeKeeps ==
    ASSUME ExtractInv, NEW write \in BOOLEAN, Resume(write)
    PROVE  ExtractInv'
  <1> USE DEF ExtractInv
  <1>1. /\ Calm /\ UNCHANGED <<ranOn, noted, plan, unread, held, pc>>
        /\ atYield /\ ~atYield' /\ held = {} /\ due' = 0
        /\ observed' = Larger(observed, due)
        /\ pc # "idle"
    BY DEF Resume, Observe, Calm, serviceVars, walkVars, ShapeInv
  <1>2. /\ \/ landed' = Land(given) /\ given' = {}
           \/ landed' = landed /\ given' = given
        /\ \/ saved' = saved
           \/ /\ saved' = Larger(saved, observed) /\ stream \in Ordered
              /\ landed' = Land(given)
    <2>1. CASE write
      BY <2>1 DEF Resume
    <2>2. CASE ~write
      BY <2>2 DEF Resume, tableVars
    <2> QED
      BY <2>1, <2>2
  <1>3. /\ observed' \in Nat /\ observed' \in {observed, due}
        /\ saved' \in Nat /\ saved' \in {saved, observed}
    <2>1. saved \in Nat /\ observed \in Nat /\ due \in Int
      BY DEF ExtractType
    <2> HIDE DEF ExtractInv
    <2>2. Larger(observed, due) \in Nat /\ Larger(observed, due) \in {observed, due}
      BY <2>1, LargerIs
    <2>3. observed \in Int
      BY <2>1
    <2>4. /\ Larger(saved, observed) \in Nat
          /\ Larger(saved, observed) \in {saved, observed}
      BY <2>1, <2>3, LargerIs
    <2> QED
      BY <1>1, <1>2, <2>1, <2>2, <2>4
  <1>4. ExtractType'
    BY <1>1, <1>2, <1>3 DEF ExtractType, Calm
  <1>5. Open' <=> Open
    BY <1>1, <1>2 DEF Open, Ordered, Calm
  <1>6. ~(Open /\ pc = "walk" /\ plan # <<>>)
    BY <1>1 DEF ShapeInv
  <1>7. ShapeInv'
    BY <1>1, <1>5, <1>6 DEF ShapeInv
  <1>8. PlanInv'
    BY <1>1, <1>5, <1>6 DEF PlanInv, Calm
  <1>9. MarksStay
    <2>1. \A x \in Marks' : x \in Marks \/ x = 0
      BY <1>1, <1>3 DEF Marks, Calm
    <2> QED
      BY <2>1, OldOrNone
  <1>10. MarksInv'
    BY <1>1, <1>4, <1>5, <1>9, MarksRest DEF MarksInv
  <1>11. FreshInv' /\ UnreadInv'
    <2>1. (unread \cup held \cup given)' \subseteq unread \cup held \cup given
      BY <1>1, <1>2
    <2> QED
      BY <1>1, <1>4, <1>9, <2>1, FreshRests DEF UnreadInv, Calm
  <1>12. ASSUME NEW r \in Rows, Landing(r)
         PROVE  Landing(r)' \/ (Ahead(r) /\ Ahead(r)')
    <2>1. CASE Ahead(r)
      BY <1>1, <1>4, <1>9, <2>1, AheadStays DEF Calm
    <2>2. CASE ~Ahead(r)
      <3>1. CASE landed' = Land(given)
        BY <1>1, <1>12, <2>2, <3>1, WrittenIsCurrent DEF Landing
      <3>2. CASE landed' = landed /\ given' = given
        BY <1>1, <1>12, <3>2, LandingStays DEF Calm
      <3> QED
        BY <1>2, <3>1, <3>2
    <2> QED
      BY <2>1, <2>2
  <1>13. CoverInv'
    <2>1. SUFFICES ASSUME Complete, NEW r \in Rows, tick[r] # 0
                   PROVE  Covered(r)'
      BY <1>1 DEF CoverInv, Complete, Calm
    <2>2. CASE Landing(r)
      BY <1>12, <2>2 DEF Covered
    <2>3. CASE Has(held \cup unread, r, version[r])
      BY <1>1, <2>3 DEF Covered, Calm
    <2>4. CASE Asked(Left, r)
      BY <1>1, <2>4 DEF Covered, Asked, Left, Calm
    <2>5. CASE Ahead(r)
      BY <1>1, <1>4, <1>9, <2>5, AheadStays DEF Covered, Calm
    <2> QED
      BY <2>1, <2>2, <2>3, <2>4, <2>5 DEF CoverInv, Covered
  <1>14. OrderInv'
    <2>1. SUFFICES ASSUME stream \in Ordered, NEW x \in Told',
                          NEW r \in Rows, Behind(r, x)
                   PROVE  Landing(r)'
      BY <1>1, BehindStays DEF OrderInv, Handed, Calm
    <2>2. x \in Told \/ x = 0
      BY <1>1, <1>3 DEF Told, Calm
    <2>3. Handed(x) /\ x \in Int
      BY <2>1, <2>2, NoneIsHanded DEF OrderInv, Told, ExtractType, Counts
    <2>4. Landing(r)
      BY <1>1, <2>1, <2>3 DEF Handed, Has
    <2>5. ~Ahead(r)
      <3>1. x \in Marks \/ (x = 0 /\ x <= ranOn /\ ranOn \in Marks)
        BY <2>2 DEF Told, Marks, Counts, ExtractType
      <3>2. \A y \in Marks : x = y => x <= y
        BY <2>3
      <3> QED
        BY <2>1, <2>3, <3>1, <3>2, AheadIsNotBehind
    <2> QED
      BY <1>12, <2>4, <2>5
  <1>15. SafeInv'
    <2>1. SUFFICES ASSUME NEW r \in Rows, Behind(r, saved')
                   PROVE  Current(r)'
      BY <1>1, BehindStays DEF SafeInv
    <2>2. saved' \in Marks /\ saved' \in Int
      BY <1>3 DEF Marks
    <2>3. ~Ahead(r)
      <3>1. saved' <= saved'
        BY <2>2
      <3> QED
        BY <2>1, <2>2, <3>1, AheadIsNotBehind
    <2>4. Landing(r)
      <3>1. CASE saved' = saved
        BY <2>1, <3>1 DEF SafeInv, Landing
      <3>2. CASE saved' = observed /\ stream \in Ordered
        BY <1>1, <2>1, <3>2 DEF OrderInv, Handed, Told, Has
      <3> QED
        BY <1>2, <1>3, <3>1, <3>2
    <2>5. CASE landed' = Land(given)
      BY <1>1, <2>3, <2>4, <2>5, WrittenIsCurrent
    <2>6. CASE landed' = landed /\ saved' = saved
      BY <1>1, <2>1, <2>6, CurrentStays DEF SafeInv, Calm
    <2> QED
      BY <1>2, <2>5, <2>6
  <1> QED
    BY <1>4, <1>7, <1>8, <1>10, <1>11, <1>13, <1>14, <1>15

LEMMA CommitKeeps ==
    ASSUME ExtractInv, Commit
    PROVE  ExtractInv'
  <1> USE DEF ExtractInv
  <1>1. /\ Calm /\ UNCHANGED <<ranOn, plan, unread, held, due, atYield>>
        /\ pc = "done" /\ pc' = "idle" /\ ~atYield
        /\ due = 0 /\ held = {} /\ unread = {} /\ plan = <<>>
        /\ saved' = Larger(saved, observed) /\ observed' = 0 /\ noted' = 0
        /\ given' = {} /\ landed' = Land(given)
    <2>1. stream \notin Snapshots
      BY DEF ExtractType, Cursored, Snapshots
    <2> QED
      BY <2>1 DEF Commit, Calm, serviceVars, ShapeInv
  <1>2. saved' \in Nat /\ saved' \in {saved, observed}
    BY <1>1, LargerIs DEF ExtractType
  <1>3. ExtractType'
    BY <1>1, <1>2 DEF ExtractType, Calm
  <1>4. ShapeInv'
    BY <1>1 DEF ShapeInv
  <1>5. PlanInv'
    BY <1>1 DEF PlanInv, Calm
  <1>6. \A x \in Marks' : x \in Marks \/ x = 0
    BY <1>1, <1>2 DEF Marks, Calm
  <1>7. MarksInv'
    <2>1. MarksStay
      BY <1>6, OldOrNone
    <2>2. today \in Int /\ ranOn \in Int
      BY DEF ExtractType
    <2>3. \A x \in Marks' : x <= today
      BY <1>3, <2>1, <2>2, MarksAreBounded DEF MarksInv
    <2>4. ASSUME stream \in {"files", "drive"}
          PROVE  \A x \in Marks' : x <= ranOn
      <3>1. \A x \in Marks : x <= ranOn
        BY <2>4 DEF MarksInv
      <3> QED
        BY <1>3, <2>1, <2>2, <3>1, MarksAreBounded
    <2> QED
      BY <1>1, <2>3, <2>4 DEF MarksInv, Calm
  <1>8. FreshInv' /\ UnreadInv' /\ CoverInv'
    BY <1>1 DEF FreshInv, UnreadInv, CoverInv, Complete
  <1>9. OrderInv'
    <2>1. ASSUME NEW x \in Told'
          PROVE  Handed(x)'
      <3>1. x = 0
        BY <1>1 DEF Told
      <3>2. SUFFICES ASSUME NEW r \in Rows, Behind(r, x)
                     PROVE  FALSE
        BY <1>1, BehindStays DEF Handed
      <3> QED
        BY <3>1, <3>2, NothingIsBehindNone
    <2> QED
      BY <2>1 DEF OrderInv
  <1>10. SafeInv'
    <2>1. SUFFICES ASSUME NEW r \in Rows, Behind(r, saved')
                   PROVE  Current(r)'
      BY <1>1, BehindStays DEF SafeInv
    <2>2. ~Ahead(r)
      <3>1. saved' \in Marks /\ saved' \in Int /\ saved' <= saved'
        BY <1>2 DEF Marks
      <3> QED
        BY <2>1, <3>1, AheadIsNotBehind
    <2>3. Landing(r)
      <3>1. CASE saved' = saved
        BY <2>1, <3>1 DEF SafeInv, Landing
      <3>2. CASE saved' = observed /\ stream = "conversation_parts"
        BY <1>1, <2>1, <3>2 DEF OrderInv, Ordered, Handed, Told, Has
      <3>3. CASE stream # "conversation_parts"
        <4>1. Covered(r) /\ Left = <<>>
          BY <1>1, <2>1, <3>3 DEF CoverInv, Complete, Behind, Left
        <4> QED
          BY <1>1, <2>2, <4>1 DEF Covered, Has, Asked, Covers
      <3> QED
        BY <1>2, <3>1, <3>2, <3>3
    <2> QED
      BY <1>1, <2>2, <2>3, WrittenIsCurrent
  <1> QED
    BY <1>3, <1>4, <1>5, <1>7, <1>8, <1>9, <1>10

LEMMA KillKeeps ==
    ASSUME ExtractInv, Kill
    PROVE  ExtractInv'
  <1> USE DEF ExtractInv
  <1>1. /\ Calm /\ UNCHANGED <<saved, landed, ranOn>>
        /\ pc' = "idle" /\ plan' = <<>> /\ unread' = {} /\ held' = {}
        /\ noted' = 0 /\ observed' = 0 /\ due' = 0 /\ ~atYield' /\ given' = {}
    BY DEF Kill, Calm, serviceVars, tableVars
  <1>2. ExtractType'
    <2>1. plan' \in Seq(Units)
      BY <1>1
    <2> QED
      BY <1>1, <2>1 DEF ExtractType, Calm
  <1>3. ShapeInv'
    BY <1>1 DEF ShapeInv
  <1>4. PlanInv'
    BY <1>1 DEF PlanInv, Sorted
  <1>5. \A x \in Marks' : x \in Marks \/ x = 0
    BY <1>1 DEF Marks, Calm
  <1>6. MarksInv'
    <2>1. MarksStay
      BY <1>5, OldOrNone
    <2>2. today \in Int /\ ranOn \in Int
      BY DEF ExtractType
    <2>3. \A x \in Marks' : x <= today
      BY <1>2, <2>1, <2>2, MarksAreBounded DEF MarksInv
    <2>4. ASSUME stream \in {"files", "drive"}
          PROVE  \A x \in Marks' : x <= ranOn
      <3>1. \A x \in Marks : x <= ranOn
        BY <2>4 DEF MarksInv
      <3> QED
        BY <1>2, <2>1, <2>2, <3>1, MarksAreBounded
    <2> QED
      BY <1>1, <2>3, <2>4 DEF MarksInv, Calm
  <1>7. FreshInv' /\ UnreadInv' /\ CoverInv'
    BY <1>1 DEF FreshInv, UnreadInv, CoverInv, Complete
  <1>8. OrderInv'
    <2>1. ASSUME NEW x \in Told'
          PROVE  Handed(x)'
      <3>1. x = 0
        BY <1>1 DEF Told
      <3>2. SUFFICES ASSUME NEW r \in Rows, Behind(r, x)
                     PROVE  FALSE
        BY <1>1, BehindStays DEF Handed
      <3> QED
        BY <3>1, <3>2, NothingIsBehindNone
    <2> QED
      BY <2>1 DEF OrderInv
  <1>9. SafeInv'
    BY <1>1, SafeRests
  <1> QED
    BY <1>2, <1>3, <1>4, <1>6, <1>7, <1>8, <1>9

\* A step that changes nothing.
LEMMA StutterKeeps ==
    ASSUME ExtractInv, UNCHANGED vars
    PROVE  ExtractInv'
  <1> USE DEF ExtractInv, vars, serviceVars, tableVars, walkVars, yieldVars
  <1>1. /\ Calm /\ UNCHANGED <<saved, landed>> /\ Marks' = Marks
        /\ Open' <=> Open
    BY DEF Calm, Marks, Open
  <1>2. ExtractType'
    BY DEF ExtractType
  <1>3. MarksStay
    BY <1>1, SubsetOfMarks
  <1>4. From(saved)' = From(saved)
    BY DEF From
  <1>5. ShapeInv' /\ PlanInv' /\ MarksInv'
    BY <1>1, <1>4 DEF ShapeInv, PlanInv, MarksInv, AsksFrom
  <1>6. FreshInv' /\ UnreadInv'
    BY <1>1, <1>2, <1>3, FreshRests DEF UnreadInv
  <1>7. CoverInv'
    <2>1. LeftStays
      BY <1>1, NothingNewToFetch DEF Left
    <2>2. CASE Complete
      BY <1>1, <1>2, <1>3, <2>1, <2>2, CoverRests
    <2>3. CASE ~Complete
      BY <2>3 DEF CoverInv, Complete
    <2> QED
      BY <2>2, <2>3
  <1>8. OrderInv'
    <2>1. ASSUME stream \in Ordered, NEW x \in Told
          PROVE  Handed(x)'
      BY <1>1, <2>1, HandedStays DEF OrderInv
    <2> QED
      BY <2>1 DEF OrderInv, Told
  <1>9. SafeInv'
    BY <1>1, SafeRests
  <1> QED
    BY <1>2, <1>5, <1>6, <1>7, <1>8, <1>9

LEMMA ExtractStep == ExtractInv /\ [Next]_vars => ExtractInv'
  <1> SUFFICES ASSUME ExtractInv, [Next]_vars
               PROVE  ExtractInv'
    OBVIOUS
  <1>1. stream \notin Snapshots /\ stream \notin {"flow_messages", "memberships"}
    BY DEF ExtractInv, ExtractType, Cursored, Snapshots
  <1>2. CASE Tick
    BY <1>2, TickKeeps
  <1>3. CASE \E r \in Rows, t \in 1 .. Horizon : Change(r, t)
    BY <1>3, ChangeKeeps
  <1>4. CASE \E r \in Rows, p \in Parts : Shift(r, p)
    BY <1>1, <1>4 DEF Shift
  <1>5. CASE Begin
    BY <1>5, BeginKeeps
  <1>6. CASE Fetch
    BY <1>6, FetchKeeps
  <1>7. CASE Break
    BY <1>1, <1>7 DEF Break, AtCap
  <1>8. CASE MetaBisect
    BY <1>8, BisectKeeps
  <1>9. CASE \E rec \in unread, full \in BOOLEAN : Read(rec, full)
    BY <1>9, ReadKeeps
  <1>10. CASE OtherPage
    BY <1>10, OtherPageKeeps
  <1>11. CASE UnitEnd
    BY <1>11, UnitEndKeeps
  <1>12. CASE CapReached
    BY <1>12, CapReachedKeeps
  <1>13. CASE WalkEnd
    BY <1>13, WalkEndKeeps
  <1>14. CASE \E write \in BOOLEAN : Resume(write)
    BY <1>14, ResumeKeeps
  <1>15. CASE Commit
    BY <1>15, CommitKeeps
  <1>16. CASE Kill
    BY <1>16, KillKeeps
  <1>17. CASE UNCHANGED vars
    BY <1>17, StutterKeeps
  <1> QED
    BY <1>2, <1>3, <1>4, <1>5, <1>6, <1>7, <1>8, <1>9, <1>10, <1>11, <1>12,
       <1>13, <1>14, <1>15, <1>16, <1>17 DEF Next, Run
-----------------------------------------------------------------------------
(* The cursor.                                                             *)

\* What no unit of the next plan asks for is behind the cursor.
LEMMA SafeIsPassedIsLanded ==
    ASSUME ExtractInv
    PROVE  PassedIsLanded
  <1> USE DEF ExtractInv
  <1>1. SUFFICES ASSUME NEW r \in Rows, tick[r] # 0,
                        \A i \in DOMAIN Plan(Horizon) :
                            tick[r] < Plan(Horizon)[i].first
                 PROVE  Current(r)
    BY DEF PassedIsLanded
  <1>2. /\ tick[r] \in Nat /\ tick[r] < Horizon /\ Horizon \in Nat \ {0}
        /\ saved \in Nat /\ saved <= Horizon
    <2>1. tick[r] \in Nat /\ tick[r] < Horizon /\ Horizon \in Nat
      BY <1>1, ExtractAssumption DEF ExtractAssumption, ExtractType
    <2>2. saved \in Nat /\ saved <= today /\ today <= Horizon /\ today \in Nat
      <3>1. saved \in Nat /\ today \in Nat /\ today <= Larger(Horizon, 1)
        BY DEF ExtractType
      <3>2. saved <= today
        BY DEF MarksInv, Marks
      <3>3. Larger(Horizon, 1) = Horizon
        BY <1>1, <2>1 DEF Larger
      <3> QED
        BY <3>1, <3>2, <3>3
    <2> QED
      BY <2>1, <2>2
  <1>3. SoundPlan(Plan(Horizon), Horizon)
    BY <1>2, PlanIsSound
  <1>4. ~Asked(Plan(Horizon), r)
    <2>1. SUFFICES ASSUME NEW i \in DOMAIN Plan(Horizon),
                          Within(Plan(Horizon)[i], part[r], tick[r])
                   PROVE  FALSE
      BY DEF Asked, Covers
    <2>2. Plan(Horizon)[i] \in Units
      BY <1>3, ElementOfSeq, LenProperties DEF SoundPlan
    <2> QED
      BY <1>1, <1>2, <2>1, <2>2 DEF Within, Units
  <1>5. Behind(r, saved)
    <2>1. CASE Open
      <3>1. From(saved) \in Int /\ tick[r] \in 1 .. Horizon
        BY <1>1, <1>2, FromIs
      <3> QED
        BY <1>1, <1>2, <1>3, <1>4, <2>1, <3>1
           DEF SoundPlan, AsksFrom, Asked, Behind
    <2>2. CASE ~Open
      BY <1>1, <1>2, <1>3, <1>4, <2>2 DEF SoundPlan, Later
    <2> QED
      BY <2>1, <2>2
  <1> QED
    BY <1>5 DEF SafeInv

\* No cursor is ever saved past a row that has not landed, in its last
\* version: whatever the plan of a next run leaves out as passed is in the
\* table, for every stream with a cursor, any number of parts and rows, kills,
\* flushes and changes (the observations and plans of the sources; the flush of
\* ordered streams and the commit of the runner).
THEOREM CursorsPassOnlyLanded == Spec => []PassedIsLanded
  <1> DEFINE IInv == stream \in Cursored => ExtractInv
  <1>1. Init => IInv
    BY StartsSafe
  <1>2. IInv /\ [Next]_vars => IInv'
    <2>1. [Next]_vars => stream' = stream
      BY DEF Next, Run, Tick, Change, Shift, Begin, Fetch, Break, MetaBisect,
             Read, OtherPage, UnitEnd, CapReached, WalkEnd, Resume, Commit, Kill,
             vars
    <2> QED
      BY <2>1, ExtractStep
  <1>3. IInv => PassedIsLanded
    BY SafeIsPassedIsLanded DEF PassedIsLanded
  <1> HIDE DEF IInv
  <1> QED
    BY <1>1, <1>2, <1>3, PTL DEF Spec
-----------------------------------------------------------------------------
(* Runs at rest: what holds of a stream without a cursor.                  *)

\* Streams that yield an empty batch rather than nothing.
Emitting ==
    {"klaviyo_list", "campaigns", "flow_messages", "memberships",
     "klaviyo_report", "tabs"}

\* Streams that count their parents against the cap.
Capped == {"flow_messages", "memberships"}

SnapshotType ==
    /\ stream \in Snapshots \cap Streams /\ today \in Nat
    /\ tick \in [Rows -> Nat] /\ version \in [Rows -> Nat]
    /\ part \in [Rows -> Parts]
    /\ \A r \in Rows : tick[r] # 0 => tick[r] < Horizon
    /\ unread \subseteq Records /\ held \subseteq Records /\ given \subseteq Records
    /\ plan \in Seq(Units) /\ walked \in Nat
    /\ pc \in {"idle", "walk", "unit", "done"}

SnapshotShape ==
    /\ pc = "idle" => given = {} /\ ~atYield
    /\ pc # "unit" => unread = {}
    /\ pc \in {"idle", "done"} => plan = <<>> /\ held = {}
    /\ pc = "unit" => plan # <<>>
    /\ given # {} => shown
    /\ pc = "done" /\ stream \in Emitting => shown

\* Parents are counted as they are gone through, in the order of the plan.
Ranked(units, n) ==
    \A i \in DOMAIN units : \E k \in 1 .. Cardinality(Parts) :
        units[i].parts = {Nth(k)} /\ n + i <= k

RankInv == stream \in Capped => Ranked(Left, walked)

SnapshotInv == SnapshotType /\ SnapshotShape /\ RankInv

\* The plan of a snapshot asks for everything.
LEMMA SnapshotPlan ==
    ASSUME stream \in Snapshots, NEW now
    PROVE  /\ Plan(now) \in Seq(Units)
           /\ \A p \in Parts, t \in 0 .. Horizon : Covers(Plan(now), p, t)
           /\ stream \in Capped => Ranked(Plan(now), 0)
  <1>1. Horizon \in Nat /\ 0 \in Int /\ Horizon \in Int
    BY ExtractAssumption DEF ExtractAssumption
  <1>2. CASE stream \notin {"campaigns", "flow_messages", "memberships"}
    <2> DEFINE u == Unit(Parts, 0, Horizon, 0)
    <2>1. Plan(now) = <<u>>
      BY <1>2 DEF Snapshots, Plan, AlertsPlan, CompaniesPlan,
                  IntercomListPlan, KlaviyoListPlan, KlaviyoReportPlan, TabsPlan, Whole
    <2>2. u \in Units /\ \A p \in Parts, t \in 0 .. Horizon : Within(u, p, t)
      BY <1>1, UnitOfAll DEF Unit, Within
    <2> HIDE DEF u
    <2>3. <<u>> \in Seq(Units) /\ 1 \in DOMAIN <<u>> /\ <<u>>[1] = u
      BY <2>2
    <2>4. \A p \in Parts, t \in 0 .. Horizon : Covers(<<u>>, p, t)
      BY <2>2, <2>3 DEF Covers
    <2> QED
      BY <1>2, <2>1, <2>3, <2>4 DEF Capped
  <1>3. CASE stream \in {"campaigns", "flow_messages", "memberships"}
    <2> DEFINE n == Cardinality(Parts)
               units == PartByPart
    <2>1. Plan(now) = units
      BY <1>3 DEF Plan, CampaignsPlan, FlowMessagesPlan, MembershipsPlan
    <2>2. /\ n \in Nat /\ units = [i \in 1 .. n |-> units[i]] /\ DOMAIN units = 1 .. n
          /\ \A i \in 1 .. n : units[i] = Unit({Nth(i)}, 0, Horizon, 0)
      BY PartsAreFinite DEF PartByPart
    <2>3. \A i \in 1 .. n : units[i] \in Units
      BY <1>1, <2>2, UnitOfOne
    <2> HIDE DEF n, units
    <2>4. units \in [1 .. n -> Units]
      BY <2>2, <2>3
    <2>5. units \in Seq(Units)
      BY <2>2, <2>4, SeqDef
    <2>6. ASSUME NEW p \in Parts, NEW t \in 0 .. Horizon
          PROVE  Covers(units, p, t)
      <3>1. PICK k \in 1 .. n : Nth(k) = p
        BY NthIsEach DEF n
      <3> QED
        BY <2>2, <3>1 DEF Covers, Within, Unit
    <2>7. Ranked(units, 0)
      <3>1. SUFFICES ASSUME NEW i \in DOMAIN units
                     PROVE  \E k \in 1 .. Cardinality(Parts) :
                                units[i].parts = {Nth(k)} /\ 0 + i <= k
        BY DEF Ranked
      <3>2. i \in 1 .. Cardinality(Parts) /\ i \in Nat
        BY <2>2 DEF n
      <3>3. units[i].parts = {Nth(i)} /\ 0 + i <= i
        BY <2>2, <3>2 DEF Unit
      <3> QED
        BY <3>2, <3>3
    <2> QED
      BY <2>1, <2>5, <2>6, <2>7
  <1> QED
    BY <1>2, <1>3

LEMMA AnswerRow ==
    ASSUME NEW unit, NEW rec \in Answer(unit)
    PROVE  /\ rec.row \in Rows /\ tick[rec.row] # 0
           /\ rec.version = version[rec.row] /\ rec.tick = tick[rec.row]
           /\ tick[rec.row] \in unit.first .. unit.last
           /\ tick \in [Rows -> Nat] /\ version \in [Rows -> Nat] =>
                  rec \in Records
  <1>1. PICK r \in Rows :
            /\ rec = [row |-> r, tick |-> tick[r], version |-> version[r]]
            /\ tick[r] # 0 /\ tick[r] \in unit.first .. unit.last
    BY DEF Answer
  <1>2. rec.row = r /\ rec.tick = tick[r] /\ rec.version = version[r]
    BY <1>1
  <1>3. tick \in [Rows -> Nat] /\ version \in [Rows -> Nat] => rec \in Records
    BY <1>1 DEF Records
  <1> QED
    BY <1>1, <1>2, <1>3

\* What follows the first unit keeps its place.
LEMMA RankedTail ==
    ASSUME plan \in Seq(Units), plan # <<>>, NEW n \in Nat, Ranked(plan, n)
    PROVE  Ranked(Tail(plan), n + 1)
  <1>1. SUFFICES ASSUME NEW i \in DOMAIN Tail(plan)
                 PROVE  \E k \in 1 .. Cardinality(Parts) :
                            Tail(plan)[i].parts = {Nth(k)} /\ (n + 1) + i <= k
    BY DEF Ranked
  <1>2. /\ i + 1 \in DOMAIN plan /\ Tail(plan)[i] = plan[i + 1] /\ i \in Nat
    BY PlanHead
  <1>3. PICK k \in 1 .. Cardinality(Parts) :
            plan[i + 1].parts = {Nth(k)} /\ n + (i + 1) <= k
    BY <1>2 DEF Ranked
  <1> QED
    BY <1>2, <1>3

LEMMA SnapshotStarts == Init /\ stream \in Snapshots => SnapshotInv
  BY ExtractAssumption DEF Init, ExtractAssumption, SnapshotInv, SnapshotType,
     SnapshotShape, RankInv, Ranked, Left

LEMMA SnapshotStep == SnapshotInv /\ [Next]_vars => SnapshotInv'
  <1> SUFFICES ASSUME SnapshotInv, [Next]_vars
               PROVE  SnapshotInv'
    OBVIOUS
  <1> USE DEF SnapshotInv
  <1>1. stream \notin Cursored
    BY DEF SnapshotType, Cursored, Snapshots
  <1>2. CASE Tick
    BY <1>2 DEF Tick, SnapshotType, SnapshotShape, RankInv, Left,
                tableVars, walkVars, yieldVars
  <1>3. ASSUME NEW q \in Rows, NEW t \in 1 .. Horizon, Change(q, t)
        PROVE  SnapshotInv'
    <2>1. /\ UNCHANGED <<stream, today, part, pc, plan, unread, held, walked, given,
                         shown, atYield>>
          /\ tick' = [tick EXCEPT ![q] = t]
          /\ version' = [version EXCEPT ![q] = @ + 1]
      BY <1>3 DEF Change, walkVars, yieldVars
    <2>2. t \in Nat /\ t < Horizon
      <3>1. today \in Nat /\ t \in Nat /\ Horizon \in Nat
        BY ExtractAssumption DEF ExtractAssumption, SnapshotType
      <3>2. t <= Smaller(today, Horizon - 1)
        BY <1>3, <3>1 DEF Change, Smaller, Larger
      <3> QED
        BY <3>1, <3>2 DEF Smaller
    <2>3. version[q] + 1 \in Nat /\ tick \in [Rows -> Nat]
          /\ version \in [Rows -> Nat]
      BY DEF SnapshotType
    <2>4. tick' \in [Rows -> Nat] /\ version' \in [Rows -> Nat]
          /\ \A r \in Rows : tick'[r] # 0 => tick'[r] < Horizon
      BY <2>1, <2>2, <2>3 DEF SnapshotType
    <2> QED
      BY <2>1, <2>4 DEF SnapshotType, SnapshotShape, RankInv, Left
  <1>4. ASSUME NEW q \in Rows, NEW p \in Parts, Shift(q, p)
        PROVE  SnapshotInv'
    <2>1. /\ UNCHANGED <<stream, today, version, pc, plan, unread, held, walked,
                         given, shown, atYield>>
          /\ \/ tick' = [tick EXCEPT ![q] = 0] /\ part' = part
             \/ tick' = tick /\ part' = [part EXCEPT ![q] = p]
      BY <1>4 DEF Shift, walkVars, yieldVars
    <2>2. tick' \in [Rows -> Nat] /\ part' \in [Rows -> Parts]
          /\ \A r \in Rows : tick'[r] # 0 => tick'[r] < Horizon
      <3>1. CASE tick' = [tick EXCEPT ![q] = 0] /\ part' = part
        <4>1. tick' \in [Rows -> Nat]
          BY <3>1 DEF SnapshotType
        <4>2. \A r \in Rows : tick'[r] # 0 => tick'[r] = tick[r]
          BY <3>1 DEF SnapshotType
        <4> QED
          BY <3>1, <4>1, <4>2 DEF SnapshotType
      <3>2. CASE tick' = tick /\ part' = [part EXCEPT ![q] = p]
        BY <3>2 DEF SnapshotType
      <3> QED
        BY <2>1, <3>1, <3>2
    <2> QED
      BY <2>1, <2>2 DEF SnapshotType, SnapshotShape, RankInv, Left
  <1>5. CASE Begin
    <2>1. /\ UNCHANGED <<stream, today, tick, part, version, unread, held, atYield, given>>
          /\ pc = "idle" /\ pc' = "walk" /\ plan' = Plan(today)
          /\ walked' = 0 /\ Left' = plan'
      BY <1>5 DEF Begin, serviceVars, Left
    <2>2. stream \in Snapshots
      BY DEF SnapshotType
    <2>3. plan' \in Seq(Units) /\ (stream \in Capped => Ranked(plan', 0))
      BY <2>1, <2>2, SnapshotPlan
    <2> QED
      BY <2>1, <2>3 DEF SnapshotType, SnapshotShape, RankInv
  <1>6. CASE Fetch
    <2>1. /\ UNCHANGED <<stream, today, tick, part, version, plan, held, atYield, given,
                         shown>>
          /\ pc = "walk" /\ pc' = "unit" /\ plan # <<>>
          /\ unread' = Answer(Head(plan))
          /\ walked' = IF stream \in Capped THEN walked + 1 ELSE walked
          /\ Left = plan /\ Left' = Tail(plan)
      BY <1>6 DEF Fetch, serviceVars, yieldVars, Left, Capped
    <2>2. unread' \subseteq Records
      BY <2>1, AnswerRow DEF SnapshotType
    <2>3. plan \in Seq(Units) /\ walked \in Nat
      BY DEF SnapshotType
    <2>4. stream \in Capped => Ranked(Tail(plan), walked + 1)
      BY <2>1, <2>3, RankedTail DEF RankInv
    <2> QED
      BY <2>1, <2>2, <2>3, <2>4 DEF SnapshotType, SnapshotShape, RankInv
  <1>7. CASE Break
    <2>1. /\ UNCHANGED <<stream, today, tick, part, version, unread, held, walked,
                         atYield, given, shown, pc>>
          /\ pc = "walk" /\ plan' = <<>> /\ Left' = <<>>
      BY <1>7 DEF Break, serviceVars, yieldVars, Left
    <2>2. plan' \in Seq(Units)
      BY <2>1
    <2> QED
      BY <2>1, <2>2 DEF SnapshotType, SnapshotShape, RankInv, Ranked
  <1>8. CASE MetaBisect
    BY <1>1, <1>8 DEF MetaBisect, Cursored
  <1>9. ASSUME NEW rec \in unread, NEW full \in BOOLEAN, Read(rec, full)
        PROVE  SnapshotInv'
    <2>1. /\ UNCHANGED <<stream, today, tick, part, version, plan, pc>>
          /\ pc = "unit" /\ unread' = unread \ {rec}
      BY <1>9 DEF Read, serviceVars
    <2>2. walked' = walked
      BY <1>1, <1>9 DEF Read, Cursored
    <2>3. \/ held' = {} /\ given' = given \cup (held \cup {rec}) /\ shown'
          \/ held' = held \cup {rec} /\ given' = given /\ (shown => shown')
      <3>1. CASE full
        BY <1>9, <3>1 DEF Read
      <3>2. CASE ~full
        BY <1>9, <3>2 DEF Read
      <3> QED
        BY <3>1, <3>2
    <2>4. held' \subseteq Records /\ given' \subseteq Records
      BY <2>3 DEF SnapshotType
    <2> QED
      BY <2>1, <2>2, <2>3, <2>4 DEF SnapshotType, SnapshotShape, RankInv, Left
  <1>10. CASE OtherPage
    BY <1>1, <1>10 DEF OtherPage, Cursored
  <1>11. CASE UnitEnd
    <2>1. /\ UNCHANGED <<stream, today, tick, part, version, unread, walked>>
          /\ pc = "unit" /\ pc' = "walk" /\ unread = {} /\ plan' = Tail(plan)
          /\ Left' = Left
      BY <1>11 DEF UnitEnd, serviceVars, Left
    <2>2. Yield(UnitObserved) \/ GoOn(UnitObserved)
      BY <1>11 DEF UnitEnd
    <2>3. \/ held' = {} /\ given' = given \cup held /\ shown'
          \/ held' = held /\ given' = given /\ shown' = shown
      BY <2>2 DEF Yield, GoOn
    <2>4. plan' \in Seq(Units)
      BY <2>1, PlanHead DEF SnapshotType, SnapshotShape
    <2> QED
      BY <2>1, <2>3, <2>4 DEF SnapshotType, SnapshotShape, RankInv
  <1>12. CASE CapReached
    BY <1>1, <1>12 DEF CapReached, Cursored
  <1>13. CASE WalkEnd
    <2>1. /\ UNCHANGED <<stream, today, tick, part, version, unread, walked, plan>>
          /\ pc = "walk" /\ pc' = "done" /\ plan = <<>> /\ Left' = Left
      BY <1>13 DEF WalkEnd, serviceVars, Left
    <2>2. \/ Yield(EndObserved)
          \/ GoOn(EndObserved) /\ held = {} /\ (stream \in Emitting => shown)
      BY <1>13 DEF WalkEnd, YieldsNothing, Emitting
    <2>3. /\ held' = {} /\ given' = given \cup held
          /\ shown' \/ (shown' = shown /\ held = {} /\ (stream \in Emitting => shown))
      BY <2>2 DEF Yield, GoOn
    <2> QED
      BY <2>1, <2>3 DEF SnapshotType, SnapshotShape, RankInv
  <1>14. ASSUME NEW write \in BOOLEAN, Resume(write)
         PROVE  SnapshotInv'
    <2>1. /\ UNCHANGED <<stream, today, tick, part, version, pc, plan, unread, held,
                         walked, shown>>
          /\ ~atYield'
      BY <1>14 DEF Resume, serviceVars, walkVars
    <2>2. given' = given
      BY <1>1, <1>14 DEF Resume
    <2> QED
      BY <2>1, <2>2 DEF SnapshotType, SnapshotShape, RankInv, Left
  <1>15. CASE Commit
    <2>1. /\ UNCHANGED <<stream, today, tick, part, version, plan, unread, held,
                         atYield>>
          /\ pc = "done" /\ pc' = "idle" /\ given' = {} /\ walked' = 0
          /\ ~atYield /\ plan = <<>> /\ Left' = <<>>
      BY <1>15 DEF Commit, serviceVars, SnapshotShape, Left
    <2> QED
      BY <2>1 DEF SnapshotType, SnapshotShape, RankInv, Ranked
  <1>16. CASE Kill
    <2>1. /\ UNCHANGED <<stream, today, tick, part, version>>
          /\ pc' = "idle" /\ plan' = <<>> /\ unread' = {} /\ held' = {}
          /\ walked' = 0 /\ ~atYield' /\ given' = {} /\ Left' = <<>>
      BY <1>16 DEF Kill, serviceVars, Left
    <2>2. plan' \in Seq(Units)
      BY <2>1
    <2> QED
      BY <2>1, <2>2 DEF SnapshotType, SnapshotShape, RankInv, Ranked
  <1>17. CASE UNCHANGED vars
    BY <1>17 DEF vars, serviceVars, walkVars, yieldVars, SnapshotType,
                 SnapshotShape, RankInv, Left
  <1> QED
    BY <1>2, <1>3, <1>4, <1>5, <1>6, <1>7, <1>8, <1>9, <1>10, <1>11, <1>12,
       <1>13, <1>14, <1>15, <1>16, <1>17 DEF Next, Run
-----------------------------------------------------------------------------
(* Runs at rest: the invariant.                                            *)

\* What a run may leave out though the service rests.
LeftOut(r) ==
    \/ stream \in CompleteDays /\ tick[r] >= ranOn
    \/ stream \in Capped /\ Cap < RankOf(part[r])
    \/ /\ stream = "conversation_parts"
       /\ Cap < Cardinality({q \in Rows : tick[q] \in 1 .. tick[r]})

\* Where a row is while the service rests.  The table of a snapshot is
\* replaced: what it holds counts for nothing.
Placed(r) ==
    \/ Drops(r) \/ LeftOut(r)
    \/ stream \in Cursored /\ landed[r] = version[r]
    \/ Has(unread \cup held \cup given, r, version[r])
    \/ Asked(Left, r)

PlacedInv == steady /\ pc # "idle" => \A r \in Rows : tick[r] # 0 => Placed(r)

\* What the run has in hand is what the service has.
RecordsInv ==
    steady => \A rec \in unread \cup held \cup given :
        /\ rec.version = version[rec.row] /\ rec.tick = tick[rec.row]
        /\ rec.tick # 0

\* The conversations that have been gone through, or passed.
Done ==
    {q \in Rows :
        /\ tick[q] # 0
        /\ \A i \in DOMAIN Left : tick[q] < Left[i].first
        /\ \A rec \in unread : rec.row # q /\ tick[q] <= rec.tick}

\* The cap counts no conversation twice.
DoneInv ==
    steady /\ stream = "conversation_parts" /\ pc \in {"walk", "unit"} =>
        walked <= Cardinality(Done)

SteadyInv ==
    walked \in Nat /\ RecordsInv /\ PlacedInv /\ DoneInv /\ SteadyRunIsExact

\* What holds of every stream, with a cursor or without.
BaseInv ==
    /\ stream \in Cursored \cup Snapshots
    /\ tick \in [Rows -> Nat] /\ version \in [Rows -> Nat]
    /\ unread \subseteq Records /\ held \subseteq Records /\ given \subseteq Records
    /\ plan \in Seq(Units) /\ pc \in {"idle", "walk", "unit", "done"}
    /\ pc = "idle" => given = {} /\ ~atYield
    /\ pc # "unit" => unread = {}
    /\ pc \in {"idle", "done"} => plan = <<>> /\ held = {}
    /\ pc = "unit" => plan # <<>>

LEMMA BaseHolds ==
    ASSUME ExtractInv \/ SnapshotInv
    PROVE  BaseInv
  <1>1. CASE ExtractInv
    BY <1>1 DEF ExtractInv, ExtractType, ShapeInv, BaseInv
  <1>2. CASE SnapshotInv
    BY <1>2 DEF SnapshotInv, SnapshotType, SnapshotShape, BaseInv
  <1> QED
    BY <1>1, <1>2

\* The parts are counted from one on, and each number is that of a part.
LEMMA RankOfNth ==
    ASSUME NEW k \in 1 .. Cardinality(Parts)
    PROVE  RankOf(Nth(k)) = k
  <1> DEFINE n == Cardinality(Parts)
             f == [p \in Parts |-> RankOf(p)]
  <1>1. Parts \subseteq Nat /\ IsFiniteSet(Parts) /\ n \in Nat
    BY PartsAreFinite, ExtractAssumption DEF ExtractAssumption
  <1>2. \A p \in Parts : RankOf(p) \in 1 .. n
    BY RankIsListed
  <1>3. ASSUME NEW p \in Parts, NEW q \in Parts, f[p] = f[q]
        PROVE  p = q
    BY <1>3, SameRank
  <1>4. f \in Injection(Parts, 1 .. n)
    <2>1. f \in [Parts -> 1 .. n]
      BY <1>2
    <2> QED
      BY <1>3, <2>1 DEF Injection, IsInjective
  <1>5. IsFiniteSet(1 .. n) /\ Cardinality(1 .. n) = n
    BY <1>1, FS_Interval
  <1>6. f \in Surjection(Parts, 1 .. n)
    <2> HIDE DEF f
    <2> QED
      BY <1>4, <1>5, FS_Injection
  <1>7. PICK p \in Parts : RankOf(p) = k
    BY <1>6 DEF Surjection
  <1>8. Nth(k) = CHOOSE q \in Parts : RankOf(q) = k
    BY DEF Nth, RankOf
  <1> QED
    BY <1>7, <1>8

LEMMA LeftOutStays ==
    ASSUME Calm, ranOn' = ranOn, NEW r, LeftOut(r)
    PROVE  LeftOut(r)'
  BY DEF LeftOut, RankOf, Calm

LEMMA PlacedStays ==
    ASSUME Calm, UNCHANGED <<ranOn, landed>>, LeftStays,
           unread \cup held \cup given \subseteq (unread \cup held \cup given)',
           NEW r \in Rows, Placed(r)
    PROVE  Placed(r)'
  <1>1. CASE Drops(r)
    BY <1>1, DropsStay DEF Placed, Calm
  <1>2. CASE LeftOut(r)
    BY <1>2, LeftOutStays DEF Placed
  <1>3. CASE stream \in Cursored /\ landed[r] = version[r]
    BY <1>3 DEF Placed, Calm
  <1>4. CASE Has(unread \cup held \cup given, r, version[r])
    BY <1>4 DEF Placed, Has, Calm
  <1>5. CASE Asked(Left, r)
    BY <1>5 DEF Placed, LeftStays
  <1> QED
    BY <1>1, <1>2, <1>3, <1>4, <1>5 DEF Placed

\* A step within the run that moves records and fetches none.
LEMMA SteadyRests ==
    ASSUME SteadyInv, Calm, UNCHANGED <<steady, ranOn, landed>>, LeftStays,
           (unread \cup held \cup given)' = unread \cup held \cup given,
           pc # "idle", pc' # "idle", walked' \in Nat, DoneInv'
    PROVE  SteadyInv'
  <1>1. RecordsInv'
    BY DEF SteadyInv, RecordsInv, Calm
  <1>2. PlacedInv'
    BY PlacedStays DEF SteadyInv, PlacedInv, Calm
  <1>3. SteadyRunIsExact'
    BY DEF SteadyRunIsExact
  <1> QED
    BY <1>1, <1>2, <1>3 DEF SteadyInv

\* Nothing more is fetched or gone through.
LEMMA DoneRests ==
    ASSUME DoneInv, Calm, UNCHANGED <<steady, walked, unread>>, Left' = Left,
           pc \in {"walk", "unit"}
    PROVE  DoneInv'
  <1>1. Done' = Done
    BY DEF Done, Calm
  <1> QED
    BY <1>1 DEF DoneInv, Calm

LEMMA HandsOn ==
    ASSUME NEW value, Yield(value) \/ GoOn(value)
    PROVE  (held \cup given)' = held \cup given
  BY DEF Yield, GoOn

\* The service changes, or the run is killed: it is not at rest any more.
LEMMA RestEnds ==
    ASSUME SteadyInv, ~steady', walked' \in Nat
    PROVE  SteadyInv'
  BY DEF SteadyInv, RecordsInv, PlacedInv, DoneInv, SteadyRunIsExact

LEMMA SteadyBegins ==
    ASSUME SteadyInv, Begin, \/ stream \in Cursored /\ ExtractInv
                             \/ stream \in Snapshots /\ SnapshotInv
    PROVE  SteadyInv'
  <1>1. /\ Calm /\ UNCHANGED <<landed, saved, unread, held, given>>
        /\ pc = "idle" /\ pc' = "walk" /\ ranOn' = today
        /\ plan' = Plan(today) /\ Left' = Plan(today) /\ walked' = 0
    BY DEF Begin, Calm, serviceVars, tableVars, Left
  <1>2. BaseInv
    BY BaseHolds
  <1>3. RecordsInv'
    BY <1>1, <1>2 DEF BaseInv, RecordsInv
  <1>4. PlacedInv'
    <2>1. SUFFICES ASSUME NEW r \in Rows, tick[r] # 0
                   PROVE  Placed(r)'
      BY <1>1 DEF PlacedInv, Calm
    <2>2. ASSUME Asked(Plan(today), r)
          PROVE  Placed(r)'
      BY <1>1, <2>2 DEF Placed, Asked, Calm
    <2>3. CASE stream \in Snapshots /\ SnapshotInv
      <3>1. part[r] \in Parts /\ tick[r] \in 0 .. Horizon
        BY <2>1, <2>3, ExtractAssumption
           DEF SnapshotInv, SnapshotType, ExtractAssumption
      <3>2. Covers(Plan(today), part[r], tick[r])
        BY <2>3, <3>1, SnapshotPlan
      <3> QED
        BY <2>2, <3>2 DEF Asked
    <2>4. CASE stream \in Cursored /\ ExtractInv
      <3> USE DEF ExtractInv
      <3>1. today \in Nat \ {0} /\ saved \in Nat /\ saved <= today
        BY <2>4 DEF ExtractType, MarksInv, Marks
      <3>2. SoundPlan(Plan(today), today)
        BY <2>4, <3>1, PlanIsSound
      <3>3. CASE Behind(r, saved)
        <4>1. Current(r)
          BY <2>4, <3>3 DEF SafeInv
        <4>2. Drops(r)' <=> Drops(r)
          BY <1>1, DropsStay DEF Calm
        <4> QED
          BY <1>1, <2>4, <4>1, <4>2 DEF Current, Placed, Calm
      <3>4. CASE Open /\ ~Behind(r, saved)
        <4>1. From(saved) \in Int
          BY <2>4, <3>1, FromIs
        <4>2. From(saved) <= tick[r] /\ tick[r] \in 1 .. Horizon
          BY <2>1, <2>4, <3>4, <4>1, ExtractAssumption
             DEF Behind, ExtractType, ExtractAssumption
        <4>3. Covers(Plan(today), part[r], tick[r])
          BY <3>2, <3>4, <4>2 DEF SoundPlan, AsksFrom
        <4> QED
          BY <2>2, <4>3 DEF Asked
      <3>5. CASE Later(r, today)
        <4>1. stream \in CompleteDays /\ today <= tick[r]
          BY <2>1, <2>4, <3>1, <3>5 DEF Later, ExtractType
        <4>2. LeftOut(r)'
          BY <1>1, <2>4, <3>1, <4>1 DEF LeftOut, Calm, ExtractType
        <4> QED
          BY <4>2 DEF Placed
      <3> QED
        BY <2>1, <2>2, <3>2, <3>3, <3>4, <3>5 DEF SoundPlan
    <2> QED
      BY <2>3, <2>4
  <1>5. DoneInv'
    <2>1. IsFiniteSet(Rows) /\ Done' \in SUBSET Rows
      BY ExtractAssumption DEF ExtractAssumption, Done
    <2>2. Cardinality(Done') \in Nat
      BY <2>1, FS_Subset, FS_CardinalityType
    <2>3. Cardinality(Done)' = Cardinality(Done')
      OBVIOUS
    <2> QED
      BY <1>1, <2>2, <2>3 DEF DoneInv
  <1>6. SteadyRunIsExact'
    BY <1>1 DEF SteadyRunIsExact
  <1> QED
    BY <1>1, <1>3, <1>4, <1>5, <1>6 DEF SteadyInv

LEMMA DoneIsFinite == IsFiniteSet(Done) /\ Cardinality(Done) \in Nat
  <1>1. IsFiniteSet(Rows) /\ Done \in SUBSET Rows
    BY ExtractAssumption DEF ExtractAssumption, Done
  <1> QED
    BY <1>1, FS_Subset, FS_CardinalityType

LEMMA DoneIsFiniteNext == IsFiniteSet(Done') /\ Cardinality(Done') \in Nat
  <1>1. IsFiniteSet(Rows) /\ Done' \in SUBSET Rows
    BY ExtractAssumption DEF ExtractAssumption, Done
  <1> QED
    BY <1>1, FS_Subset, FS_CardinalityType

LEMMA SteadyFetches ==
    ASSUME BaseInv, SteadyInv, Fetch
    PROVE  SteadyInv'
  <1>1. /\ Calm /\ UNCHANGED <<landed, steady, ranOn, plan, held, given>>
        /\ pc = "walk" /\ pc' = "unit" /\ plan # <<>> /\ plan \in Seq(Units)
        /\ unread = {} /\ unread' = Answer(Head(plan))
        /\ Left = plan /\ Left' = Tail(plan)
        /\ walked' \in {walked, walked + 1}
        /\ stream = "conversation_parts" => walked' = walked
    BY DEF Fetch, Calm, serviceVars, tableVars, yieldVars, BaseInv, Left
  <1>2. \A rec \in Answer(Head(plan)) :
            /\ rec.version = version[rec.row] /\ rec.tick = tick[rec.row]
            /\ rec.tick # 0
    BY AnswerRow
  <1>3. RecordsInv'
    BY <1>1, <1>2 DEF SteadyInv, RecordsInv, Calm
  <1>4. PlacedInv'
    <2>1. SUFFICES ASSUME steady, NEW r \in Rows, tick[r] # 0
                   PROVE  Placed(r)'
      BY <1>1 DEF PlacedInv, Calm
    <2>2. Placed(r)
      BY <1>1, <2>1 DEF SteadyInv, PlacedInv
    <2>3. CASE Drops(r)
      BY <1>1, <2>3, DropsStay DEF Placed, Calm
    <2>4. CASE LeftOut(r)
      BY <1>1, <2>4, LeftOutStays DEF Placed
    <2>5. CASE stream \in Cursored /\ landed[r] = version[r]
      BY <1>1, <2>5 DEF Placed, Calm
    <2>6. CASE Has(unread \cup held \cup given, r, version[r])
      BY <1>1, <2>6 DEF Placed, Has, Calm
    <2>7. CASE Asked(plan, r)
      <3>1. CASE Has(Answer(Head(plan)), r, version[r])
        BY <1>1, <3>1 DEF Placed, Has, Calm
      <3>2. CASE Asked(Tail(plan), r)
        BY <1>1, <3>2 DEF Placed, Asked, Calm
      <3> QED
        BY <1>1, <2>1, <2>3, <2>7, <3>1, <3>2, FetchedOrLeft
    <2> QED
      BY <1>1, <2>2, <2>3, <2>4, <2>5, <2>6, <2>7 DEF Placed
  <1>5. DoneInv'
    <2>1. SUFFICES ASSUME steady, stream = "conversation_parts"
                   PROVE  walked' <= Cardinality(Done')
      BY <1>1 DEF DoneInv, Calm
    <2>2. ASSUME NEW q \in Done
          PROVE  q \in Done'
      <3>1. q \in Rows /\ tick[q] # 0 /\ \A i \in DOMAIN plan : tick[q] < plan[i].first
        BY <1>1 DEF Done
      <3>2. \A i \in DOMAIN Tail(plan) : tick[q] < Tail(plan)[i].first
        BY <1>1, <3>1, PlanHead
      <3>3. ASSUME NEW rec \in Answer(Head(plan))
            PROVE  rec.row # q /\ tick[q] <= rec.tick
        <4>1. tick[q] < Head(plan).first /\ Head(plan).first \in Int
          BY <1>1, <3>1, PlanHead DEF Units
        <4>2. rec.tick = tick[rec.row] /\ rec.row \in Rows
              /\ tick[rec.row] \in Head(plan).first .. Head(plan).last
          BY AnswerRow
        <4>3. tick[q] \in Nat /\ tick[rec.row] \in Nat
              /\ Head(plan).first <= tick[rec.row]
          BY <1>1, <3>1, <4>2, PlanHead DEF BaseInv
        <4> QED
          BY <4>1, <4>2, <4>3
      <3> QED
        BY <1>1, <3>1, <3>2, <3>3 DEF Done, Calm
    <2>3. Cardinality(Done) <= Cardinality(Done')
      BY <2>2, DoneIsFiniteNext, FS_Subset
    <2> QED
      BY <1>1, <2>1, <2>3, DoneIsFinite, DoneIsFiniteNext DEF SteadyInv, DoneInv
  <1>6. SteadyRunIsExact'
    BY <1>1 DEF SteadyRunIsExact
  <1> QED
    BY <1>1, <1>3, <1>4, <1>5, <1>6 DEF SteadyInv

LEMMA SteadyReads ==
    ASSUME BaseInv, stream \in Cursored => ExtractInv, SteadyInv,
           NEW rec \in unread, NEW full \in BOOLEAN, Read(rec, full)
    PROVE  SteadyInv'
  <1>1. /\ Calm /\ UNCHANGED <<landed, steady, ranOn, plan, pc>>
        /\ pc = "unit" /\ unread' = unread \ {rec} /\ Left' = Left
        /\ \A other \in unread : Comes(rec, other)
        /\ walked' = IF stream = "conversation_parts" THEN walked + 1 ELSE walked
    BY DEF Read, Calm, serviceVars, tableVars, Left
  <1>2. \/ held' = {} /\ given' = given \cup (held \cup {rec})
        \/ held' = held \cup {rec} /\ given' = given
    <2>1. CASE full
      BY <2>1 DEF Read
    <2>2. CASE ~full
      BY <2>2 DEF Read
    <2> QED
      BY <2>1, <2>2
  <1>3. (unread \cup held \cup given)' = unread \cup held \cup given
    BY <1>1, <1>2
  <1>4. DoneInv'
    <2>1. SUFFICES ASSUME steady, stream = "conversation_parts"
                   PROVE  walked + 1 <= Cardinality(Done')
      BY <1>1 DEF DoneInv, Calm
    <2>2. /\ rec \in Records /\ rec.row \in Rows /\ rec.tick = tick[rec.row]
          /\ rec.tick # 0 /\ rec.tick \in Nat
      BY <2>1 DEF BaseInv, SteadyInv, RecordsInv, Records
    <2>3. rec.row \notin Done
      BY DEF Done
    <2>4. Done \subseteq Done'
      BY <1>1 DEF Done, Calm
    <2>5. rec.row \in Done'
      <3>1. PlanInv /\ UnreadInv /\ plan \in Seq(Units) /\ plan # <<>>
        BY <1>1, <2>1 DEF ExtractInv, Cursored, BaseInv
      <3>2. ASSUME NEW i \in DOMAIN Tail(plan)
            PROVE  rec.tick < Tail(plan)[i].first
        <4>1. /\ 1 \in DOMAIN plan /\ i + 1 \in DOMAIN plan /\ 1 < i + 1
              /\ Tail(plan)[i] = plan[i + 1] /\ Head(plan) = plan[1]
              /\ plan[i + 1] \in Units /\ Head(plan).last \in Int
          BY <3>1, PlanHead
        <4>2. plan[1].last < plan[i + 1].first /\ plan[i + 1].first \in Int
          BY <2>1, <3>1, <4>1 DEF PlanInv, InOrder, Sorted, Units
        <4>3. rec.tick <= Head(plan).last
          BY <3>1 DEF UnreadInv
        <4> QED
          BY <2>2, <4>1, <4>2, <4>3
      <3>3. ASSUME NEW other \in unread'
            PROVE  other.row # rec.row /\ rec.tick <= other.tick
        <4>1. other \in unread /\ other # rec /\ other \in Records
          BY <1>1 DEF BaseInv
        <4>2. rec.tick <= other.tick
          BY <1>1, <2>1, <4>1 DEF Comes
        <4>3. other.row = rec.row => other = rec
          BY <2>1, <2>2, <4>1 DEF SteadyInv, RecordsInv, Records
        <4> QED
          BY <4>1, <4>2, <4>3
      <3>4. Left' = Tail(plan)
        BY <1>1 DEF Left
      <3> QED
        BY <1>1, <2>2, <3>2, <3>3, <3>4 DEF Done, Calm
    <2>6. Done \cup {rec.row} \in SUBSET Done'
      BY <2>4, <2>5
    <2>7. Cardinality(Done \cup {rec.row}) = Cardinality(Done) + 1
      BY <2>3, DoneIsFinite, FS_AddElement
    <2>8. Cardinality(Done) + 1 <= Cardinality(Done')
      BY <2>6, <2>7, DoneIsFiniteNext, FS_Subset
    <2>9. walked <= Cardinality(Done)
      BY <1>1, <2>1 DEF SteadyInv, DoneInv
    <2> QED
      BY <2>8, <2>9, DoneIsFinite, DoneIsFiniteNext DEF SteadyInv
  <1>5. LeftStays
    BY <1>1, NothingNewToFetch
  <1>6. walked' \in Nat
    BY <1>1 DEF SteadyInv
  <1> QED
    BY <1>1, <1>3, <1>4, <1>5, <1>6, SteadyRests

\* The parents left out are those beyond the cap.
LEMMA SteadyBreaks ==
    ASSUME BaseInv, stream \in Snapshots => SnapshotInv, SteadyInv, Break
    PROVE  SteadyInv'
  <1>1. /\ Calm /\ UNCHANGED <<landed, steady, ranOn, unread, held, given, walked,
                               pc>>
        /\ pc = "walk" /\ stream \in Capped /\ walked >= Cap
        /\ Left = plan /\ Left' = <<>>
    BY DEF Break, AtCap, Calm, serviceVars, tableVars, yieldVars, Left, Capped
  <1>2. RecordsInv' /\ DoneInv' /\ SteadyRunIsExact' /\ walked' \in Nat
    BY <1>1 DEF SteadyInv, RecordsInv, DoneInv, SteadyRunIsExact, Capped, Calm
  <1>3. PlacedInv'
    <2>1. SUFFICES ASSUME steady, NEW r \in Rows, tick[r] # 0
                   PROVE  Placed(r)'
      BY <1>1 DEF PlacedInv, Calm
    <2>2. Placed(r)
      BY <1>1, <2>1 DEF SteadyInv, PlacedInv
    <2>3. CASE Drops(r)
      BY <1>1, <2>3, DropsStay DEF Placed, Calm
    <2>4. CASE LeftOut(r)
      BY <1>1, <2>4, LeftOutStays DEF Placed
    <2>5. CASE stream \in Cursored /\ landed[r] = version[r]
      BY <1>1, <2>5 DEF Placed, Calm
    <2>6. CASE Has(unread \cup held \cup given, r, version[r])
      BY <1>1, <2>6 DEF Placed, Has, Calm
    <2>7. CASE Asked(plan, r)
      <3>1. PICK i \in DOMAIN plan : Within(plan[i], part[r], tick[r])
        BY <2>7 DEF Asked, Covers
      <3>2. stream \in Snapshots
        BY <1>1 DEF Capped, Snapshots
      <3>3. Ranked(plan, walked)
        BY <1>1, <3>2 DEF SnapshotInv, RankInv
      <3>4. PICK k \in 1 .. Cardinality(Parts) :
                plan[i].parts = {Nth(k)} /\ walked + i <= k
        BY <3>3 DEF Ranked
      <3>5. part[r] = Nth(k)
        BY <3>1, <3>4 DEF Within
      <3>6. RankOf(part[r]) = k
        BY <3>5, RankOfNth
      <3>7. i \in Nat \ {0}
        BY LenProperties DEF BaseInv
      <3>8. Cap < k
        BY <1>1, <3>4, <3>7, ExtractAssumption
           DEF SteadyInv, ExtractAssumption
      <3>9. LeftOut(r)
        BY <1>1, <3>6, <3>8 DEF LeftOut
      <3> QED
        BY <2>4, <3>9
    <2> QED
      BY <1>1, <2>2, <2>3, <2>4, <2>5, <2>6, <2>7 DEF Placed
  <1> QED
    BY <1>2, <1>3 DEF SteadyInv

LEMMA SteadyHalves ==
    ASSUME ExtractType, SteadyInv, MetaBisect
    PROVE  SteadyInv'
  <1>1. /\ Calm /\ UNCHANGED <<landed, steady, ranOn, unread, held, given, walked,
                               pc>>
        /\ stream = "insights" /\ pc = "walk" /\ Left = plan /\ Left' = plan'
    BY DEF MetaBisect, Calm, serviceVars, tableVars, yieldVars, Left
  <1>2. LeftStays
    BY <1>1, Halves DEF LeftStays, Asked, Calm
  <1>3. DoneInv' /\ walked' \in Nat
    BY <1>1 DEF DoneInv, SteadyInv, Calm
  <1> QED
    BY <1>1, <1>2, <1>3, SteadyRests

LEMMA SteadyPages ==
    ASSUME SteadyInv, OtherPage
    PROVE  SteadyInv'
  <1>1. /\ Calm /\ UNCHANGED <<landed, steady, ranOn, plan, unread, walked, pc>>
        /\ pc = "unit" /\ Left' = Left /\ Yield(IntercomYielded)
    BY DEF OtherPage, Calm, serviceVars, tableVars, Left
  <1>2. (held \cup given)' = held \cup given
    BY <1>1, HandsOn
  <1>3. LeftStays
    BY <1>1, NothingNewToFetch
  <1>4. DoneInv' /\ walked' \in Nat
    BY <1>1, DoneRests DEF SteadyInv
  <1> QED
    BY <1>1, <1>2, <1>3, <1>4, SteadyRests

LEMMA SteadyUnits ==
    ASSUME SteadyInv, UnitEnd
    PROVE  SteadyInv'
  <1>1. /\ Calm /\ UNCHANGED <<landed, steady, ranOn, unread, walked>>
        /\ pc = "unit" /\ pc' = "walk" /\ Left' = Left
        /\ Yield(UnitObserved) \/ GoOn(UnitObserved)
    <2>1. Yield(UnitObserved) \/ GoOn(UnitObserved)
      BY DEF UnitEnd
    <2> QED
      BY <2>1 DEF UnitEnd, Calm, serviceVars, tableVars, Left
  <1>2. (held \cup given)' = held \cup given
    BY <1>1, HandsOn
  <1>3. LeftStays
    BY <1>1, NothingNewToFetch
  <1>4. DoneInv' /\ walked' \in Nat
    BY <1>1, DoneRests DEF SteadyInv
  <1> QED
    BY <1>1, <1>2, <1>3, <1>4, SteadyRests

LEMMA SteadyEnds ==
    ASSUME SteadyInv, WalkEnd
    PROVE  SteadyInv'
  <1>1. /\ Calm /\ UNCHANGED <<landed, steady, ranOn, plan, unread, walked>>
        /\ pc = "walk" /\ pc' = "done" /\ Left' = Left
        /\ Yield(EndObserved) \/ GoOn(EndObserved)
    <2>1. Yield(EndObserved) \/ GoOn(EndObserved)
      BY DEF WalkEnd
    <2> QED
      BY <2>1 DEF WalkEnd, Calm, serviceVars, tableVars, Left
  <1>2. (held \cup given)' = held \cup given
    BY <1>1, HandsOn
  <1>3. LeftStays
    BY <1>1, NothingNewToFetch
  <1>4. DoneInv' /\ walked' \in Nat
    BY <1>1 DEF DoneInv, SteadyInv
  <1> QED
    BY <1>1, <1>2, <1>3, <1>4, SteadyRests

\* A conversation that the cap leaves out comes after all that were counted.
LEMMA BeyondTheCap ==
    ASSUME BaseInv, SteadyInv, steady, stream = "conversation_parts",
           pc = "unit", walked >= Cap, NEW r \in Rows, tick[r] # 0,
           Has(unread, r, version[r]) \/ Asked(Left, r)
    PROVE  LeftOut(r)
  <1> DEFINE upTo == {q \in Rows : tick[q] \in 1 .. tick[r]}
  <1>1. \A q \in Done : q # r /\ tick[q] <= tick[r]
    <2> SUFFICES ASSUME NEW q \in Done
                 PROVE  q # r /\ tick[q] <= tick[r]
      OBVIOUS
    <2>1. q \in Rows /\ tick[q] \in Nat /\ tick[r] \in Nat
      BY DEF Done, BaseInv
    <2>2. CASE Has(unread, r, version[r])
      <3>1. PICK rec \in unread : rec.row = r
        BY <2>2 DEF Has
      <3>2. rec.tick = tick[r]
        BY <3>1 DEF SteadyInv, RecordsInv
      <3> QED
        BY <3>1, <3>2 DEF Done
    <2>3. CASE Asked(Left, r)
      <3>1. PICK i \in DOMAIN Left : Within(Left[i], part[r], tick[r])
        BY <2>3 DEF Asked, Covers
      <3>2. Left = Tail(plan) /\ plan # <<>> /\ plan \in Seq(Units)
        BY DEF Left, BaseInv
      <3>3. Left[i] \in Units
        BY <3>1, <3>2, PlanHead
      <3>4. Left[i].first <= tick[r] /\ Left[i].first \in Int
        BY <3>1, <3>3 DEF Within, Units
      <3>5. tick[q] < Left[i].first
        BY <3>1 DEF Done
      <3> QED
        BY <2>1, <3>4, <3>5
    <2> QED
      BY <2>2, <2>3
  <1>2. Done \cup {r} \in SUBSET upTo
    <2>1. ASSUME NEW q \in Done
          PROVE  q \in upTo
      <3>1. q \in Rows /\ tick[q] # 0 /\ tick[q] \in Nat /\ tick[r] \in Nat
        BY DEF Done, BaseInv
      <3> QED
        BY <1>1, <3>1
    <2>2. r \in upTo
      BY DEF BaseInv
    <2> QED
      BY <2>1, <2>2
  <1>3. IsFiniteSet(upTo)
    <2>1. IsFiniteSet(Rows) /\ upTo \in SUBSET Rows
      BY ExtractAssumption DEF ExtractAssumption
    <2> QED
      BY <2>1, FS_Subset
  <1>4. LeftOut(r) <=> \/ stream \in CompleteDays /\ tick[r] >= ranOn
                       \/ stream \in Capped /\ Cap < RankOf(part[r])
                       \/ Cap < Cardinality(upTo)
    BY DEF LeftOut
  <1> HIDE DEF upTo
  <1>5. Cardinality(Done \cup {r}) = Cardinality(Done) + 1
    BY <1>1, DoneIsFinite, FS_AddElement
  <1>6. Cardinality(Done) + 1 <= Cardinality(upTo) /\ Cardinality(upTo) \in Nat
    BY <1>2, <1>3, <1>5, FS_Subset, FS_CardinalityType
  <1>7. walked <= Cardinality(Done) /\ walked \in Nat /\ Cap \in Nat
    BY ExtractAssumption DEF SteadyInv, DoneInv, ExtractAssumption
  <1> QED
    BY <1>4, <1>6, <1>7, DoneIsFinite

LEMMA SteadyIsCapped ==
    ASSUME BaseInv, SteadyInv, CapReached
    PROVE  SteadyInv'
  <1>1. /\ Calm /\ UNCHANGED <<landed, steady, ranOn, walked>>
        /\ stream = "conversation_parts" /\ walked >= Cap
        /\ pc = "unit" /\ pc' = "done" /\ unread' = {}
        /\ Yield(0) \/ GoOn(0)
    <2>1. Yield(0) \/ GoOn(0)
      BY DEF CapReached
    <2> QED
      BY <2>1 DEF CapReached, AtCap, Calm, serviceVars, tableVars
  <1>2. (held \cup given)' = held \cup given
    BY <1>1, HandsOn
  <1>3. RecordsInv'
    BY <1>1, <1>2 DEF SteadyInv, RecordsInv, Calm
  <1>4. PlacedInv'
    <2>1. SUFFICES ASSUME steady, NEW r \in Rows, tick[r] # 0
                   PROVE  Placed(r)'
      BY <1>1 DEF PlacedInv, Calm
    <2>2. Placed(r)
      BY <1>1, <2>1 DEF SteadyInv, PlacedInv
    <2>3. CASE Drops(r)
      BY <1>1, <2>3, DropsStay DEF Placed, Calm
    <2>4. CASE LeftOut(r)
      BY <1>1, <2>4, LeftOutStays DEF Placed
    <2>5. CASE stream \in Cursored /\ landed[r] = version[r]
      BY <1>1, <2>5 DEF Placed, Calm
    <2>6. CASE Has(held \cup given, r, version[r])
      BY <1>1, <1>2, <2>6 DEF Placed, Has, Calm
    <2>7. CASE Has(unread, r, version[r]) \/ Asked(Left, r)
      BY <1>1, <2>1, <2>4, <2>7, BeyondTheCap
    <2> QED
      BY <2>2, <2>3, <2>4, <2>5, <2>6, <2>7 DEF Placed, Has
  <1>5. DoneInv' /\ SteadyRunIsExact' /\ walked' \in Nat
    BY <1>1 DEF SteadyInv, DoneInv, SteadyRunIsExact
  <1> QED
    BY <1>3, <1>4, <1>5 DEF SteadyInv

\* What is written lands as the service has it.
LEMMA SteadyLands ==
    ASSUME BaseInv, SteadyInv, steady, NEW r \in Rows, Placed(r),
           ~Asked(Left, r), ~Has(unread \cup held, r, version[r])
    PROVE  \/ Drops(r) \/ LeftOut(r)
           \/ stream \in Cursored /\ Land(given)[r] = version[r]
           \/ Has(given, r, version[r]) /\ Land(given)[r] = version[r]
  <1>1. version[r] \in Int
    BY DEF BaseInv
  <1>2. \A rec \in given : rec.row = r => rec.version = version[r]
    BY DEF SteadyInv, RecordsInv
  <1>3. \/ Land(given)[r] = version[r]
        \/ Land(given)[r] = landed[r] /\ ~Has(given, r, version[r])
    BY <1>1, <1>2, LandIs
  <1>4. \/ Drops(r) \/ LeftOut(r)
        \/ stream \in Cursored /\ landed[r] = version[r]
        \/ Has(given, r, version[r])
    BY DEF Placed, Has
  <1> QED
    BY <1>3, <1>4

LEMMA SteadyResumes ==
    ASSUME BaseInv, SteadyInv, NEW write \in BOOLEAN, Resume(write)
    PROVE  SteadyInv'
  <1>1. /\ Calm /\ UNCHANGED <<steady, ranOn, plan, unread, held, walked, pc>>
        /\ pc # "idle" /\ Left' = Left
        /\ \/ UNCHANGED <<landed, given>>
           \/ stream \in Cursored /\ landed' = Land(given) /\ given' = {}
    BY DEF Resume, Calm, serviceVars, tableVars, walkVars, Left, BaseInv
  <1>2. LeftStays /\ walked' \in Nat
    BY <1>1, NothingNewToFetch DEF SteadyInv
  <1>3. DoneInv'
    <2>1. Done' = Done
      BY <1>1 DEF Done, Calm
    <2> QED
      BY <1>1, <2>1 DEF SteadyInv, DoneInv, Calm
  <1>4. CASE UNCHANGED <<landed, given>>
    BY <1>1, <1>2, <1>3, <1>4, SteadyRests
  <1>5. CASE stream \in Cursored /\ landed' = Land(given) /\ given' = {}
    <2>1. RecordsInv' /\ SteadyRunIsExact'
      BY <1>1, <1>5 DEF SteadyInv, RecordsInv, SteadyRunIsExact, Calm
    <2>2. PlacedInv'
      <3>1. SUFFICES ASSUME steady, NEW r \in Rows, tick[r] # 0
                     PROVE  Placed(r)'
        BY <1>1 DEF PlacedInv, Calm
      <3>2. Placed(r)
        BY <1>1, <3>1 DEF SteadyInv, PlacedInv
      <3>3. CASE Asked(Left, r)
        BY <1>2, <3>3 DEF LeftStays, Placed
      <3>4. CASE Has(unread \cup held, r, version[r])
        BY <1>1, <3>4 DEF Has, Placed, Calm
      <3>5. CASE Drops(r)
        BY <1>1, <3>5, DropsStay DEF Placed, Calm
      <3>6. CASE LeftOut(r)
        BY <1>1, <3>6, LeftOutStays DEF Placed
      <3>7. CASE Land(given)[r] = version[r]
        BY <1>1, <1>5, <3>7 DEF Placed, Calm
      <3> QED
        BY <3>1, <3>2, <3>3, <3>4, <3>5, <3>6, <3>7, SteadyLands
    <2> QED
      BY <1>2, <1>3, <2>1, <2>2 DEF SteadyInv
  <1> QED
    BY <1>1, <1>4, <1>5

LEMMA MaxWithNone ==
    ASSUME NEW v \in Nat
    PROVE  Max({0} \cup {v}) = v
  <1> DEFINE S == {0} \cup {v}
  <1>1. v \in S /\ \A y \in S : v >= y
    OBVIOUS
  <1>2. \A x \in S : (\A y \in S : x >= y) => x = v
    OBVIOUS
  <1>3. Max(S) = CHOOSE x \in S : \A y \in S : x >= y
    BY DEF Max
  <1> HIDE DEF S
  <1>4. Max(S) = v
    BY <1>1, <1>2, <1>3
  <1> QED
    BY <1>4 DEF S

\* A table that is swapped has the rows that were given, and no others.
LEMMA SwapIs ==
    ASSUME BaseInv, SteadyInv, steady, NEW r \in Rows
    PROVE  LET swapped ==
                   Max({0} \cup {rec.version : rec \in {q \in given : q.row = r}})
           IN /\ Has(given, r, version[r]) => swapped = version[r]
              /\ tick[r] = 0 => swapped = 0
  <1> DEFINE mine == {rec.version : rec \in {q \in given : q.row = r}}
  <1>1. \A rec \in given : rec.row = r => rec.version = version[r] /\ tick[r] # 0
    BY DEF SteadyInv, RecordsInv
  <1>2. version[r] \in Nat
    BY DEF BaseInv
  <1>3. ASSUME Has(given, r, version[r])
        PROVE  Max({0} \cup mine) = version[r]
    <2>1. mine = {version[r]}
      BY <1>1, <1>3 DEF Has
    <2> HIDE DEF mine
    <2> QED
      BY <1>2, <2>1, MaxWithNone
  <1>4. ASSUME tick[r] = 0
        PROVE  Max({0} \cup mine) = 0
    <2>1. mine = {}
      BY <1>1, <1>4
    <2> HIDE DEF mine
    <2>2. {0} \cup mine = {0} \cup {0} /\ 0 \in Nat
      BY <2>1
    <2> QED
      BY <2>2, MaxWithNone
  <1> QED
    BY <1>3, <1>4

LEMMA SteadyCommits ==
    ASSUME BaseInv, stream \in Snapshots => SnapshotInv, SteadyInv, Commit
    PROVE  SteadyInv'
  <1>1. /\ Calm /\ UNCHANGED <<steady, ranOn, unread, held>>
        /\ pc = "done" /\ pc' = "idle" /\ walked' = 0 /\ given' = {}
        /\ unread = {} /\ held = {} /\ Left = <<>>
    BY DEF Commit, Calm, serviceVars, BaseInv, Left
  <1>2. RecordsInv' /\ PlacedInv' /\ DoneInv' /\ walked' \in Nat
    BY <1>1 DEF SteadyInv, RecordsInv, PlacedInv, DoneInv
  <1>3. SteadyRunIsExact'
    <2> DEFINE listed(r) == IF tick[r] = 0 THEN 0 ELSE version[r]
    <2>1. SUFFICES ASSUME steady, NEW r \in Rows
                   PROVE  \/ landed'[r] = listed(r) \/ Drops(r) \/ LeftOut(r)
                          \/ stream \in Cursored /\ tick[r] = 0
                          \/ stream \in {"intercom_list"} \cup Merged /\ listed(r) = 0
      <3>1. \A r : (Drops(r)' <=> Drops(r)) /\ (LeftOut(r) => LeftOut(r)')
        BY <1>1, DropsStay, LeftOutStays DEF Calm
      <3> QED
        BY <1>1, <3>1 DEF SteadyRunIsExact, LeftOut, CompleteDays, Capped, RankOf,
                          Calm
    <2>2. ~Asked(Left, r) /\ ~Has(unread \cup held, r, version[r])
      BY <1>1 DEF Asked, Covers, Has
    <2>3. tick[r] # 0 => Placed(r)
      BY <1>1, <2>1 DEF SteadyInv, PlacedInv
    <2>4. tick[r] # 0 =>
              \/ Drops(r) \/ LeftOut(r)
              \/ stream \in Cursored /\ Land(given)[r] = version[r]
              \/ Has(given, r, version[r]) /\ Land(given)[r] = version[r]
      BY <2>1, <2>2, <2>3, SteadyLands
    <2>5. CASE stream \in Snapshots \ Merged /\ shown
      <3>1. landed'[r] =
                Max({0} \cup {rec.version : rec \in {q \in given : q.row = r}})
        BY <2>5 DEF Commit
      <3>2. /\ Has(given, r, version[r]) => landed'[r] = version[r]
            /\ tick[r] = 0 => landed'[r] = 0
        BY <2>1, <3>1, SwapIs
      <3>3. stream \notin Cursored
        BY <2>5 DEF Cursored, Snapshots
      <3> QED
        BY <2>4, <3>2, <3>3
    <2>6. CASE ~(stream \in Snapshots \ Merged /\ shown)
      <3>1. landed' = Land(given)
        BY <2>6 DEF Commit
      <3>2. CASE tick[r] # 0
        BY <2>4, <3>1, <3>2
      <3>3. CASE tick[r] = 0
        <4>1. CASE stream \in Cursored
          BY <3>3, <4>1
        <4>2. CASE stream \in Merged
          BY <3>3, <4>2
        <4>3. CASE stream \in Snapshots \ Merged
          <5>1. stream \notin Emitting
            BY <1>1, <2>6, <4>3 DEF SnapshotInv, SnapshotShape
          <5>2. stream = "intercom_list"
            BY <4>3, <5>1 DEF Snapshots, Emitting, Merged
          <5> QED
            BY <3>3, <5>2
        <4> QED
          BY <4>1, <4>2, <4>3 DEF BaseInv
      <3> QED
        BY <3>2, <3>3
    <2> QED
      BY <2>5, <2>6
  <1> QED
    BY <1>2, <1>3 DEF SteadyInv

LEMMA SteadyStutters ==
    ASSUME SteadyInv, UNCHANGED vars
    PROVE  SteadyInv'
  <1> USE DEF vars, serviceVars, tableVars, walkVars, yieldVars
  <1>1. Calm /\ Left' = Left
    BY DEF Calm, Left
  <1>2. RecordsInv' /\ SteadyRunIsExact'
    BY DEF SteadyInv, RecordsInv, SteadyRunIsExact, Drops, MetaDrops,
           SingularDrops, IntercomDrops, KlaviyoDrops
  <1>3. PlacedInv'
    BY <1>1, PlacedStays, NothingNewToFetch DEF SteadyInv, PlacedInv
  <1>4. DoneInv'
    <2>1. Done' = Done
      BY <1>1 DEF Done
    <2> QED
      BY <2>1 DEF SteadyInv, DoneInv
  <1> QED
    BY <1>2, <1>3, <1>4 DEF SteadyInv

LEMMA SteadyStep ==
    ASSUME \/ stream \in Cursored /\ ExtractInv
           \/ stream \in Snapshots /\ SnapshotInv,
           SteadyInv, [Next]_vars
    PROVE  SteadyInv'
  <1>1. BaseInv
    BY BaseHolds
  <1>2. /\ stream \in Cursored => ExtractInv
        /\ stream \in Snapshots => SnapshotInv
    BY DEF Cursored, Snapshots
  <1>3. CASE Tick
    BY <1>3, RestEnds DEF Tick, walkVars, SteadyInv
  <1>4. CASE \E r \in Rows, t \in 1 .. Horizon : Change(r, t)
    BY <1>4, RestEnds DEF Change, walkVars, SteadyInv
  <1>5. CASE \E r \in Rows, p \in Parts : Shift(r, p)
    BY <1>5, RestEnds DEF Shift, walkVars, SteadyInv
  <1>6. CASE Begin
    BY <1>6, SteadyBegins
  <1>7. CASE Fetch
    BY <1>1, <1>7, SteadyFetches
  <1>8. CASE Break
    BY <1>1, <1>2, <1>8, SteadyBreaks
  <1>9. CASE MetaBisect
    <2>1. stream \in Cursored
      BY <1>9 DEF MetaBisect, Cursored
    <2> QED
      BY <1>2, <1>9, <2>1, SteadyHalves DEF ExtractInv
  <1>10. CASE \E rec \in unread, full \in BOOLEAN : Read(rec, full)
    BY <1>1, <1>2, <1>10, SteadyReads
  <1>11. CASE OtherPage
    BY <1>11, SteadyPages
  <1>12. CASE UnitEnd
    BY <1>12, SteadyUnits
  <1>13. CASE CapReached
    BY <1>1, <1>13, SteadyIsCapped
  <1>14. CASE WalkEnd
    BY <1>14, SteadyEnds
  <1>15. CASE \E write \in BOOLEAN : Resume(write)
    BY <1>1, <1>15, SteadyResumes
  <1>16. CASE Commit
    BY <1>1, <1>2, <1>16, SteadyCommits
  <1>17. CASE Kill
    BY <1>17, RestEnds DEF Kill
  <1>18. CASE UNCHANGED vars
    BY <1>18, SteadyStutters
  <1> QED
    BY <1>3, <1>4, <1>5, <1>6, <1>7, <1>8, <1>9, <1>10, <1>11, <1>12, <1>13,
       <1>14, <1>15, <1>16, <1>17, <1>18 DEF Next, Run

\* A run during which the service did not change leaves the table as the
\* service is, up to the day that is not over and up to the cap: no window, no
\* part, no page and no batch is lost between plan and table, whatever the
\* number of rows and parts, the span, the cap and the moments of the flushes
\* (the plans and loops of the sources, the write and the swap of the runner).
THEOREM SteadyRunsAreExact == Spec => []SteadyRunIsExact
  <1> DEFINE Kind == \/ stream \in Cursored /\ ExtractInv
                     \/ stream \in Snapshots /\ SnapshotInv
             IInv == Kind /\ SteadyInv
  <1>1. Init => IInv
    <2> SUFFICES ASSUME Init
                 PROVE  IInv
      OBVIOUS
    <2>1. stream \in Cursored \cup Snapshots
      BY StreamsAssumption DEF Init
    <2>2. Kind
      BY <2>1, StartsSafe, SnapshotStarts
    <2>3. SteadyInv
      BY DEF Init, SteadyInv, RecordsInv, PlacedInv, DoneInv, SteadyRunIsExact
    <2> QED
      BY <2>2, <2>3
  <1>2. IInv /\ [Next]_vars => IInv'
    <2> SUFFICES ASSUME IInv, [Next]_vars
                 PROVE  IInv'
      OBVIOUS
    <2>1. stream' = stream
      BY DEF Next, Run, Tick, Change, Shift, Begin, Fetch, Break, MetaBisect,
             Read, OtherPage, UnitEnd, CapReached, WalkEnd, Resume, Commit, Kill,
             vars
    <2>2. Kind'
      BY <2>1, ExtractStep, SnapshotStep
    <2>3. SteadyInv'
      BY SteadyStep
    <2> QED
      BY <2>2, <2>3
  <1>3. IInv => SteadyRunIsExact
    BY DEF SteadyInv
  <1> HIDE DEF IInv
  <1> QED
    BY <1>1, <1>2, <1>3, PTL DEF Spec
=============================================================================
