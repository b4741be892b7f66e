------------------------------ MODULE Dashboard ------------------------------
(***************************************************************************)
(* The landing dashboard (dashboard_service): what it counts of the tasks  *)
(* of a range of Korean days, how it puts the provider's bill of each UTC  *)
(* day beside them, and what it remembers between two questions: the bill  *)
(* of the last range, and the sandbox tile, which a thread refreshes.      *)
(*                                                                         *)
(* Times are hours.  A task's created_at is the Korean wall clock at the   *)
(* hour it was made, nine hours on from UTC; its context, where it has     *)
(* one, holds the UTC hour.  Amounts are tenths of the last digit shown.   *)
(***************************************************************************)
EXTENDS Integers, FiniteSets, FiniteSetsExt

VARIABLES
    world,      \* now, the tasks, RunPod's bill of each day, the questions asked
    shown       \* the last answer, and what is remembered for the next

Ahead == 9      \* the Korean wall clock
Day(hour) == hour \div 24
KstDay(hour) == Day(hour + Ahead)
RangeDays(key) == IF key = "today" THEN 1 ELSE 7

COMPLETED_STATUSES == {"COMPLETED", "SUCCESS"}
FAILED_STATUSES    == {"FAILED", "TIMED_OUT", "CANCELLED"}
QUEUED_STATUSES    == {"PENDING_SUBMIT", "QUEUED", "IN_QUEUE"}
RUNNING_STATUSES   == {"IN_PROGRESS", "RUNNING", "DISPATCHING"}
ACTIVE_TASK_STATUSES == {"QUEUED", "IN_QUEUE", "IN_PROGRESS", "RUNNING"}
Kinds == {"completed", "failed", "queued", "active", "other"}
Classify(status) ==
    CASE status \in COMPLETED_STATUSES -> "completed"
      [] status \in FAILED_STATUSES    -> "failed"
      [] status \in QUEUED_STATUSES    -> "queued"
      [] status \in RUNNING_STATUSES   -> "active"
      [] OTHER                         -> "other"

Stored(t) == t.made + Ahead
CreatedAtUtc(t) == IF t.context THEN t.made ELSE Stored(t) - Ahead

-----------------------------------------------------------------------------
(* Counting.                                                               *)

Since(key) == (KstDay(world.now) - RangeDays(key) + 1) * 24 - Ahead
PreviousSince(key) == Since(key) - (world.now - Since(key))
Live == {t \in DOMAIN world.tasks : ~world.tasks[t].deleted}
Made(from, to) == {t \in Live : from <= Stored(world.tasks[t]) /\ Stored(world.tasks[t]) < to}
OfKind(tasks, kind) == {t \in tasks : Classify(world.tasks[t].status) = kind}

Kpi(key) ==
    LET made == Made(Since(key), world.now) IN
    [submitted |-> Cardinality(made),
     before    |-> Cardinality(Made(PreviousSince(key), Since(key))),
     completed |-> Cardinality(OfKind(made, "completed")),
     failed    |-> Cardinality(OfKind(made, "failed")),
     active    |-> Cardinality({t \in Live : world.tasks[t].status \in
                                   ACTIVE_TASK_STATUSES \cup QUEUED_STATUSES \cup RUNNING_STATUSES})]

LastHour(key) == Max({Since(key), world.now - 1})
KstDays(key) == KstDay(Since(key))..KstDay(LastHour(key))

(* The tasks of each day, of one kind or of all.                           *)
DailyVolume(key, kinds) ==
    LET made == {t \in Made(Since(key), world.now) : Classify(world.tasks[t].status) \in kinds}
        On(day) == {t \in made : KstDay(Stored(world.tasks[t])) = day}
    IN  [day \in KstDays(key) \cup {KstDay(Stored(world.tasks[t])) : t \in made} |->
            [submitted |-> Cardinality(On(day)), of |-> [k \in Kinds |-> Cardinality(OfKind(On(day), k))]]]

(* Tasks that changed within the hour; updated_at is set as created_at is. *)
RecentHour ==
    LET recent == {t \in Live : /\ world.now - 1 <= world.tasks[t].changed + Ahead
                                /\ world.tasks[t].changed + Ahead < world.now}
    IN  [k \in {"failed", "completed"} |-> Cardinality(OfKind(recent, k))]

Spike(hour) == hour["failed"] >= 3 \/ (hour["failed"] + hour["completed"] >= 5 /\ 10 * hour["failed"] >= 3 * (hour["failed"] + hour["completed"]))
Saturated == LET active == Cardinality({t \in Live : world.tasks[t].status \in ACTIVE_TASK_STATUSES})
             IN  world.limit > 0 /\ active >= world.limit

-----------------------------------------------------------------------------
(* The bill, by UTC day.                                                   *)

UtcDays(key) == Day(Since(key))..Day(LastHour(key))

NoBill == [range |-> {}, value |-> <<>>, failed |-> FALSE, mixed |-> FALSE, age |-> 0]

(* Ages of what was heard: under 20 seconds, under five minutes, older.    *)
Usable_AnyRange(bill, range) == bill.range # {} /\ bill.age < (IF bill.failed THEN 1 ELSE 2)
Usable(bill, range) == bill.range = range /\ bill.age < (IF bill.failed THEN 1 ELSE 2)

(* RunPod leaves out the days that cost nothing.                           *)
Billed(days) == [d \in {x \in days : x \in DOMAIN world.bill /\ world.bill[x] > 0} |-> world.bill[d]]
Asked(key, fails) ==
    [range |-> UtcDays(key), value |-> IF fails THEN <<>> ELSE Billed(UtcDays(key)),
     failed |-> fails, mixed |-> FALSE, age |-> 0]
Heard(key, fails) == IF Usable(shown.bill, UtcDays(key)) THEN shown.bill ELSE Asked(key, fails)

(* What is remembered is written entry by entry, without a lock: of two    *)
(* that were asked at once, each entry is of the one that wrote it last.   *)
Written(a, b) ==
    {[a EXCEPT !.range = x.range, !.value = y.value, !.failed = z.failed, !.mixed = ~(x = y /\ y = z)] :
        x \in {a, b}, y \in {a, b}, z \in {a, b}}

(* A day more on either side is read than is shown: created_at is not UTC. *)
Fetched(key) == {t \in Live : world.tasks[t].runpod} \cap Made(Since(key) - 24, world.now + 24)

Cuts == {"fiveSec", "tenSec"}
Seconds(tasks) == MapThenSumSet(LAMBDA t : world.tasks[t].seconds, tasks)
Cut(tasks, cut) == {t \in tasks : world.tasks[t].cut = cut}

(* Every cut is shown its part of the day's amount in the time its tasks   *)
(* ran, each rounded by itself; what no task ran for is not classified.    *)
Rounded(x, y) == (2 * x + y) \div (2 * y)
Split(tasks, amount) ==
    LET weight == Seconds(tasks) IN
    [c \in Cuts |-> [count |-> Cardinality(Cut(tasks, c)),
                     cost  |-> IF weight = 0 THEN 0 ELSE Rounded(amount * Seconds(Cut(tasks, c)), 10 * weight)]]
Unclassified(tasks, amount) == IF Seconds(tasks) = 0 THEN Rounded(amount, 10) ELSE 0

ByDay(key, bill) ==
    LET On(day) == {t \in Fetched(key) : Day(CreatedAtUtc(world.tasks[t])) = day}
        Amount(day) == IF day \in DOMAIN bill.value THEN bill.value[day] ELSE 0
    IN  [day \in UtcDays(key) |->
            [submitted |-> Cardinality(On(day)),
             failed    |-> Cardinality(OfKind(On(day), "failed")),
             costs     |-> IF bill.failed THEN {} ELSE {Rounded(Amount(day), 10)},
             split     |-> IF bill.failed \/ day < world.cutoff THEN {}
                           ELSE {[cuts |-> Split(On(day), Amount(day)), rest |-> Unclassified(On(day), Amount(day))]}]]

-----------------------------------------------------------------------------
(* The sandbox tile: an answer never waits for RunPod, but for a refresh   *)
(* by a thread of which one runs at a time.                                *)

Tile(tile) == IF tile.value = "none" THEN "pending" ELSE IF tile.fresh THEN tile.value ELSE "stale"
Refreshing(tile) == [tile EXCEPT !.thread = @ \/ ~tile.fresh]

NoAnswer == [key |-> "none"]

Answer(key, bill) ==
    [key |-> key, kpi |-> Kpi(key), hour |-> RecentHour, daily |-> DailyVolume(key, Kinds),
     filtered |-> [k \in Kinds |-> DailyVolume(key, {k})], days |-> ByDay(key, bill), bill |-> bill,
     tile |-> Tile(shown.tile), spike |-> Spike(RecentHour), saturated |-> Saturated]

Summary(key, fails) ==
    /\ world.asks > 0
    /\ world' = [world EXCEPT !.asks = @ - 1]
    /\ LET bill == Heard(key, fails) IN
       shown' = [bill |-> bill, tile |-> Refreshing(shown.tile), answer |-> Answer(key, bill)]

(* Two that overlap, both of which ask RunPod.                             *)
TwoSummaries(key, other, fails, otherFails) ==
    /\ world.asks > 1 /\ key # other
    /\ ~Usable(shown.bill, UtcDays(key)) /\ ~Usable(shown.bill, UtcDays(other))
    /\ world' = [world EXCEPT !.asks = @ - 2]
    /\ \E bill \in Written(Asked(key, fails), Asked(other, otherFails)) :
          shown' = [bill |-> bill, tile |-> Refreshing(shown.tile), answer |-> Answer(key, Asked(key, fails))]

(* Bound: time passes while questions are left.                            *)
Passes == world.asks > 0 /\ UNCHANGED world

Refreshed(value) ==
    /\ Passes /\ shown.tile.thread
    /\ shown' = [shown EXCEPT !.tile = [value |-> value, fresh |-> TRUE, thread |-> FALSE]]

TileAges == Passes /\ shown.tile.fresh /\ shown' = [shown EXCEPT !.tile.fresh = FALSE]
BillAges == Passes /\ shown.bill.range # {} /\ shown.bill.age < 2 /\ shown' = [shown EXCEPT !.bill.age = @ + 1]

Start == shown = [bill |-> NoBill, tile |-> [value |-> "none", fresh |-> FALSE, thread |-> FALSE], answer |-> NoAnswer]

Next ==
    \/ \E key \in {"today", "7d"}, fails \in BOOLEAN : Summary(key, fails)
    \/ \E key, other \in {"today", "7d"}, fails, otherFails \in BOOLEAN : TwoSummaries(key, other, fails, otherFails)
    \/ \E value \in {"pods", "error"} : Refreshed(value)
    \/ TileAges \/ BillAges

-----------------------------------------------------------------------------
Answered == shown.answer.key # "none"
Total(f, days) == MapThenSumSet(LAMBDA d : f[d].submitted, days)

(* The numbers of an answer agree with each other and with the tasks: the  *)
(* days of the graph add up to the counters above it, also when filtered,  *)
(* and stay in the range; every live task of a UTC day in the table is     *)
(* counted there, with its context or without.                             *)
CountsAgree ==
    Answered =>
        LET a == shown.answer
            ran == {t \in Live : world.tasks[t].runpod}
        IN  /\ DOMAIN a.daily = KstDays(a.key)
            /\ Total(a.daily, DOMAIN a.daily) = a.kpi.submitted
            /\ \A k \in Kinds : Total(a.filtered[k], DOMAIN a.filtered[k]) = MapThenSumSet(LAMBDA d : a.daily[d].of[k], DOMAIN a.daily)
            /\ \A k \in {"completed", "failed"} : Total(a.filtered[k], DOMAIN a.filtered[k]) = a.kpi[k]
            /\ \A d \in DOMAIN a.days : a.days[d].submitted = Cardinality({t \in ran : Day(world.tasks[t].made) = d})

(* A day shows what RunPod billed for it, or nothing when it could not be  *)
(* asked: a failure is not a day without cost, nor is a day that the       *)
(* remembered range lacks.  What the cuts are shown adds up to the day but *)
(* for the last digit (they are rounded each by itself, though the code    *)
(* says that the sum is always the day's).  Not so for what is remembered  *)
(* of two questions that overlapped.                                       *)
CostsTrue ==
    Answered /\ ~shown.answer.bill.mixed =>
        \A d \in DOMAIN shown.answer.days :
            LET day == shown.answer.days[d]
                amount == IF d \in DOMAIN world.bill THEN world.bill[d] ELSE 0
            IN  /\ day.costs = IF shown.answer.bill.failed THEN {} ELSE {Rounded(amount, 10)}
                /\ \A s \in day.split :
                      LET sum == s.cuts["fiveSec"].cost + s.cuts["tenSec"].cost + s.rest
                      IN  sum - Rounded(amount, 10) \in -1..1
=============================================================================
