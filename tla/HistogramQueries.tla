-------------------------- MODULE HistogramQueries --------------------------
(***************************************************************************)
(* What the API reads from the histogram of HourlyHistogram: the buckets   *)
(* of a range of time by hour or merged by day (/api/histogram,            *)
(* /api/usage_ranking), and the bytes of a period that ends now            *)
(* (/api/devices, /api/overview).  The operators are functions of the      *)
(* histogram's state, so the property holds of every answer the API can    *)
(* give while the collector, restarts and the clock go on.                 *)
(*                                                                         *)
(* Instants are half hours: the hour h is 2h and 2h + 1, its bucket is     *)
(* closed at both ends.  A day has HoursPerDay hours.                      *)
(***************************************************************************)
EXTENDS HourlyHistogram

CONSTANT HoursPerDay

ASSUME HoursPerDayAssumption == HoursPerDay \in Nat \ {0}

\* start_ts_ms and end_ts_ms of an hour's bucket.
start_ts(h) == 2 * h
end_ts(h) == 2 * h + 1

\* Mutant: the bucket that ends with the range is left out.
OverlapsOpen(from, to) == {h \in 0..MaxHour : start_ts(h) < to /\ end_ts(h) >= from}

\* The hours that have an instant in common with the range.
Overlaps(from, to) == {h \in 0..MaxHour : start_ts(h) <= to /\ end_ts(h) >= from}

\* The buckets of these hours, in the order they are.
Within(buckets, hours) ==
  LET within[i \in 0..Len(buckets)] ==
        IF i = 0 THEN <<>>
        ELSE IF buckets[i].start \in hours THEN Append(within[i - 1], buckets[i])
        ELSE within[i - 1]
  IN  within[Len(buckets)]

\* sort_by_key is stable: hour after hour, and the buckets of one hour, which
\* a clock that was set back may have made, in the order they are.
ByStart(buckets) ==
  LET sorted[n \in 0..(MaxHour + 1)] ==
        IF n = 0 THEN <<>> ELSE sorted[n - 1] \o Within(buckets, {n - 1})
  IN  sorted[MaxHour + 1]

\* query_device_hourly: completed buckets, then the current one, by start.
query_device_hourly(from, to) ==
  ByStart(Within(completed \o current, Overlaps(from, to)))

\* daily_bucket_local
DayHours(day) == (day * HoursPerDay)..(day * HoursPerDay + HoursPerDay - 1)
Days == MaxHour \div HoursPerDay + 1

\* merge_hourly_to_daily: one bucket for each day with a bucket.
merge_hourly_to_daily(hourly) ==
  LET OfDay(day) == Within(hourly, DayHours(day))
      merged[n \in 0..Days] ==
        IF n = 0 THEN <<>>
        ELSE IF OfDay(n - 1) = <<>> THEN merged[n - 1]
        ELSE Append(merged[n - 1], [start |-> n - 1, bytes |-> Bytes(OfDay(n - 1))])
  IN  merged[Days]

\* query_aggregate
query_aggregate(from, to, bucket) ==
  LET hourly == query_device_hourly(from, to) IN
  IF bucket = "Daily" THEN merge_hourly_to_daily(hourly) ELSE hourly

\* The handlers replace a device's cumulative counter by cumulative_from_buckets
\* of the period.
PeriodBytes(from, now) == Bytes(query_aggregate(from, now, "Hourly"))

-----------------------------------------------------------------------------
\* Every byte of the histogram is in exactly one of two adjacent ranges that
\* meet between two hours, by hour and, when they meet between two days, day
\* by day.
RangesPartition ==
  \A h \in 1..MaxHour :
    LET end == 2 * MaxHour + 1
        before(bucket) == query_aggregate(0, 2 * h - 1, bucket)
        after(bucket) == query_aggregate(2 * h, end, bucket)
    IN  /\ before("Hourly") \o after("Hourly") = query_aggregate(0, end, "Hourly")
        /\ h % HoursPerDay = 0 =>
             before("Daily") \o after("Daily") = query_aggregate(0, end, "Daily")

\* Merging by day changes no total: what the ranking adds up by day is what
\* the device list adds up by hour, for every range that ends now.
SameTotal ==
  \A from \in 0..(2 * hour) :
    Bytes(query_aggregate(from, 2 * hour, "Daily")) = PeriodBytes(from, 2 * hour)

\* While the clock is not set back, a period that began before the first
\* bucket and ends at any instant of the current hour shows the device's
\* cumulative counter less what the histogram has lost.
PeriodShowsCumulative ==
  steps_back = 0 =>
    \A now \in {2 * hour, 2 * hour + 1} :
      PeriodBytes(0, now) + trimmed + lost = cumulative

\* The answers of the API agree with each other and with the cumulative
\* counter at every step of the collector, across rollovers, offline flushes
\* and restarts (query_aggregate, merge_hourly_to_daily,
\* cumulative_from_buckets).
QueriesAddUp == RangesPartition /\ SameTotal /\ PeriodShowsCumulative
=============================================================================
