-------------------------- MODULE HourlyHistogram --------------------------
(***************************************************************************)
(* The traffic histogram of one device (monitor.rs, HistogramHistory) with *)
(* its two files: the ring of completed hours and the current-hour state   *)
(* that is saved every ten minutes.  Each tick of the collector adds to    *)
(* the bucket of the current hour, moves a bucket whose hour is over to    *)
(* the completed ones and appends it to the ring; a start of the service   *)
(* restores both files and derives the cumulative counter from them.       *)
(*                                                                         *)
(* A bucket is its hour and its bytes; the rate statistics follow them.    *)
(* The ring file is the abstraction that RecentRecords states: the newest  *)
(* max_hours records.  An interface's histogram is the same without        *)
(* IngestOffline.  A series belongs to an ifindex: what becomes of it when *)
(* the interface is created again is in DeviceLifecycle.                   *)
(*                                                                         *)
(* The start of an hour is computed in local time.  When clocks are turned *)
(* back, the two hours of the fold have the same local start, the          *)
(* conversion is ambiguous and its unwrap panics: the collector's task     *)
(* ends while the rest of the service goes on.                             *)
(***************************************************************************)
EXTENDS Integers, Sequences, SequencesExt

CONSTANTS
  max_hours,  \* capacity of the histogram and of the ring
  MaxHour,    \* bound: the clock stops here
  FoldHours,  \* hours whose local time is ambiguous
  MaxBytes,   \* bound: traffic of the device
  Restarts,   \* bound: restarts of the service
  StepsBack   \* bound: times the wall clock is set back

ASSUME MaxHoursAssumption == max_hours \in Nat \ {0}
ASSUME FoldAssumption == FoldHours \subseteq 0..MaxHour
ASSUME BoundsAssumption ==
  MaxHour \in Nat /\ MaxBytes \in Nat /\ Restarts \in Nat /\ StepsBack \in Nat

VARIABLES
  hour,           \* the wall clock
  steps_back,
  current,        \* current_hour_device: <<>> or a sequence of one bucket
  completed,      \* completed_device
  cumulative,     \* cumulative_device
  to_append,      \* completed aggregates the tick has not appended yet
  panicked,       \* the collector's task ended
  ring,           \* the ring file
  hour_file,      \* the device's entry in the current-hour file, like current
  file_exists,    \* the current-hour file was ever written
  restarts,
  restored,       \* history: the last start read the ring
  total,          \* history: bytes ever ingested
  trimmed,        \* history: bytes dropped at capacity since the start
  lost,           \* history: bytes of the tick that panicked since the start
  written         \* history: for each completed bucket, that no append of it failed

clockVars == <<hour, steps_back>>
memVars == <<current, completed, cumulative, trimmed, lost, panicked, written>>
fileVars == <<hour_file, file_exists>>
startVars == <<restarts, restored>>
vars == <<clockVars, memVars, to_append, ring, fileVars, startVars, total>>

Bucket == [start : 0..MaxHour, bytes : Nat]

TypeOK ==
  /\ hour \in 0..MaxHour /\ steps_back \in 0..StepsBack
  /\ current \in Seq(Bucket) /\ Len(current) <= 1
  /\ completed \in Seq(Bucket) /\ Len(completed) <= max_hours
  /\ ring \in Seq(Bucket) /\ Len(ring) <= max_hours
  /\ to_append \in Seq(Bucket) /\ Len(to_append) <= 1
  /\ hour_file \in Seq(Bucket) /\ Len(hour_file) <= 1
  /\ cumulative \in Nat /\ total \in Nat /\ trimmed \in Nat /\ lost \in Nat
  /\ panicked \in BOOLEAN /\ file_exists \in BOOLEAN
  /\ restarts \in 0..Restarts /\ restored \in BOOLEAN
  /\ written \in Seq(BOOLEAN) /\ Len(written) = Len(completed)

Init ==
  /\ hour = 0 /\ steps_back = 0
  /\ current = <<>> /\ completed = <<>> /\ to_append = <<>>
  /\ ring = <<>> /\ hour_file = <<>> /\ file_exists = FALSE
  /\ cumulative = 0 /\ total = 0 /\ trimmed = 0 /\ lost = 0
  /\ restarts = 0 /\ restored = TRUE
  /\ written = <<>> /\ panicked = FALSE

-----------------------------------------------------------------------------
\* The bytes of all buckets; sum[i] is that of the first i.
Bytes(buckets) ==
  LET sum[i \in 0..Len(buckets)] ==
        IF i = 0 THEN 0 ELSE sum[i - 1] + buckets[i].bytes
  IN  sum[Len(buckets)]

\* trim_histogram_completed
Trim(buckets) ==
  SubSeq(buckets, IF Len(buckets) > max_hours THEN Len(buckets) - max_hours + 1 ELSE 1,
         Len(buckets))

\* Mutant: the bucket of the last hour is dropped.
CompleteForgets(b) == UNCHANGED <<completed, trimmed, written, to_append>>

\* Mutant: the bucket is not handed to the collector for the ring.
CompleteInMemory(b) ==
  /\ completed' = Trim(Append(completed, b))
  /\ written' = Trim(Append(written, TRUE))
  /\ UNCHANGED <<trimmed, to_append>>

\* The bucket goes to the completed ones, and to the ring before the tick
\* is over.
Complete(b) ==
  LET all == Append(completed, b) IN
  /\ completed' = Trim(all)
  /\ written' = Trim(Append(written, TRUE))
  /\ trimmed' = trimmed + Bytes(all) - Bytes(Trim(all))
  /\ to_append' = <<b>>

NotComplete == UNCHANGED <<completed, trimmed, written, to_append>>

\* The bucket belongs to another hour than the tick.
HourIsOver(b) == b.start # hour

\* hourly_bucket_local panics when the local time of the hour is ambiguous.
Ambiguous == hour \in FoldHours

\* The collector begins a tick: the one before has appended what it completed.
TickBegins == ~panicked /\ to_append = <<>>

\* collect_snapshot books the tick's bytes before the histogram sees them.
BookBytes(bytes) ==
  /\ total + bytes <= MaxBytes
  /\ total' = total + bytes
  /\ cumulative' = cumulative + bytes

\* ingest_device, for a tick in which the device was online or had traffic.
Ingest(bytes) ==
  /\ TickBegins /\ ~Ambiguous
  /\ BookBytes(bytes)
  /\ IF current # <<>> /\ ~HourIsOver(current[1])
       THEN current' = <<[current[1] EXCEPT !.bytes = @ + bytes]>> /\ NotComplete
       ELSE /\ current' = <<[start |-> hour, bytes |-> bytes]>>
            /\ IF current = <<>> THEN NotComplete ELSE Complete(current[1])
  /\ UNCHANGED <<clockVars, lost, panicked, ring, fileVars, startVars>>

\* ingest_iface panics first; no bucket has been touched.
IngestPanics(bytes) ==
  /\ TickBegins /\ Ambiguous
  /\ BookBytes(bytes)
  /\ lost' = lost + bytes
  /\ panicked' = TRUE
  /\ NotComplete
  /\ UNCHANGED <<clockVars, current, ring, fileVars, startVars>>

\* Mutant: the bucket is flushed as soon as the device goes offline.
FlushedAtOnce(b) == TRUE

\* bucket.end_ts_ms < snapshot.timestamp_ms
Ended(b) == b.start < hour

\* The device is offline and silent: its bucket is flushed once its hour
\* has ended.
IngestOffline ==
  /\ TickBegins /\ ~Ambiguous
  /\ current # <<>> /\ Ended(current[1])
  /\ current' = <<>>
  /\ Complete(current[1])
  /\ UNCHANGED <<clockVars, cumulative, lost, panicked, ring, fileVars, startVars,
                 total>>

\* append_device_bucket, at the end of the tick
AppendBucket ==
  /\ to_append # <<>>
  /\ ring' = Trim(ring \o to_append)
  /\ to_append' = <<>>
  /\ UNCHANGED <<clockVars, memVars, fileVars, startVars, total>>

\* The error is logged and the bucket is not tried again.
AppendFails ==
  /\ to_append # <<>>
  /\ to_append' = <<>>
  /\ written' = [written EXCEPT ![Len(written)] = FALSE]
  /\ UNCHANGED <<clockVars, current, completed, cumulative, trimmed, lost, panicked,
                 ring, fileVars, startVars, total>>

\* save_current_hour_histogram writes the buckets whose interface is in the
\* topology; an error leaves the old file.
SaveCurrentHour ==
  /\ TickBegins
  /\ hour_file' \in {current, <<>>}
  /\ file_exists' = TRUE
  /\ UNCHANGED <<clockVars, memVars, to_append, ring, startVars, total>>

-----------------------------------------------------------------------------
\* Mutant: a saved bucket is restored whatever its hour.
AnyHour(b) == TRUE

\* load_current_hour_histogram drops a bucket of another hour.
SameHour(b) == b.start = hour

\* What the ring holds is restored if the device's interface is in the
\* topology of the start and the file can be read.  One that cannot is put
\* aside, or left alone after an I/O error.
LoadRing(in_topology, reads) ==
  /\ restored' = (in_topology /\ reads)
  /\ completed' = IF in_topology /\ reads THEN Trim(ring) ELSE <<>>
  /\ ring' \in {ring} \cup (IF in_topology /\ ~reads THEN {<<>>} ELSE {})

\* So is the current-hour file; to read it in the fold panics, and the start
\* is repeated until the fold is over.  It is put aside when it is damaged,
\* and left alone when another version wrote it.
LoadCurrentHour(in_topology, reads) ==
  /\ file_exists /\ reads => ~Ambiguous
  /\ current' = IF in_topology /\ reads /\ hour_file # <<>> /\ SameHour(hour_file[1])
                THEN hour_file ELSE <<>>
  /\ \/ UNCHANGED fileVars
     \/ ~reads /\ hour_file' = <<>> /\ file_exists' = FALSE

\* The service stops at any point and starts again; it only warns when
\* loading fails.  cumulative_from_all sums what was restored.
Restart ==
  /\ restarts < Restarts
  /\ restarts' = restarts + 1
  /\ \E in_topology, reads_ring, reads_hour \in BOOLEAN :
       LoadRing(in_topology, reads_ring) /\ LoadCurrentHour(in_topology, reads_hour)
  /\ cumulative' = Bytes(completed') + Bytes(current')
  /\ to_append' = <<>>
  /\ trimmed' = 0 /\ lost' = 0
  /\ written' = [i \in DOMAIN completed' |-> TRUE]
  /\ panicked' = FALSE
  /\ UNCHANGED <<clockVars, total>>

HourPasses ==
  /\ hour < MaxHour
  /\ hour' = hour + 1
  /\ UNCHANGED <<steps_back, memVars, to_append, ring, fileVars, startVars, total>>

\* The clock is corrected.
ClockSetBack ==
  /\ steps_back < StepsBack /\ hour > 0
  /\ steps_back' = steps_back + 1
  /\ hour' = hour - 1
  /\ UNCHANGED <<memVars, to_append, ring, fileVars, startVars, total>>

Next ==
  \/ \E bytes \in {0, 1} : Ingest(bytes) \/ IngestPanics(bytes)
  \/ IngestOffline
  \/ AppendBucket
  \/ AppendFails
  \/ SaveCurrentHour
  \/ Restart
  \/ HourPasses
  \/ ClockSetBack

Spec == Init /\ [][Next]_vars

-----------------------------------------------------------------------------
\* The cumulative counter and the histogram tell the same story: what is
\* not in a bucket any more was trimmed at capacity, or is of the one tick
\* that panicked in the fold.  Rollovers, offline flushes and corrections of
\* the clock lose and invent nothing.
Conserved ==
  cumulative = Bytes(completed) + Bytes(current) + trimmed + lost

\* While the clock is not set back, what the service shows after any number
\* of restarts never exceeds the traffic there was: no hour is restored from
\* both files.
NeverCountedTwice == steps_back = 0 => cumulative <= total

\* While the clock is not set back each hour has at most one bucket, and
\* buckets are in order: a restart within the hour goes on with the saved
\* bucket, a later one does not.
OneBucketPerHour ==
  LET all == completed \o current IN
  steps_back = 0 =>
    \A i, j \in DOMAIN all : i < j => all[i].start < all[j].start

\* The buckets whose append did not fail.
Kept(buckets, appended) ==
  LET kept[i \in 0..Len(buckets)] ==
        IF i = 0 THEN <<>>
        ELSE IF appended[i] THEN Append(kept[i - 1], buckets[i]) ELSE kept[i - 1]
  IN  kept[Len(buckets)]

\* The completed histogram, less the buckets whose append failed, is what the
\* ring ends with, up to the bucket the tick is about to append; it is all of
\* the ring once a start has read that and no append has failed since.  An
\* append that fails, and is not tried again, loses that hour and no other,
\* and neither moves nor repeats one; nor does a start that goes on without
\* the ring.
RingMirrorsMemory ==
  LET kept == Kept(completed, written)
      durable == Trim(ring \o to_append)
  IN  /\ IsSuffix(kept, durable)
      /\ restored /\ (\A i \in DOMAIN written : written[i]) => kept = durable
=============================================================================
