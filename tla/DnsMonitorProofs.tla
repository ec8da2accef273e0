--------------------------- MODULE DnsMonitorProofs ---------------------------
(***************************************************************************)
(* For every size of the log, every set of keys, all windows and any       *)
(* number of restarts: the log holds the newest queries, its queues and    *)
(* its records agree, a response answers the oldest query that has not     *)
(* expired, copies of a packet count once, an answer is final, and a       *)
(* client that pages through the log misses nothing that stays in it.      *)
(*                                                                         *)
(* The invariants are about the three structures ingest keeps in step.     *)
(* The ids of the log are consecutive, so the oldest one is the least and  *)
(* stands at the front of its queue when it is evicted; no id that waits   *)
(* has expired, so none is answered after a younger one; and a filter that *)
(* has not overflowed remembers the latest capture of every key.  A page   *)
(* list is shown to be the passing ids in decreasing order, cut at the     *)
(* multiples of the page size: a record only moves back, because whatever  *)
(* is newer than it stays as long as it does.                              *)
(***************************************************************************)
EXTENDS DnsQueries, FiniteSetTheorems, SequenceTheorems, WellFoundedInduction, TLAPS

\* A set of natural numbers that is not empty has a least element.
LEMMA LeastNumber ==
  ASSUME NEW T \in SUBSET Nat, T # {}
  PROVE  \E x \in T : \A y \in T : x <= y
<1> DEFINE R == OpToRel(<, Nat)
<1>1. IsWellFoundedOn(R, Nat)
  BY NatLessThanWellFounded
<1> HIDE DEF R
<1>2. PICK x \in T : \A y \in T : ~(<<y, x>> \in R)
  BY <1>1, WFMin
<1>3. \A y \in T : y < x => <<y, x>> \in R
  BY DEF R, OpToRel
<1>4. \A y \in T : ~(y < x)
  BY <1>2, <1>3
<1> QED BY ONLY <1>4, x \in T, T \in SUBSET Nat

-----------------------------------------------------------------------------
(* The helpers of ingest.                                                  *)

LEMMA WithFacts ==
  ASSUME NEW f, NEW k, NEW v
  PROVE  /\ DOMAIN With(f, k, v) = DOMAIN f \cup {k}
         /\ With(f, k, v)[k] = v
         /\ \A x \in DOMAIN f : x # k => With(f, k, v)[x] = f[x]
BY DEF With

LEMMA SuffixFacts ==
  ASSUME NEW queue \in Seq(Nat), NEW n \in 0..Len(queue)
  PROVE  /\ SubSeq(queue, n + 1, Len(queue)) \in Seq(Nat)
         /\ Len(SubSeq(queue, n + 1, Len(queue))) = Len(queue) - n
         /\ \A i \in 1..(Len(queue) - n) : SubSeq(queue, n + 1, Len(queue))[i] = queue[n + i]
<1>1. SubSeq(queue, n + 1, Len(queue)) \in Seq(Nat)
  OBVIOUS
<1>2. Len(SubSeq(queue, n + 1, Len(queue))) = Len(queue) - n
  OBVIOUS
<1>3. ASSUME NEW i \in 1..(Len(queue) - n)
      PROVE  SubSeq(queue, n + 1, Len(queue))[i] = queue[n + i]
  OBVIOUS
<1> QED BY <1>1, <1>2, <1>3

\* Only a prefix of expired queries is taken from the queue, and the query
\* at the front of what is left has not expired.
LEMMA UnexpiredFacts ==
  ASSUME NEW queue \in Seq(Nat), NEW ts
  PROVE  \E n \in 0..Len(queue) :
           /\ \A i \in 1..n : Expired(queue[i], ts)
           /\ n < Len(queue) => ~Expired(queue[n + 1], ts)
           /\ Unexpired(queue, ts) = SubSeq(queue, n + 1, Len(queue))
<1> DEFINE P(n) == /\ \A i \in 1..n : Expired(queue[i], ts)
                   /\ n < Len(queue) => ~Expired(queue[n + 1], ts)
           T == {n \in 0..Len(queue) : n < Len(queue) => ~Expired(queue[n + 1], ts)}
<1>1. Len(queue) \in T /\ T \in SUBSET Nat
  OBVIOUS
<1>2. PICK n \in T : \A m \in T : n <= m
  <2> HIDE DEF T
  <2> QED BY <1>1, LeastNumber
<1>3. \A i \in 1..n : Expired(queue[i], ts)
  <2> SUFFICES ASSUME NEW i \in 1..n, ~Expired(queue[i], ts) PROVE FALSE
    OBVIOUS
  <2>1. n \in 0..Len(queue) /\ i - 1 \in 0..Len(queue) /\ (i - 1) + 1 = i /\ ~(n <= i - 1)
    BY <1>2
  <2>2. i - 1 \in T
    BY <2>1
  <2> QED BY <1>2, <2>1, <2>2
<1>4. n \in 0..Len(queue) /\ P(n)
  BY <1>2, <1>3
<1> DEFINE dropped == CHOOSE m \in 0..Len(queue) : P(m)
<1>5. dropped \in 0..Len(queue) /\ P(dropped)
  <2> HIDE DEF P
  <2> QED BY <1>4
<1>6. Unexpired(queue, ts) = SubSeq(queue, dropped + 1, Len(queue))
  BY DEF Unexpired
<1> HIDE DEF dropped
<1> QED BY <1>5, <1>6

\* Taking the least id of a queue takes its front.
LEMMA RetainedFacts ==
  ASSUME NEW queue \in Seq(Nat), Increasing(queue), NEW id \in Nat,
         \A i \in DOMAIN queue : id <= queue[i]
  PROVE  /\ Retained(queue, id) \in Seq(Nat)
         /\ Increasing(Retained(queue, id))
         /\ \A i \in DOMAIN Retained(queue, id) :
              /\ Retained(queue, id)[i] # id
              /\ \E j \in DOMAIN queue : queue[j] = Retained(queue, id)[i]
         /\ \A j \in DOMAIN queue : queue[j] # id =>
              \E i \in DOMAIN Retained(queue, id) : Retained(queue, id)[i] = queue[j]
<1> DEFINE n == Len(queue)
<1>0. n \in Nat /\ DOMAIN queue = 1..n
  OBVIOUS
<1> HIDE DEF n
<1>1. CASE \A i \in DOMAIN queue : queue[i] # id
  <2>1. Retained(queue, id) = queue
    BY <1>1 DEF Retained
  <2> QED BY <1>1, <2>1
<1>2. CASE ~\A i \in DOMAIN queue : queue[i] # id
  <2> DEFINE at == CHOOSE i \in DOMAIN queue : queue[i] = id
             r == SubSeq(queue, 1, at - 1) \o SubSeq(queue, at + 1, Len(queue))
  <2>1. at \in DOMAIN queue /\ queue[at] = id
    BY <1>2
  <2>2. Retained(queue, id) = r
    BY <1>2 DEF Retained
  <2>3. at = 1
    <3>1. 1 \in DOMAIN queue /\ (at # 1 => 1 < at)
      BY <2>1
    <3> HIDE DEF at
    <3> QED BY <2>1, <3>1 DEF Increasing
  <2> HIDE DEF at
  <2>4. /\ r \in Seq(Nat) /\ DOMAIN r = 1..(n - 1)
        /\ \A i \in 1..(n - 1) : r[i] = queue[i + 1]
    <3> DEFINE t == SubSeq(queue, at + 1, Len(queue))
    <3>1. SubSeq(queue, 1, at - 1) = <<>>
      BY <2>3
    <3>2. at \in 0..Len(queue)
      BY <2>1
    <3>3. /\ t \in Seq(Nat) /\ Len(t) = Len(queue) - at
          /\ \A i \in 1..(Len(queue) - at) : t[i] = queue[at + i]
      BY <3>2, SuffixFacts
    <3>4. <<>> \o t = t
      BY <3>3
    <3>5. r = t
      BY <3>1, <3>4
    <3> HIDE DEF t, r
    <3>6. Len(t) = n - 1 /\ \A i \in 1..(n - 1) : t[i] = queue[i + 1]
      BY <2>3, <3>3, <1>0 DEF n
    <3> QED BY <3>3, <3>5, <3>6
  <2> HIDE DEF r
  <2>5. Increasing(r)
    <3> SUFFICES ASSUME NEW i \in 1..(n - 1), NEW j \in 1..(n - 1), i < j PROVE r[i] < r[j]
      BY <2>4 DEF Increasing
    <3>1. i + 1 \in 1..n /\ j + 1 \in 1..n /\ i + 1 < j + 1
      BY <1>0
    <3> QED BY <1>0, <2>4, <3>1 DEF Increasing
  <2>6. \A i \in DOMAIN r : r[i] # id /\ \E j \in DOMAIN queue : queue[j] = r[i]
    <3> SUFFICES ASSUME NEW i \in 1..(n - 1)
                 PROVE  r[i] # id /\ \E j \in DOMAIN queue : queue[j] = r[i]
      BY <2>4
    <3>1. i + 1 \in 1..n /\ 1 \in 1..n /\ 1 < i + 1
      BY <1>0
    <3>2. queue[1] < queue[i + 1] /\ queue[1] = id /\ queue[i + 1] \in Nat
      BY <1>0, <2>1, <2>3, <3>1 DEF Increasing
    <3>3. queue[i + 1] # id
      BY <3>2
    <3> QED BY <1>0, <2>4, <3>1, <3>3
  <2>7. \A j \in DOMAIN queue : queue[j] # id => \E i \in DOMAIN r : r[i] = queue[j]
    <3> SUFFICES ASSUME NEW j \in 1..n, queue[j] # id
                 PROVE  j - 1 \in 1..(n - 1) /\ r[j - 1] = queue[j]
      BY <1>0, <2>4
    <3>1. j # 1
      BY <2>1, <2>3
    <3>2. j - 1 \in 1..(n - 1) /\ (j - 1) + 1 = j
      BY <1>0, <3>1
    <3> QED BY <2>4, <3>2
  <2> QED BY <2>2, <2>4, <2>5, <2>6, <2>7
<1> QED BY <1>1, <1>2

-----------------------------------------------------------------------------
(* The log.                                                                *)

\* The ids in the log are the last ones given out, in order.
LogInv ==
  /\ TypeOK
  /\ Len(order) <= max_records /\ Len(order) < next_id
  /\ DOMAIN records = (next_id - Len(order))..(next_id - 1)
  /\ \A i \in DOMAIN order : order[i] = next_id - Len(order) - 1 + i
  /\ Cardinality(DOMAIN recent_queries) <= dedupe_limit
  /\ Cardinality(DOMAIN recent_responses) <= dedupe_limit

QueuesTyped == DOMAIN pending \subseteq Keys /\ \A k \in DOMAIN pending : pending[k] \in Seq(Nat)

\* A queue of key k holds, oldest first, queries of the log that have no
\* answer yet and are not among gone, the expired ones.
GoodQueue(queue, k, recs, gone) ==
  /\ queue \in Seq(Nat) /\ queue # <<>> /\ Increasing(queue)
  /\ \A i \in DOMAIN queue :
       /\ queue[i] \in DOMAIN recs /\ queue[i] \notin gone
       /\ ~recs[queue[i]].restored
       /\ recs[queue[i]].key = k /\ recs[queue[i]].code = None

InQueue(id, p, k) == k \in DOMAIN p /\ \E i \in DOMAIN p[k] : p[k][i] = id

InStep(p, recs, gone) ==
  /\ \A k \in DOMAIN p : GoodQueue(p[k], k, recs, gone)
  /\ \A id \in DOMAIN recs :
       recs[id].code = None => id \in gone \/ InQueue(id, p, recs[id].key)

PendingInv ==
  /\ InStep(pending, records, expired)
  /\ \A id \in expired : id < next_id

\* What the filters remember of the messages that were used.
FilterInv ==
  ~crowded =>
    \A i \in DOMAIN records : Captured(i) =>
      /\ records[i].key \in DOMAIN recent_queries
      /\ records[i].observed <= recent_queries[records[i].key]
      /\ records[i].code = Answered =>
           /\ records[i].key \in DOMAIN recent_responses
           /\ records[i].answered_at <= recent_responses[records[i].key]

LEMMA PrunedFacts ==
  ASSUME max_records \in Nat, NEW cache, NEW ts, NEW window,
         NEW after \in Pruned(cache, ts, window)
  PROVE  /\ DOMAIN after \subseteq DOMAIN cache
         /\ \A k \in DOMAIN after : after[k] = cache[k]
         /\ Cardinality(DOMAIN after) <= dedupe_limit
<1> DEFINE fresh == {k \in DOMAIN cache : cache[k] >= Age(ts, window)}
           kept == {S \in SUBSET fresh : Cardinality(S) = dedupe_limit}
<1>0. dedupe_limit \in Nat
  BY DEF dedupe_limit
<1>1. after \in IF Cardinality(DOMAIN cache) <= dedupe_limit THEN {cache}
                ELSE IF Cardinality(fresh) <= dedupe_limit
                  THEN {[k \in fresh |-> cache[k]]}
                  ELSE {[k \in S |-> cache[k]] : S \in kept}
  BY Zenon DEF Pruned
<1>2. CASE Cardinality(DOMAIN cache) <= dedupe_limit
  <2>1. after = cache
    BY <1>1, <1>2
  <2> QED BY <1>2, <2>1
<1>3. CASE ~(Cardinality(DOMAIN cache) <= dedupe_limit) /\ Cardinality(fresh) <= dedupe_limit
  <2>1. after = [k \in fresh |-> cache[k]]
    BY <1>1, <1>3, Zenon
  <2>2. DOMAIN after = fresh /\ \A k \in fresh : after[k] = cache[k]
    BY <2>1
  <2> QED BY <1>3, <2>2
<1>4. CASE ~(Cardinality(DOMAIN cache) <= dedupe_limit) /\ ~(Cardinality(fresh) <= dedupe_limit)
  <2>1. after \in {[k \in S |-> cache[k]] : S \in kept}
    BY <1>1, <1>4, Zenon
  <2>2. PICK S \in kept : after = [k \in S |-> cache[k]]
    BY <2>1, Zenon
  <2>3. S \subseteq DOMAIN cache /\ Cardinality(S) = dedupe_limit
    BY <2>2
  <2>4. DOMAIN after = S /\ \A k \in S : after[k] = cache[k]
    BY <2>2
  <2> QED BY <1>0, <2>3, <2>4
<1> QED BY <1>2, <1>3, <1>4

\* Both filters after ingest: within the limit, with values they had or got.
LEMMA FiltersAfter ==
  ASSUME max_records \in Nat, NEW asked, NEW responses, NEW ts,
         PruneFilters(asked, responses, ts),
         DOMAIN asked \subseteq Keys, DOMAIN responses \subseteq Keys,
         \A k \in DOMAIN asked : asked[k] \in 0..MaxTime,
         \A k \in DOMAIN responses : responses[k] \in 0..MaxTime
  PROVE  /\ DOMAIN recent_queries' \subseteq Keys
         /\ \A k \in DOMAIN recent_queries' :
              recent_queries'[k] \in 0..MaxTime /\ recent_queries'[k] = asked[k]
         /\ DOMAIN recent_responses' \subseteq Keys
         /\ \A k \in DOMAIN recent_responses' :
              recent_responses'[k] \in 0..MaxTime /\ recent_responses'[k] = responses[k]
         /\ Cardinality(DOMAIN recent_queries') <= dedupe_limit
         /\ Cardinality(DOMAIN recent_responses') <= dedupe_limit
         /\ crowded' \in BOOLEAN
         /\ ~crowded' => /\ ~crowded
                         /\ DOMAIN recent_queries' = DOMAIN asked
                         /\ DOMAIN recent_responses' = DOMAIN responses
<1>1. recent_queries' \in Pruned(asked, ts, QueryWindow)
      /\ recent_responses' \in Pruned(responses, ts, ResponseWindow)
  BY DEF PruneFilters
<1>2. crowded' \in BOOLEAN
  BY Zenon DEF PruneFilters
<1>3. ~crowded' => /\ ~crowded
                   /\ DOMAIN recent_queries' = DOMAIN asked
                   /\ DOMAIN recent_responses' = DOMAIN responses
  BY Zenon DEF PruneFilters
<1>4. /\ DOMAIN recent_queries' \subseteq DOMAIN asked
      /\ \A k \in DOMAIN recent_queries' : recent_queries'[k] = asked[k]
      /\ Cardinality(DOMAIN recent_queries') <= dedupe_limit
  BY <1>1, PrunedFacts
<1>5. /\ DOMAIN recent_responses' \subseteq DOMAIN responses
      /\ \A k \in DOMAIN recent_responses' : recent_responses'[k] = responses[k]
      /\ Cardinality(DOMAIN recent_responses') <= dedupe_limit
  BY <1>1, PrunedFacts
<1> QED BY <1>2, <1>3, <1>4, <1>5

\* A query that is logged while the log is full displaces the least id.
LEMMA QueryEffect ==
  ASSUME LogInv, NEW k \in Keys, NEW ts
  PROVE  LET recs == With(records, next_id, Query(k, ts))
             ids == Append(order, next_id)
         IN /\ DOMAIN recs = (next_id - Len(order))..next_id
            /\ Head(ids) = next_id - Len(order)
            /\ Full(recs) <=> Len(order) = max_records
            /\ max_records \in Nat \ {0}
<1> DEFINE recs == With(records, next_id, Query(k, ts))
           ids == Append(order, next_id)
           first == next_id - Len(order)
<1>1. /\ next_id \in Nat \ {0} /\ Len(order) \in Nat /\ Len(order) < next_id
      /\ Len(order) <= max_records /\ order \in Seq(Nat)
      /\ DOMAIN records = first..(next_id - 1)
      /\ \A i \in DOMAIN order : order[i] = next_id - Len(order) - 1 + i
  BY DEF LogInv, TypeOK
<1>2. max_records \in Nat \ {0}
  BY LimitsAssumption DEF LogInv, TypeOK
<1>3. DOMAIN recs = DOMAIN records \cup {next_id}
  BY WithFacts
<1>4. DOMAIN recs = first..next_id
  <2> HIDE DEF recs
  <2> QED BY <1>1, <1>3
<1>5. Cardinality(first..next_id) = Len(order) + 1
  <2>1. first \in Int /\ next_id \in Int /\ ~(first > next_id) /\ next_id - first + 1 = Len(order) + 1
    BY <1>1
  <2> HIDE DEF first
  <2>2. Cardinality(first..next_id) = next_id - first + 1
    BY <2>1, FS_Interval
  <2> QED BY <2>1, <2>2
<1>6. Full(recs) <=> Len(order) = max_records
  <2> HIDE DEF recs, first
  <2>1. Full(recs) <=> Len(order) + 1 > max_records
    BY <1>4, <1>5 DEF Full
  <2> QED BY <1>1, <1>2, <2>1
<1>7. Head(ids) = first
  <2>1. CASE order = <<>>
    BY <1>1, <2>1
  <2>2. CASE order # <<>>
    <3>1. Head(ids) = order[1] /\ 1 \in DOMAIN order
      BY <1>1, <2>2
    <3> QED BY <1>1, <3>1
  <2> QED BY <2>1, <2>2
<1> QED BY <1>2, <1>4, <1>6, <1>7

LEMMA LogQuery ==
  ASSUME LogInv, NEW k \in Keys, NEW ts \in 1..now, IngestQuery(k, ts),
         QueuesTyped'
  PROVE  LogInv'
<1> DEFINE recs == With(records, next_id, Query(k, ts))
           ids == Append(order, next_id)
           first == next_id - Len(order)
           full == Full(recs)
<1>1. /\ next_id \in Nat \ {0} /\ Len(order) \in Nat /\ Len(order) < next_id
      /\ Len(order) <= max_records /\ order \in Seq(Nat)
      /\ DOMAIN records = first..(next_id - 1)
      /\ \A i \in DOMAIN order : order[i] = next_id - Len(order) - 1 + i
      /\ \A id \in DOMAIN records : records[id] \in Tracked
      /\ now \in 1..MaxTime
  BY DEF LogInv, TypeOK
<1>2. /\ DOMAIN recs = first..next_id /\ Head(ids) = first
      /\ full <=> Len(order) = max_records
      /\ max_records \in Nat \ {0}
  BY QueryEffect, Zenon
<1>3. /\ next_id' = next_id + 1
      /\ records' = IF full THEN Without(recs, Head(ids)) ELSE recs
      /\ order' = IF full THEN Tail(ids) ELSE ids
      /\ PruneFilters(With(recent_queries, k, ts), recent_responses, ts)
      /\ UNCHANGED <<now, max_records, saving, file, synced, restarts, expired>>
  BY Zenon DEF IngestQuery, fileVars
<1>4. Query(k, ts) \in Tracked
  <2>1. ts \in 0..MaxTime /\ 0 \in 0..MaxTime
    BY <1>1, TimesAssumption
  <2> QED BY <2>1 DEF Query, Tracked, None
<1>5. \A id \in DOMAIN recs : recs[id] \in Tracked
  <2>1. DOMAIN recs = DOMAIN records \cup {next_id} /\ recs[next_id] = Query(k, ts)
        /\ \A id \in DOMAIN records : id # next_id => recs[id] = records[id]
    BY DEF With
  <2> HIDE DEF recs
  <2> QED BY <1>1, <1>4, <2>1
<1>6. ids \in Seq(Nat) /\ Len(ids) = Len(order) + 1 /\ DOMAIN ids = 1..(Len(order) + 1)
      /\ \A i \in 1..(Len(order) + 1) : ids[i] = next_id - Len(order) - 1 + i
  <2>1. /\ ids \in Seq(Nat) /\ Len(ids) = Len(order) + 1
        /\ \A i \in 1..Len(order) : ids[i] = order[i]
        /\ ids[Len(order) + 1] = next_id
    BY <1>1
  <2>2. DOMAIN ids = 1..(Len(order) + 1) /\ DOMAIN order = 1..Len(order)
    BY <1>1, <2>1
  <2> HIDE DEF ids
  <2>3. ASSUME NEW i \in 1..(Len(order) + 1)
        PROVE  ids[i] = next_id - Len(order) - 1 + i
    <3>1. CASE i = Len(order) + 1
      BY <1>1, <2>1, <3>1
    <3>2. CASE i \in 1..Len(order)
      BY <1>1, <2>1, <2>2, <3>2
    <3> QED BY <1>1, <3>1, <3>2
  <2> QED BY <2>1, <2>2, <2>3
<1>7. Tail(ids) \in Seq(Nat) /\ Len(Tail(ids)) = Len(order) /\ DOMAIN Tail(ids) = 1..Len(order)
      /\ \A i \in 1..Len(order) : Tail(ids)[i] = next_id - Len(order) + i
  <2>1. ids # <<>>
    BY <1>6
  <2> HIDE DEF ids
  <2>2. /\ Tail(ids) \in Seq(Nat) /\ Len(Tail(ids)) = Len(ids) - 1
        /\ DOMAIN Tail(ids) = 1..Len(order)
        /\ \A i \in 1..Len(order) : Tail(ids)[i] = ids[i + 1]
    BY <1>1, <1>6, <2>1
  <2>3. ASSUME NEW i \in 1..Len(order)
        PROVE  ids[i + 1] = next_id - Len(order) + i
    <3>1. i + 1 \in 1..(Len(order) + 1)
      BY <1>1
    <3>2. ids[i + 1] = next_id - Len(order) - 1 + (i + 1)
      BY <1>6, <3>1
    <3> QED BY <1>1, <3>2
  <2> QED BY <1>1, <1>6, <2>2, <2>3
<1> HIDE DEF recs, ids, full
<1>30. next_id' = next_id + 1 /\ max_records' = max_records
  BY <1>3
<1>8. /\ next_id' \in Nat \ {0} /\ order' \in Seq(Nat)
      /\ Len(order') <= max_records' /\ Len(order') < next_id'
      /\ DOMAIN records' = (next_id' - Len(order'))..(next_id' - 1)
      /\ \A i \in DOMAIN order' : order'[i] = next_id' - Len(order') - 1 + i
      /\ DOMAIN records' \subseteq Nat \ {0}
      /\ \A id \in DOMAIN records' : records'[id] \in Tracked
  <2>1. CASE full
    <3>1. records' = Without(recs, first) /\ order' = Tail(ids)
      BY <1>2, <1>3, <2>1, Zenon
    <3>2. DOMAIN records' = DOMAIN recs \ {first}
          /\ \A id \in DOMAIN recs : id # first => records'[id] = recs[id]
      BY <3>1 DEF Without
    <3>3. DOMAIN records' = (first + 1)..next_id
      BY <1>1, <1>2, <3>2
    <3>4. \A id \in DOMAIN records' : records'[id] \in Tracked
      BY <1>5, <3>2
    <3>5. Len(order') = Len(order)
      BY <1>7, <3>1
    <3>6. next_id' - Len(order') = first + 1 /\ next_id' - 1 = next_id
      BY <1>1, <1>30, <3>5
    <3>7. \A i \in DOMAIN order' : order'[i] = next_id' - Len(order') - 1 + i
      <4> SUFFICES ASSUME NEW i \in 1..Len(order)
                   PROVE  order'[i] = next_id' - Len(order') - 1 + i
        BY <1>7, <3>1
      <4>1. order'[i] = next_id - Len(order) + i
        BY <1>7, <3>1
      <4> QED BY <1>1, <1>30, <3>5, <4>1
    <3>8. order' \in Seq(Nat)
      BY <1>7, <3>1
    <3>9. DOMAIN records' \subseteq Nat \ {0}
      BY <1>1, <3>3
    <3> QED BY <1>1, <1>30, <3>3, <3>4, <3>5, <3>6, <3>7, <3>8, <3>9
  <2>2. CASE ~full
    <3>1. records' = recs /\ order' = ids
      BY <1>3, <2>2, Zenon
    <3>2. Len(order') = Len(order) + 1 /\ order' \in Seq(Nat)
      BY <1>6, <3>1
    <3>3. next_id' - Len(order') = first /\ next_id' - 1 = next_id
      BY <1>1, <1>30, <3>2
    <3>4. \A i \in DOMAIN order' : order'[i] = next_id' - Len(order') - 1 + i
      <4> SUFFICES ASSUME NEW i \in 1..(Len(order) + 1)
                   PROVE  order'[i] = next_id' - Len(order') - 1 + i
        BY <1>6, <3>1
      <4>1. order'[i] = next_id - Len(order) - 1 + i
        BY <1>6, <3>1
      <4> QED BY <1>1, <1>30, <3>2, <4>1
    <3>5. DOMAIN records' = first..next_id /\ \A id \in DOMAIN records' : records'[id] \in Tracked
      BY <1>2, <1>5, <3>1
    <3>6. DOMAIN records' \subseteq Nat \ {0}
      BY <1>1, <3>5
    <3>7. Len(order') <= max_records'
      BY <1>1, <1>2, <1>30, <2>2, <3>2
    <3> QED BY <1>1, <1>30, <3>2, <3>3, <3>4, <3>5, <3>6, <3>7
  <2> QED BY <2>1, <2>2
<1>9. /\ DOMAIN recent_queries' \subseteq Keys
      /\ \A x \in DOMAIN recent_queries' : recent_queries'[x] \in 0..MaxTime
      /\ DOMAIN recent_responses' \subseteq Keys
      /\ \A x \in DOMAIN recent_responses' : recent_responses'[x] \in 0..MaxTime
      /\ Cardinality(DOMAIN recent_queries') <= dedupe_limit
      /\ Cardinality(DOMAIN recent_responses') <= dedupe_limit
      /\ crowded' \in BOOLEAN
  <2> DEFINE q == With(recent_queries, k, ts)
  <2>1. DOMAIN q \subseteq Keys /\ \A x \in DOMAIN q : q[x] \in 0..MaxTime
    <3>1. ts \in 0..MaxTime
      BY <1>1, TimesAssumption
    <3>2. DOMAIN q = DOMAIN recent_queries \cup {k} /\ q[k] = ts
          /\ \A x \in DOMAIN recent_queries : x # k => q[x] = recent_queries[x]
      BY DEF With
    <3> HIDE DEF q
    <3> QED BY <3>1, <3>2 DEF LogInv, TypeOK
  <2>2. DOMAIN recent_responses \subseteq Keys
        /\ \A x \in DOMAIN recent_responses : recent_responses[x] \in 0..MaxTime
    BY DEF LogInv, TypeOK
  <2> HIDE DEF q
  <2>3. PruneFilters(q, recent_responses, ts) /\ max_records \in Nat
    BY <1>2, <1>3 DEF q
  <2> QED BY <2>1, <2>2, <2>3, FiltersAfter
<1>10. TypeOK'
  BY <1>1, <1>3, <1>8, <1>9 DEF LogInv, TypeOK, QueuesTyped
<1> QED BY <1>3, <1>8, <1>9, <1>10 DEF LogInv, dedupe_limit

-----------------------------------------------------------------------------
(* The queues.                                                             *)

LEMMA InStepAdd ==
  ASSUME NEW p, NEW recs, NEW gone, InStep(p, recs, gone), NEW k, NEW n \in Nat,
         \A id \in DOMAIN recs : id \in Nat /\ id < n,
         n \notin gone,
         NEW rec, rec.key = k, rec.code = None, ~rec.restored,
         NEW queue, queue = IF k \in DOMAIN p THEN p[k] ELSE <<>>
  PROVE  InStep(With(p, k, Append(queue, n)), With(recs, n, rec), gone)
<1> DEFINE p2 == With(p, k, Append(queue, n))
           recs2 == With(recs, n, rec)
           queue2 == Append(queue, n)
<1>1. /\ DOMAIN p2 = DOMAIN p \cup {k} /\ p2[k] = queue2
      /\ \A x \in DOMAIN p : x # k => p2[x] = p[x]
  BY DEF With
<1>2. /\ DOMAIN recs2 = DOMAIN recs \cup {n} /\ recs2[n] = rec
      /\ \A x \in DOMAIN recs : x # n => recs2[x] = recs[x]
  BY DEF With
<1>3. \A x \in DOMAIN recs : recs2[x] = recs[x] /\ x < n /\ x \in Nat
  BY <1>2
<1>4. /\ queue \in Seq(Nat) /\ Increasing(queue)
      /\ \A i \in DOMAIN queue :
           /\ queue[i] \in DOMAIN recs /\ queue[i] \notin gone
           /\ ~recs[queue[i]].restored
           /\ recs[queue[i]].key = k /\ recs[queue[i]].code = None
  <2>1. CASE k \in DOMAIN p
    BY <2>1 DEF InStep, GoodQueue
  <2>2. CASE k \notin DOMAIN p
    <3>1. queue = <<>>
      BY <2>2
    <3>2. queue \in Seq(Nat) /\ DOMAIN queue = {}
      BY ONLY <3>1
    <3> QED BY <3>2 DEF Increasing
  <2> QED BY <2>1, <2>2
<1>5. /\ queue2 \in Seq(Nat) /\ queue2 # <<>> /\ DOMAIN queue2 = 1..(Len(queue) + 1)
      /\ \A i \in 1..Len(queue) : queue2[i] = queue[i]
      /\ queue2[Len(queue) + 1] = n
      /\ Len(queue) \in Nat /\ DOMAIN queue = 1..Len(queue)
  <2>1. queue \in Seq(Nat)
    BY <1>4
  <2>2. /\ queue2 \in Seq(Nat) /\ queue2 # <<>> /\ Len(queue2) = Len(queue) + 1
        /\ Len(queue) \in Nat /\ DOMAIN queue = 1..Len(queue)
    BY <2>1
  <2>3. /\ \A i \in 1..Len(queue) : queue2[i] = queue[i]
        /\ queue2[Len(queue) + 1] = n
    BY <2>1
  <2> QED BY <2>2, <2>3
<1> HIDE DEF p2, recs2, queue2
<1>6. Increasing(queue2)
  <2> SUFFICES ASSUME NEW i \in 1..(Len(queue) + 1), NEW j \in 1..(Len(queue) + 1), i < j
               PROVE  queue2[i] < queue2[j]
    BY <1>5 DEF Increasing
  <2>1. i \in 1..Len(queue) /\ queue2[i] = queue[i]
    BY <1>5
  <2>2. CASE j = Len(queue) + 1
    <3>1. queue[i] \in DOMAIN recs
      BY <1>4, <1>5, <2>1
    <3> QED BY <1>3, <1>5, <2>1, <2>2, <3>1
  <2>3. CASE j \in 1..Len(queue)
    BY <1>4, <1>5, <2>1, <2>3 DEF Increasing
  <2> QED BY <1>5, <2>2, <2>3
<1>7. GoodQueue(queue2, k, recs2, gone)
  <2>1. ASSUME NEW i \in 1..(Len(queue) + 1)
        PROVE  /\ queue2[i] \in DOMAIN recs2 /\ queue2[i] \notin gone
               /\ ~recs2[queue2[i]].restored
               /\ recs2[queue2[i]].key = k /\ recs2[queue2[i]].code = None
    <3>1. CASE i = Len(queue) + 1
      BY <1>2, <1>5, <3>1
    <3>2. CASE i \in 1..Len(queue)
      <4>1. queue2[i] = queue[i] /\ queue[i] \in DOMAIN recs
        BY <1>4, <1>5, <3>2
      <4>2. recs2[queue2[i]] = recs[queue[i]] /\ queue2[i] \in DOMAIN recs2
        BY <1>2, <1>3, <4>1
      <4> QED BY <1>4, <1>5, <3>2, <4>1, <4>2
    <3> QED BY <1>5, <3>1, <3>2
  <2> QED BY <1>5, <1>6, <2>1 DEF GoodQueue
<1>8. ASSUME NEW x \in DOMAIN p2
      PROVE  GoodQueue(p2[x], x, recs2, gone)
  <2>1. CASE x = k
    BY <1>1, <1>7, <2>1
  <2>2. CASE x # k
    <3>1. x \in DOMAIN p /\ p2[x] = p[x] /\ GoodQueue(p[x], x, recs, gone)
      BY <1>1, <2>2 DEF InStep
    <3> QED BY <1>2, <1>3, <3>1 DEF GoodQueue
  <2> QED BY <2>1, <2>2
<1>9. ASSUME NEW id \in DOMAIN recs2, recs2[id].code = None
      PROVE  id \in gone \/ InQueue(id, p2, recs2[id].key)
  <2>1. CASE id = n
    BY <1>1, <1>2, <1>5, <2>1 DEF InQueue
  <2>2. CASE id # n
    <3>1. id \in DOMAIN recs /\ recs2[id] = recs[id]
      BY <1>2, <2>2
    <3>2. id \in gone \/ InQueue(id, p, recs[id].key)
      BY <1>9, <3>1 DEF InStep
    <3>3. CASE InQueue(id, p, recs[id].key) /\ recs[id].key = k
      <4>1. PICK i \in DOMAIN queue : queue[i] = id
        BY <3>3 DEF InQueue
      <4>2. i \in DOMAIN queue2 /\ queue2[i] = id
        BY <1>5, <4>1
      <4> QED BY <1>1, <3>1, <3>3, <4>2 DEF InQueue
    <3>4. CASE InQueue(id, p, recs[id].key) /\ recs[id].key # k
      BY <1>1, <3>1, <3>4 DEF InQueue
    <3> QED BY <3>2, <3>3, <3>4
  <2> QED BY <2>1, <2>2
<1> QED BY <1>8, <1>9 DEF InStep, p2, recs2, queue2

\* Replacing the queue of one key: what is left of it is good, and whoever
\* still waits is in it.
OthersGood(p, k, recs, gone) ==
  \A x \in DOMAIN p : x # k => GoodQueue(p[x], x, recs, gone)

WaitersKept(queue, k, recs, gone, recs2, gone2) ==
  \A id \in DOMAIN recs2 :
    recs2[id].code = None =>
      /\ id \in DOMAIN recs /\ recs2[id] = recs[id]
      /\ \/ id \in gone2
         \/ recs[id].key # k /\ id \notin gone
         \/ queue # <<>> /\ \E i \in DOMAIN queue : recs[id].key = k /\ queue[i] = id

LEMMA InStepSet ==
  ASSUME NEW p, NEW recs, NEW gone, InStep(p, recs, gone),
         NEW k, NEW queue, NEW recs2, NEW gone2,
         queue = <<>> \/ GoodQueue(queue, k, recs2, gone2),
         OthersGood(p, k, recs2, gone2), WaitersKept(queue, k, recs, gone, recs2, gone2)
  PROVE  InStep(SetQueue(p, k, queue), recs2, gone2)
<1> DEFINE p2 == SetQueue(p, k, queue)
<1>1. /\ DOMAIN p2 \subseteq DOMAIN p \cup {k}
      /\ k \in DOMAIN p2 => queue # <<>> /\ p2[k] = queue
      /\ queue # <<>> => k \in DOMAIN p2
      /\ \A x \in DOMAIN p : x # k => x \in DOMAIN p2 /\ p2[x] = p[x]
  <2>1. CASE queue = <<>>
    <3>1. p2 = Without(p, k)
      BY <2>1 DEF SetQueue
    <3> HIDE DEF p2
    <3> QED BY <2>1, <3>1 DEF Without
  <2>2. CASE queue # <<>>
    <3>1. p2 = With(p, k, queue)
      BY <2>2 DEF SetQueue
    <3> HIDE DEF p2
    <3> QED BY <2>2, <3>1 DEF With
  <2> QED BY <2>1, <2>2
<1> HIDE DEF p2
<1>2. ASSUME NEW x \in DOMAIN p2
      PROVE  GoodQueue(p2[x], x, recs2, gone2)
  <2>1. CASE x = k
    BY <1>1, <2>1
  <2>2. CASE x # k
    BY <1>1, <2>2 DEF OthersGood
  <2> QED BY <2>1, <2>2
<1>3. ASSUME NEW id \in DOMAIN recs2, recs2[id].code = None
      PROVE  id \in gone2 \/ InQueue(id, p2, recs2[id].key)
  <2>1. /\ id \in DOMAIN recs /\ recs2[id] = recs[id]
        /\ \/ id \in gone2
           \/ recs[id].key # k /\ id \notin gone
           \/ queue # <<>> /\ \E i \in DOMAIN queue : recs[id].key = k /\ queue[i] = id
    BY <1>3 DEF WaitersKept
  <2>2. CASE recs[id].key # k /\ id \notin gone
    <3>1. InQueue(id, p, recs[id].key)
      BY <1>3, <2>1, <2>2 DEF InStep
    <3> QED BY <1>1, <2>1, <2>2, <3>1 DEF InQueue
  <2>3. CASE queue # <<>> /\ \E i \in DOMAIN queue : recs[id].key = k /\ queue[i] = id
    BY <1>1, <2>1, <2>3 DEF InQueue
  <2> QED BY <2>1, <2>2, <2>3
<1> QED BY <1>2, <1>3 DEF InStep, p2

LEMMA InStepEvict ==
  ASSUME NEW p, NEW recs, NEW gone, InStep(p, recs, gone),
         DOMAIN recs \subseteq Nat, NEW id \in DOMAIN recs, \A x \in DOMAIN recs : id <= x
  PROVE  InStep(PendingAfterEvict(p, id, recs[id]), Without(recs, id), gone)
<1> DEFINE recs2 == Without(recs, id)
           k == recs[id].key
<1>1. /\ DOMAIN recs2 = DOMAIN recs \ {id}
      /\ \A x \in DOMAIN recs : x # id => recs2[x] = recs[x]
  BY DEF Without
<1> HIDE DEF recs2
\* A queue in which the evicted query does not stand stays good.
<1>2. ASSUME NEW x, NEW queue, GoodQueue(queue, x, recs, gone),
             \A i \in DOMAIN queue : queue[i] # id
      PROVE  GoodQueue(queue, x, recs2, gone)
  BY <1>1, <1>2 DEF GoodQueue
<1>3. ASSUME NEW x \in DOMAIN p, x # k \/ recs[id].code # None
      PROVE  GoodQueue(p[x], x, recs2, gone)
  <2>1. GoodQueue(p[x], x, recs, gone)
    BY DEF InStep
  <2>2. \A i \in DOMAIN p[x] : p[x][i] # id
    BY <1>3, <2>1 DEF GoodQueue
  <2> QED BY <1>2, <2>1, <2>2
<1>4. CASE recs[id].code = None /\ k \in DOMAIN p
  <2> DEFINE queue == Retained(p[k], id)
  <2>1. GoodQueue(p[k], k, recs, gone)
    BY <1>4 DEF InStep
  <2>2. p[k] \in Seq(Nat) /\ Increasing(p[k]) /\ id \in Nat /\ \A i \in DOMAIN p[k] : id <= p[k][i]
    BY <2>1 DEF GoodQueue
  <2>3. /\ queue \in Seq(Nat) /\ Increasing(queue)
        /\ \A i \in DOMAIN queue :
             queue[i] # id /\ \E j \in DOMAIN p[k] : p[k][j] = queue[i]
        /\ \A j \in DOMAIN p[k] : p[k][j] # id => \E i \in DOMAIN queue : queue[i] = p[k][j]
    BY <2>2, RetainedFacts
  <2> HIDE DEF queue
  <2>4. queue = <<>> \/ GoodQueue(queue, k, recs2, gone)
    <3>1. ASSUME NEW i \in DOMAIN queue
          PROVE  /\ queue[i] \in DOMAIN recs2 /\ queue[i] \notin gone
                 /\ ~recs2[queue[i]].restored
                 /\ recs2[queue[i]].key = k /\ recs2[queue[i]].code = None
      <4>1. PICK j \in DOMAIN p[k] : p[k][j] = queue[i]
        BY <2>3
      <4>2. /\ queue[i] \in DOMAIN recs /\ queue[i] \notin gone
            /\ ~recs[queue[i]].restored
            /\ recs[queue[i]].key = k /\ recs[queue[i]].code = None
        BY <2>1, <4>1 DEF GoodQueue
      <4>3. queue[i] # id
        BY <2>3
      <4>4. queue[i] \in DOMAIN recs2 /\ recs2[queue[i]] = recs[queue[i]]
        BY <1>1, <4>2, <4>3
      <4> QED BY <4>2, <4>4
    <3> QED BY <2>3, <3>1 DEF GoodQueue
  <2>5. ASSUME NEW x \in DOMAIN recs2, recs2[x].code = None
        PROVE  /\ x \in DOMAIN recs /\ recs2[x] = recs[x]
               /\ \/ x \in gone
                  \/ recs[x].key # k /\ x \notin gone
                  \/ queue # <<>> /\ \E i \in DOMAIN queue : recs[x].key = k /\ queue[i] = x
    <3>1. x \in DOMAIN recs /\ recs2[x] = recs[x] /\ x # id
      BY <1>1
    <3>2. ASSUME x \notin gone, recs[x].key = k
          PROVE  \E i \in DOMAIN queue : queue[i] = x
      <4>1. PICK j \in DOMAIN p[k] : p[k][j] = x
        BY <2>5, <3>1, <3>2 DEF InStep, InQueue
      <4> QED BY <2>3, <3>1, <4>1
    <3>3. ASSUME NEW i \in DOMAIN queue PROVE queue # <<>>
      BY <2>3
    <3> QED BY <3>1, <3>2, <3>3
  <2>6. InStep(SetQueue(p, k, queue), recs2, gone)
    <3>1. OthersGood(p, k, recs2, gone)
      BY <1>3 DEF OthersGood
    <3>2. WaitersKept(queue, k, recs, gone, recs2, gone)
      BY <2>5 DEF WaitersKept
    <3> HIDE DEF k
    <3> QED BY <2>4, <3>1, <3>2, InStepSet
  <2> QED BY <1>4, <2>6 DEF PendingAfterEvict, queue, recs2
<1>5. CASE ~(recs[id].code = None /\ k \in DOMAIN p)
  <2>1. \A x \in DOMAIN p : GoodQueue(p[x], x, recs2, gone)
    BY <1>3, <1>5
  <2>2. InStep(p, recs2, gone)
    BY <1>1, <2>1 DEF InStep
  <2> QED BY <1>5, <2>2 DEF PendingAfterEvict, recs2
<1> QED BY <1>4, <1>5

\* The front of a queue: its query is taken, the ones before it have expired.
LEMMA InStepAnswer ==
  ASSUME NEW k, NEW ts, LogInv, InStep(pending, records, expired), k \in DOMAIN pending,
         NEW n \in 0..(Len(pending[k]) - 1), NEW rec, rec.code # None
  PROVE  InStep(SetQueue(pending, k, SubSeq(pending[k], n + 2, Len(pending[k]))),
                [records EXCEPT ![pending[k][n + 1]] = rec],
                expired \cup {pending[k][i] : i \in 1..n})
<1> DEFINE old == pending[k]
           queue == SubSeq(old, n + 2, Len(old))
           id == old[n + 1]
           recs2 == [records EXCEPT ![id] = rec]
           gone2 == expired \cup {old[i] : i \in 1..n}
           m == Len(old)
<1>1. GoodQueue(old, k, records, expired)
  BY DEF InStep
<1>2. /\ old \in Seq(Nat) /\ Increasing(old) /\ m \in Nat /\ n + 1 \in 1..m
      /\ DOMAIN old = 1..m
      /\ \A i \in 1..m : /\ old[i] \in DOMAIN records /\ old[i] \notin expired /\ old[i] \in Nat
                         /\ ~records[old[i]].restored
                         /\ records[old[i]].key = k /\ records[old[i]].code = None
  BY <1>1 DEF GoodQueue
<1>3. /\ queue \in Seq(Nat) /\ Len(queue) = m - (n + 1)
      /\ \A i \in 1..(m - (n + 1)) : queue[i] = old[n + 1 + i]
  <2>1. n + 1 \in 0..Len(old) /\ (n + 1) + 1 = n + 2
    BY <1>2
  <2> HIDE DEF old
  <2> QED BY <1>2, <2>1, SuffixFacts
<1>4. DOMAIN queue = 1..(m - (n + 1))
  <2> HIDE DEF queue
  <2> QED BY <1>3
<1>5. /\ DOMAIN recs2 = DOMAIN records /\ recs2[id] = rec
      /\ \A x \in DOMAIN records : x # id => recs2[x] = records[x]
  <2>1. id \in DOMAIN records
    BY <1>2
  <2> HIDE DEF id
  <2> QED BY <2>1
<1> HIDE DEF queue, recs2
<1>6. \A i, j \in 1..m : i < j => old[i] < old[j]
  BY <1>2 DEF Increasing
<1>7. ASSUME NEW i \in 1..m, i > n + 1
      PROVE  old[i] # id /\ old[i] \notin gone2
  <2>1. \A j \in 1..(n + 1) : j \in 1..m /\ j < i
    BY <1>2, <1>7
  <2>2. \A j \in 1..(n + 1) : old[j] < old[i] /\ old[j] \in Nat
    BY <1>2, <1>6, <2>1
  <2>3. \A j \in 1..(n + 1) : old[j] # old[i]
    BY <1>2, <2>2
  <2>4. n + 1 \in 1..(n + 1) /\ \A j \in 1..n : j \in 1..(n + 1)
    OBVIOUS
  <2>5. old[i] \notin expired
    BY <1>2
  <2> QED BY <2>3, <2>4, <2>5
<1>8. ASSUME NEW i \in 1..(m - (n + 1))
      PROVE  /\ queue[i] \in DOMAIN recs2 /\ queue[i] \notin gone2
             /\ ~recs2[queue[i]].restored
             /\ recs2[queue[i]].key = k /\ recs2[queue[i]].code = None
  <2>0. n + 1 + i \in 1..m /\ n + 1 + i > n + 1
    BY <1>2
  <2>1. n + 1 + i \in 1..m /\ n + 1 + i > n + 1 /\ queue[i] = old[n + 1 + i]
    BY <1>3, <2>0
  <2>2. queue[i] # id /\ queue[i] \notin gone2
    BY <1>7, <2>1
  <2>3. /\ queue[i] \in DOMAIN records /\ ~records[queue[i]].restored
        /\ records[queue[i]].key = k /\ records[queue[i]].code = None
    BY <1>2, <2>1
  <2>4. recs2[queue[i]] = records[queue[i]]
    BY <1>5, <2>2, <2>3
  <2> QED BY <1>5, <2>2, <2>3, <2>4
<1>9. Increasing(queue)
  <2> SUFFICES ASSUME NEW i \in 1..(m - (n + 1)), NEW j \in 1..(m - (n + 1)), i < j
               PROVE  queue[i] < queue[j]
    BY <1>4 DEF Increasing
  <2>1. /\ n + 1 + i \in 1..m /\ n + 1 + j \in 1..m /\ n + 1 + i < n + 1 + j
        /\ queue[i] = old[n + 1 + i] /\ queue[j] = old[n + 1 + j]
    BY <1>2, <1>3
  <2> QED BY <1>6, <2>1
<1>10. queue = <<>> \/ GoodQueue(queue, k, recs2, gone2)
  BY <1>3, <1>4, <1>8, <1>9 DEF GoodQueue
<1>11. OthersGood(pending, k, recs2, gone2)
  <2> SUFFICES ASSUME NEW x \in DOMAIN pending, x # k
               PROVE  GoodQueue(pending[x], x, recs2, gone2)
    BY DEF OthersGood
  <2>1. GoodQueue(pending[x], x, records, expired)
    BY DEF InStep
  <2>2. ASSUME NEW i \in DOMAIN pending[x]
        PROVE  /\ pending[x][i] \in DOMAIN recs2 /\ pending[x][i] \notin gone2
               /\ recs2[pending[x][i]] = records[pending[x][i]]
    <3>1. /\ pending[x][i] \in DOMAIN records /\ pending[x][i] \notin expired
          /\ records[pending[x][i]].key = x
      BY <2>1 DEF GoodQueue
    <3>2. \A j \in 1..m : old[j] # pending[x][i]
      BY <1>2, <3>1
    <3> QED BY <1>2, <1>5, <3>1, <3>2
  <2> QED BY <2>1, <2>2 DEF GoodQueue
<1>12. WaitersKept(queue, k, records, expired, recs2, gone2)
  <2> SUFFICES ASSUME NEW x \in DOMAIN recs2, recs2[x].code = None, x \notin gone2,
                      records[x].key = k
               PROVE  \E i \in DOMAIN queue : queue[i] = x
    <3>1. \A x \in DOMAIN recs2 : recs2[x].code = None =>
            x \in DOMAIN records /\ recs2[x] = records[x]
      BY <1>5
    <3>2. ASSUME NEW i \in DOMAIN queue PROVE queue # <<>>
      BY <1>3
    <3>3. expired \subseteq gone2
      OBVIOUS
    <3> HIDE DEF gone2
    <3> QED BY <3>1, <3>2, <3>3 DEF WaitersKept
  <2>1. x \in DOMAIN records /\ recs2[x] = records[x] /\ x # id
    BY <1>5
  <2>2. PICK i \in 1..m : old[i] = x
    <3>1. InQueue(x, pending, k)
      BY <2>1 DEF InStep
    <3> QED BY <1>2, <3>1 DEF InQueue
  <2>3. i > n + 1
    BY <1>2, <2>1, <2>2
  <2>4. i - (n + 1) \in 1..(m - (n + 1)) /\ n + 1 + (i - (n + 1)) = i
    BY <1>2, <2>3
  <2> QED BY <1>3, <1>4, <2>2, <2>4
<1> HIDE DEF gone2
<1>13. InStep(SetQueue(pending, k, queue), recs2, gone2)
  BY <1>10, <1>11, <1>12, InStepSet
<1> QED BY <1>13 DEF queue, recs2, gone2

\* The record of a query that is answered at ts.
AnsweredAt(q, ts) ==
  [q EXCEPT !.code = Answered, !.answered_at = ts, !.elapsed = Age(ts, q.observed)]

LEMMA ResponseEffect ==
  ASSUME LogInv, InStep(pending, records, expired), NEW k, NEW ts, IngestResponse(k, ts)
  PROVE  /\ k \in DOMAIN pending
         /\ \E n \in 0..(Len(pending[k]) - 1) : LET id == pending[k][n + 1] IN
              /\ ~Expired(id, ts)
              /\ records' = [records EXCEPT ![id] = AnsweredAt(records[id], ts)]
              /\ pending' = SetQueue(pending, k, SubSeq(pending[k], n + 2, Len(pending[k])))
              /\ expired' = expired \cup {pending[k][i] : i \in 1..n}
<1> DEFINE old == pending[k]
           m == Len(old)
           queue == Unexpired(old, ts)
<1>1. /\ k \in DOMAIN pending /\ queue # <<>>
      /\ records' = [records EXCEPT ![Head(queue)].code = Answered,
                                    ![Head(queue)].answered_at = ts,
                                    ![Head(queue)].elapsed =
                                        Age(ts, records[Head(queue)].observed)]
      /\ pending' = SetQueue(pending, k, Tail(queue))
      /\ expired' = expired \cup {old[i] : i \in 1..(m - Len(queue))}
  BY DEF IngestResponse, AfterMatch
<1>2. old \in Seq(Nat)
  BY <1>1 DEF InStep, GoodQueue
<1>3. PICK n \in 0..m : /\ n < m => ~Expired(old[n + 1], ts)
                        /\ queue = SubSeq(old, n + 1, m)
  <2> HIDE DEF old
  <2> QED BY <1>2, UnexpiredFacts
<1>4. n \in 0..(m - 1)
  <2>1. m \in Nat /\ (n = m => SubSeq(old, n + 1, m) = <<>>)
    BY <1>2
  <2> QED BY <1>1, <1>3, <2>1
<1> HIDE DEF queue
<1>5. /\ queue \in Seq(Nat) /\ Len(queue) = m - n
      /\ \A i \in 1..(m - n) : queue[i] = old[n + i]
  <2> HIDE DEF old
  <2> QED BY <1>2, <1>3, SuffixFacts
<1>6. Head(queue) = old[n + 1]
  <2>1. 1 \in 1..(m - n)
    BY <1>4
  <2> QED BY <1>1, <1>5, <2>1
<1>7. Tail(queue) = SubSeq(old, n + 2, m)
  <2>1. n + 1 \in 1..Len(old) /\ Len(old) \in (n + 1)..Len(old) /\ (n + 1) + 1 = n + 2
    BY <1>2, <1>4
  <2> HIDE DEF old
  <2>2. Tail(SubSeq(old, n + 1, Len(old))) = SubSeq(old, (n + 1) + 1, Len(old))
    BY <1>2, <2>1, HeadTailOfSubSeq
  <2> QED BY <1>3, <2>1, <2>2
<1>8. m - Len(queue) = n
  BY <1>2, <1>5
<1>9. ~Expired(old[n + 1], ts)
  BY <1>2, <1>3, <1>4
<1> DEFINE id == old[n + 1]
<1>10. records' = [records EXCEPT ![id] = AnsweredAt(records[id], ts)]
  <2>0. Head(queue) = id
    BY <1>6
  <2> HIDE DEF id
  <2>1. records' = [records EXCEPT ![id].code = Answered,
                                   ![id].answered_at = ts,
                                   ![id].elapsed = Age(ts, records[id].observed)]
    BY <1>1, <2>0, Zenon
  <2> QED BY <2>1 DEF AnsweredAt
<1>11. /\ pending' = SetQueue(pending, k, SubSeq(old, n + 2, m))
       /\ expired' = expired \cup {old[i] : i \in 1..n}
  BY <1>1, <1>7, <1>8
<1> QED BY <1>1, <1>4, <1>9, <1>10, <1>11

LEMMA SetQueueDomain ==
  ASSUME NEW p, NEW k, NEW queue
  PROVE  DOMAIN SetQueue(p, k, queue) \subseteq DOMAIN p \cup {k}
BY DEF SetQueue, With, Without

LEMMA PendingQuery ==
  ASSUME LogInv, PendingInv, NEW k \in Keys, NEW ts, IngestQuery(k, ts)
  PROVE  InStep(pending', records', expired') /\ QueuesTyped'
<1> DEFINE rec == Query(k, ts)
           recs == With(records, next_id, rec)
           queue == IF k \in DOMAIN pending THEN pending[k] ELSE <<>>
           pend == With(pending, k, Append(queue, next_id))
           oldest == Head(Append(order, next_id))
<1>1. /\ records' = IF Full(recs) THEN Without(recs, oldest) ELSE recs
      /\ pending' = IF Full(recs) THEN PendingAfterEvict(pend, oldest, recs[oldest]) ELSE pend
      /\ expired' = expired
  BY Zenon DEF IngestQuery
<1>2. /\ next_id \in Nat /\ Len(order) \in Nat /\ Len(order) < next_id
      /\ DOMAIN records = (next_id - Len(order))..(next_id - 1)
      /\ DOMAIN pending \subseteq Keys
  BY DEF LogInv, TypeOK
<1>3. DOMAIN recs = (next_id - Len(order))..next_id /\ oldest = next_id - Len(order)
  BY QueryEffect, Zenon
<1>4. rec.key = k /\ rec.code = None /\ ~rec.restored
  BY DEF Query
<1>5. InStep(pending, records, expired) /\ next_id \notin expired
  BY <1>2 DEF PendingInv
<1>6. \A id \in DOMAIN records : id \in Nat /\ id < next_id
  BY <1>2
<1>7. DOMAIN pend \subseteq Keys
  BY <1>2 DEF With
<1> HIDE DEF rec
<1>8. InStep(pend, recs, expired)
  <2> HIDE DEF queue
  <2>1. queue = IF k \in DOMAIN pending THEN pending[k] ELSE <<>>
    BY Zenon DEF queue
  <2> QED BY <1>2, <1>4, <1>5, <1>6, <2>1, InStepAdd
<1> HIDE DEF recs, pend, oldest
<1>9. CASE Full(recs)
  <2>1. records' = Without(recs, oldest) /\ pending' = PendingAfterEvict(pend, oldest, recs[oldest])
    BY <1>1, <1>9, Zenon
  <2>2. DOMAIN recs \subseteq Nat /\ oldest \in DOMAIN recs /\ \A x \in DOMAIN recs : oldest <= x
    BY <1>2, <1>3
  <2>3. InStep(pending', records', expired)
    BY <1>8, <2>1, <2>2, InStepEvict
  <2>4. DOMAIN pending' \subseteq DOMAIN pend
    BY <2>1, SetQueueDomain DEF PendingAfterEvict
  <2>5. \A x \in DOMAIN pending' : pending'[x] \in Seq(Nat)
    BY <2>3 DEF InStep, GoodQueue
  <2> QED BY <1>1, <1>7, <2>3, <2>4, <2>5 DEF QueuesTyped
<1>10. CASE ~Full(recs)
  <2>1. records' = recs /\ pending' = pend
    BY <1>1, <1>10, Zenon
  <2>2. InStep(pending', records', expired)
    BY <1>8, <2>1
  <2>3. \A x \in DOMAIN pending' : pending'[x] \in Seq(Nat)
    BY <2>2 DEF InStep, GoodQueue
  <2> QED BY <1>1, <1>7, <2>1, <2>2, <2>3 DEF QueuesTyped
<1> QED BY <1>9, <1>10

\* A response that finds no query: its queue has expired as a whole.
LEMMA PendingUnmatched ==
  ASSUME LogInv, InStep(pending, records, expired), NEW k, NEW ts, IngestUnmatched(k, ts)
  PROVE  InStep(pending', records', expired') /\ QueuesTyped'
<1> DEFINE gone == expired \cup
             IF k \in DOMAIN pending THEN {pending[k][i] : i \in DOMAIN pending[k]} ELSE {}
<1>1. pending' = Without(pending, k) /\ expired' = gone /\ records' = records
  BY DEF IngestUnmatched
<1>2. DOMAIN pending' = DOMAIN pending \ {k} /\ \A x \in DOMAIN pending' : pending'[x] = pending[x]
  BY <1>1 DEF Without
<1>3. ASSUME NEW x \in DOMAIN pending'
      PROVE  GoodQueue(pending'[x], x, records, gone)
  <2>1. x \in DOMAIN pending /\ x # k /\ pending'[x] = pending[x]
    BY <1>2
  <2>2. GoodQueue(pending[x], x, records, expired)
    BY <2>1 DEF InStep
  <2>3. \A i \in DOMAIN pending[x] : pending[x][i] \notin gone
    <3> SUFFICES ASSUME NEW i \in DOMAIN pending[x], NEW j \in DOMAIN pending[k],
                        k \in DOMAIN pending, pending[x][i] = pending[k][j]
                 PROVE  FALSE
      BY <2>2 DEF GoodQueue
    <3>1. GoodQueue(pending[k], k, records, expired)
      BY DEF InStep
    <3> QED BY <2>1, <2>2, <3>1 DEF GoodQueue
  <2> HIDE DEF gone
  <2> QED BY <2>1, <2>2, <2>3 DEF GoodQueue
<1>4. ASSUME NEW id \in DOMAIN records, records[id].code = None
      PROVE  id \in gone \/ InQueue(id, pending', records[id].key)
  <2>1. id \in expired \/ InQueue(id, pending, records[id].key)
    BY <1>4 DEF InStep
  <2>2. CASE records[id].key = k
    BY <2>1, <2>2 DEF InQueue
  <2>3. CASE records[id].key # k
    <3> HIDE DEF gone
    <3>1. expired \subseteq gone
      BY DEF gone
    <3> QED BY <1>2, <2>1, <2>3, <3>1 DEF InQueue
  <2> QED BY <2>2, <2>3
<1> HIDE DEF gone
<1>5. InStep(pending', records', gone)
  BY <1>1, <1>3, <1>4 DEF InStep
<1>6. \A x \in DOMAIN pending' : pending'[x] \in Seq(Nat)
  BY <1>3 DEF GoodQueue
<1> QED BY <1>1, <1>2, <1>5, <1>6 DEF QueuesTyped, LogInv, TypeOK

LEMMA AnswerIsTracked ==
  ASSUME NEW q \in Tracked, NEW ts \in 1..MaxTime
  PROVE  /\ AnsweredAt(q, ts) \in Tracked
         /\ AnsweredAt(q, ts).code = Answered /\ AnsweredAt(q, ts).key = q.key
         /\ AnsweredAt(q, ts).answered_at = ts
         /\ AnsweredAt(q, ts).elapsed = Age(ts, q.observed)
         /\ AnsweredAt(q, ts).observed = q.observed
         /\ AnsweredAt(q, ts).restored = q.restored
<1>1. q.observed \in 0..MaxTime /\ MaxTime \in Nat
  BY TimesAssumption DEF Tracked
<1>2. Age(ts, q.observed) \in 0..MaxTime /\ ts \in 0..MaxTime
  BY <1>1 DEF Age
<1> QED BY <1>2 DEF AnsweredAt, Tracked

LEMMA StepResponse ==
  ASSUME LogInv, PendingInv, NEW k \in Keys, NEW ts \in 1..now, IngestResponse(k, ts)
  PROVE  LogInv' /\ PendingInv'
<1>0. InStep(pending, records, expired)
  BY DEF PendingInv
<1>1. k \in DOMAIN pending
  BY <1>0, ResponseEffect
<1>2. PICK n \in 0..(Len(pending[k]) - 1) :
        /\ records' = [records EXCEPT ![pending[k][n + 1]] =
                         AnsweredAt(records[pending[k][n + 1]], ts)]
        /\ pending' = SetQueue(pending, k, SubSeq(pending[k], n + 2, Len(pending[k])))
        /\ expired' = expired \cup {pending[k][i] : i \in 1..n}
  BY <1>0, ResponseEffect
<1> DEFINE id == pending[k][n + 1]
           rec == AnsweredAt(records[id], ts)
<1>3. GoodQueue(pending[k], k, records, expired)
  BY <1>0, <1>1 DEF InStep
<1>4. \A i \in 1..Len(pending[k]) : pending[k][i] \in DOMAIN records /\ pending[k][i] \in Nat
  BY <1>3 DEF GoodQueue
<1>5. Len(pending[k]) \in Nat
  BY <1>3 DEF GoodQueue
<1>6. id \in DOMAIN records /\ ts \in 1..MaxTime
  <2>1. n + 1 \in 1..Len(pending[k])
    BY <1>5
  <2> QED BY <1>4, <2>1, TimesAssumption DEF LogInv, TypeOK
<1> HIDE DEF id
<1>7. records[id] \in Tracked
  BY <1>6 DEF LogInv, TypeOK
<1>8. rec \in Tracked /\ rec.code = Answered
  BY <1>6, <1>7, AnswerIsTracked
<1> HIDE DEF rec
<1>9. InStep(pending', records', expired')
  <2>1. rec.code # None
    BY <1>8 DEF Answered, None
  <2>2. InStep(SetQueue(pending, k, SubSeq(pending[k], n + 2, Len(pending[k]))),
               [records EXCEPT ![pending[k][n + 1]] = rec],
               expired \cup {pending[k][i] : i \in 1..n})
    BY <1>0, <1>1, <2>1, InStepAnswer
  <2> QED BY <1>2, <2>2, Zenon DEF id, rec
<1>10. records' = [records EXCEPT ![id] = rec]
  BY <1>2 DEF id, rec
<1>11. DOMAIN records' = DOMAIN records /\ \A x \in DOMAIN records' : records'[x] \in Tracked
  <2>1. \A x \in DOMAIN records : records[x] \in Tracked
    BY DEF LogInv, TypeOK
  <2> QED BY <1>8, <1>10, <2>1
<1>12. QueuesTyped'
  <2>1. DOMAIN pending' \subseteq Keys
    BY <1>2, SetQueueDomain DEF LogInv, TypeOK
  <2>2. \A x \in DOMAIN pending' : pending'[x] \in Seq(Nat)
    BY <1>9 DEF InStep, GoodQueue
  <2> QED BY <2>1, <2>2 DEF QueuesTyped
<1>13. /\ PruneFilters(recent_queries, With(recent_responses, k, ts), ts)
       /\ UNCHANGED <<now, max_records, order, next_id, saving, file, synced, restarts>>
  BY DEF IngestResponse, fileVars
<1>14. /\ DOMAIN recent_queries' \subseteq Keys
       /\ \A x \in DOMAIN recent_queries' : recent_queries'[x] \in 0..MaxTime
       /\ DOMAIN recent_responses' \subseteq Keys
       /\ \A x \in DOMAIN recent_responses' : recent_responses'[x] \in 0..MaxTime
       /\ Cardinality(DOMAIN recent_queries') <= dedupe_limit
       /\ Cardinality(DOMAIN recent_responses') <= dedupe_limit
       /\ crowded' \in BOOLEAN
  <2> DEFINE r == With(recent_responses, k, ts)
  <2>1. DOMAIN r \subseteq Keys /\ \A x \in DOMAIN r : r[x] \in 0..MaxTime
    <3>1. ts \in 0..MaxTime
      BY <1>6
    <3>2. DOMAIN r = DOMAIN recent_responses \cup {k} /\ r[k] = ts
          /\ \A x \in DOMAIN recent_responses : x # k => r[x] = recent_responses[x]
      BY DEF With
    <3> HIDE DEF r
    <3> QED BY <3>1, <3>2 DEF LogInv, TypeOK
  <2>2. DOMAIN recent_queries \subseteq Keys
        /\ \A x \in DOMAIN recent_queries : recent_queries[x] \in 0..MaxTime
    BY DEF LogInv, TypeOK
  <2> HIDE DEF r
  <2>3. PruneFilters(recent_queries, r, ts) /\ max_records \in Nat
    BY <1>13, LimitsAssumption DEF r, LogInv, TypeOK
  <2> QED BY <2>1, <2>2, <2>3, FiltersAfter
<1>15. expired' \subseteq Nat /\ \A x \in expired' : x < next_id
  <2>1. \A x \in DOMAIN records : x \in Nat /\ x < next_id
    BY DEF LogInv, TypeOK
  <2>2. \A i \in 1..n : pending[k][i] \in DOMAIN records
    <3>1. \A i \in 1..n : i \in 1..Len(pending[k])
      BY <1>5
    <3> QED BY <1>4, <3>1
  <2>3. expired \subseteq Nat /\ \A x \in expired : x < next_id
    BY DEF LogInv, TypeOK, PendingInv
  <2> QED BY <1>2, <2>1, <2>2, <2>3
<1>16. LogInv'
  BY <1>11, <1>12, <1>13, <1>14, <1>15 DEF LogInv, TypeOK, QueuesTyped, dedupe_limit
<1>17. PendingInv'
  BY <1>9, <1>13, <1>15 DEF PendingInv
<1> QED BY <1>16, <1>17

LEMMA StepUnmatched ==
  ASSUME LogInv, PendingInv, NEW k \in Keys, NEW ts, IngestUnmatched(k, ts)
  PROVE  LogInv' /\ PendingInv'
<1>1. InStep(pending, records, expired)
  BY DEF PendingInv
<1>2. InStep(pending', records', expired') /\ QueuesTyped'
  BY <1>1, PendingUnmatched
<1>3. /\ PruneFilters(recent_queries, recent_responses, ts)
      /\ UNCHANGED <<now, max_records, records, order, next_id, saving, file, synced, restarts>>
      /\ expired' = expired \cup
           IF k \in DOMAIN pending THEN {pending[k][i] : i \in DOMAIN pending[k]} ELSE {}
  BY DEF IngestUnmatched, fileVars
<1>4. expired' \subseteq Nat /\ \A x \in expired' : x < next_id
  <2>1. \A x \in DOMAIN records : x \in Nat /\ x < next_id
    BY DEF LogInv, TypeOK
  <2>2. k \in DOMAIN pending => \A i \in DOMAIN pending[k] : pending[k][i] \in DOMAIN records
    BY <1>1 DEF InStep, GoodQueue
  <2>3. expired \subseteq Nat /\ \A x \in expired : x < next_id
    BY DEF LogInv, TypeOK, PendingInv
  <2>4. \A x \in expired' : x \in expired \/ x \in DOMAIN records
    BY <1>3, <2>2
  <2> QED BY <2>1, <2>3, <2>4
<1>5. /\ DOMAIN recent_queries' \subseteq Keys
      /\ \A x \in DOMAIN recent_queries' : recent_queries'[x] \in 0..MaxTime
      /\ DOMAIN recent_responses' \subseteq Keys
      /\ \A x \in DOMAIN recent_responses' : recent_responses'[x] \in 0..MaxTime
      /\ Cardinality(DOMAIN recent_queries') <= dedupe_limit
      /\ Cardinality(DOMAIN recent_responses') <= dedupe_limit
      /\ crowded' \in BOOLEAN
  <2>1. /\ DOMAIN recent_queries \subseteq Keys /\ DOMAIN recent_responses \subseteq Keys
        /\ \A x \in DOMAIN recent_queries : recent_queries[x] \in 0..MaxTime
        /\ \A x \in DOMAIN recent_responses : recent_responses[x] \in 0..MaxTime
    BY DEF LogInv, TypeOK
  <2>2. max_records \in Nat
    BY LimitsAssumption DEF LogInv, TypeOK
  <2>3. PruneFilters(recent_queries, recent_responses, ts)
    BY <1>3
  <2> QED BY <2>1, <2>2, <2>3, FiltersAfter
<1>6. LogInv'
  BY <1>2, <1>3, <1>4, <1>5 DEF LogInv, TypeOK, QueuesTyped, dedupe_limit
<1>7. PendingInv'
  BY <1>2, <1>3, <1>4 DEF PendingInv
<1> QED BY <1>6, <1>7

LEMMA StepRestart ==
  ASSUME LogInv, PendingInv, NEW limit \in Limits, Restart(limit)
  PROVE  LogInv' /\ PendingInv' /\ \A id \in DOMAIN records' : records'[id].restored
<1> DEFINE skip == Skipped(file', limit)
           n == Len(file') - skip
<1>1. /\ max_records' = limit /\ restarts' = restarts + 1 /\ restarts < Restarts
      /\ synced' = TRUE /\ saving' = NotSaving /\ now' = now
      /\ pending' = NoMap /\ recent_queries' = NoMap /\ recent_responses' = NoMap
      /\ expired' = {} /\ crowded' = FALSE
  BY DEF Restart
<1>2. /\ records' = [id \in 1..n |-> Restored(file'[skip + id])]
      /\ order' = [id \in 1..n |-> id]
      /\ next_id' = n + 1
  BY DEF Restart, RestoreFrom
<1>3. file' \in Seq(Line)
  <2>1. file \in Seq(Line) /\ Len(file) \in Nat
    BY DEF LogInv, TypeOK
  <2>2. PICK m \in IF synced THEN {Len(file)} ELSE 0..Len(file) : file' = SubSeq(file, 1, m)
    BY Zenon DEF Restart
  <2>3. m \in 0..Len(file)
    BY <2>1, <2>2
  <2> QED BY <2>1, <2>2, <2>3
<1>4. limit \in Nat \ {0} /\ Len(file') \in Nat
  BY <1>3, LimitsAssumption
<1>5. n \in 0..limit /\ skip \in Nat /\ skip + n = Len(file')
  BY <1>4 DEF Skipped
<1> HIDE DEF n, skip
<1>6. \A i \in 1..n : file'[skip + i] \in Line
  <2>1. \A i \in 1..n : skip + i \in 1..Len(file')
    BY <1>4, <1>5
  <2> QED BY <1>3, <2>1
<1>7. ASSUME NEW line \in Line
      PROVE  Restored(line) \in Tracked /\ Restored(line).restored /\ Restored(line).code # None
  <2>1. 0 \in 0..MaxTime
    BY TimesAssumption
  <2>2. NoResponse # None
    BY DEF NoResponse, None
  <2> QED BY <1>7, <2>1, <2>2 DEF Restored, Query, Line, Tracked
<1>8. DOMAIN records' = 1..n /\ \A id \in 1..n : records'[id] = Restored(file'[skip + id])
  BY <1>2
<1>9. \A id \in DOMAIN records' : /\ records'[id] \in Tracked /\ records'[id].restored
                                  /\ records'[id].code # None
  BY <1>6, <1>7, <1>8
<1>10. order' \in Seq(Nat) /\ Len(order') = n /\ DOMAIN order' = 1..n
       /\ \A i \in 1..n : order'[i] = i
  BY <1>2, <1>5
<1>11. DOMAIN NoMap = {}
  BY DEF NoMap
<1>12. Cardinality(DOMAIN NoMap) = 0
  BY <1>11, FS_EmptySet
<1>13. /\ synced' \in BOOLEAN /\ crowded' \in BOOLEAN /\ saving'.busy \in BOOLEAN
  BY <1>1, Zenon DEF NotSaving
<1>14. saving'.lines \in Seq(Line)
  BY <1>1 DEF NotSaving
<1>15. restarts' \in 0..Restarts
  BY <1>1, TimesAssumption DEF LogInv, TypeOK
<1>16. TypeOK'
  BY <1>1, <1>3, <1>5, <1>8, <1>9, <1>10, <1>2, <1>11, <1>13, <1>14, <1>15 DEF TypeOK, LogInv
<1>17. /\ Len(order') <= max_records' /\ Len(order') < next_id'
       /\ DOMAIN records' = (next_id' - Len(order'))..(next_id' - 1)
  BY <1>1, <1>2, <1>4, <1>5, <1>8, <1>10
<1>18. \A i \in DOMAIN order' : order'[i] = next_id' - Len(order') - 1 + i
  <2> SUFFICES ASSUME NEW i \in 1..n PROVE order'[i] = next_id' - Len(order') - 1 + i
    BY <1>10
  <2> QED BY <1>2, <1>5, <1>10
<1>19. /\ Cardinality(DOMAIN recent_queries') <= dedupe_limit'
       /\ Cardinality(DOMAIN recent_responses') <= dedupe_limit'
  BY <1>1, <1>4, <1>12 DEF dedupe_limit
<1>20. LogInv'
  BY <1>16, <1>17, <1>18, <1>19 DEF LogInv
<1>21. InStep(pending', records', expired')
  BY <1>1, <1>9, <1>11 DEF InStep
<1>22. PendingInv'
  BY <1>1, <1>21 DEF PendingInv
<1> QED BY <1>9, <1>20, <1>22

-----------------------------------------------------------------------------
(* The theorems about the log and its queues.                              *)

LEMMA LogInit == Init => LogInv /\ PendingInv
<1> SUFFICES ASSUME Init PROVE LogInv /\ PendingInv
  OBVIOUS
<1>1. DOMAIN NoMap = {} /\ Cardinality(DOMAIN NoMap) = 0
  <2>1. DOMAIN NoMap = {}
    BY DEF NoMap
  <2> QED BY <2>1, FS_EmptySet
<1>2. max_records \in Nat \ {0}
  BY LimitsAssumption DEF Init
<1>3. synced \in BOOLEAN /\ crowded \in BOOLEAN /\ saving.busy \in BOOLEAN
  BY Zenon DEF Init, NotSaving
<1>4. saving.lines \in Seq(Line)
  BY DEF Init, NotSaving
<1>5. TypeOK
  BY <1>1, <1>3, <1>4, TimesAssumption DEF Init, TypeOK
<1>6. /\ Cardinality(DOMAIN recent_queries) <= dedupe_limit
      /\ Cardinality(DOMAIN recent_responses) <= dedupe_limit
  BY <1>1, <1>2 DEF Init, dedupe_limit
<1>7. Len(order) = 0 /\ next_id = 1 /\ DOMAIN order = {}
  BY DEF Init
<1>8. DOMAIN records = (next_id - Len(order))..(next_id - 1)
  BY <1>1, <1>7 DEF Init
<1>9. LogInv
  BY <1>2, <1>5, <1>6, <1>7, <1>8 DEF LogInv
<1>10. PendingInv
  BY <1>1 DEF PendingInv, InStep, Init
<1> QED BY <1>9, <1>10

LEMMA StepQuery ==
  ASSUME LogInv, PendingInv, NEW k \in Keys, NEW ts \in 1..now, IngestQuery(k, ts)
  PROVE  LogInv' /\ PendingInv'
<1>1. InStep(pending', records', expired') /\ QueuesTyped'
  BY PendingQuery
<1>2. LogInv'
  BY <1>1, LogQuery
<1>3. expired' = expired /\ next_id' = next_id + 1 /\ next_id \in Nat /\ expired \subseteq Nat
  BY DEF IngestQuery, LogInv, TypeOK
<1>4. \A id \in expired : id < next_id + 1
  BY <1>3 DEF PendingInv
<1> QED BY <1>1, <1>2, <1>3, <1>4 DEF PendingInv

\* What the log was copied to is a list of lines.
LEMMA CopyTyped ==
  ASSUME LogInv, CopyRecords
  PROVE  saving'.lines \in Seq(Line) /\ saving'.busy = TRUE
<1> DEFINE lines == [i \in DOMAIN order |-> LineOf(records[order[i]])]
<1>1. saving' = [busy |-> TRUE, lines |-> lines]
  BY DEF CopyRecords
<1>2. /\ DOMAIN order = 1..Len(order) /\ Len(order) \in Nat /\ next_id \in Nat
      /\ \A i \in 1..Len(order) : order[i] = next_id - Len(order) - 1 + i
      /\ DOMAIN records = (next_id - Len(order))..(next_id - 1)
      /\ \A id \in DOMAIN records : records[id] \in Tracked
  BY DEF LogInv, TypeOK
<1>3. \A i \in 1..Len(order) : order[i] \in DOMAIN records
  BY <1>2
<1>4. ASSUME NEW q \in Tracked PROVE LineOf(q) \in Line
  BY <1>4 DEF Tracked, LineOf, Line
<1>5. \A i \in 1..Len(order) : LineOf(records[order[i]]) \in Line
  BY <1>2, <1>3, <1>4
<1>6. lines \in Seq(Line)
  BY <1>2, <1>5
<1> HIDE DEF lines
<1> QED BY <1>1, <1>6

LEMMA LogNext == LogInv /\ PendingInv /\ [Next]_vars => LogInv' /\ PendingInv'
<1> SUFFICES ASSUME LogInv, PendingInv, [Next]_vars PROVE LogInv' /\ PendingInv'
  OBVIOUS
<1> DEFINE ts1 == {t \in 1..now : now - t <= Skew}
<1>1. ASSUME NEW k \in Keys, NEW ts \in ts1,
             \/ IngestQuery(k, ts) \/ IngestResponse(k, ts) \/ IngestUnmatched(k, ts)
      PROVE  LogInv' /\ PendingInv'
  BY <1>1, StepQuery, StepResponse, StepUnmatched
<1>2. CASE UNCHANGED vars
  BY <1>2 DEF LogInv, TypeOK, dedupe_limit, PendingInv, vars, logVars, fileVars
<1>3. ASSUME NEW k \in Keys, NEW ts \in ts1, IngestDuplicate(k, ts)
      PROVE  LogInv' /\ PendingInv'
  BY <1>2, <1>3 DEF IngestDuplicate
<1>4. CASE Tick
  <2>1. now' \in 1..MaxTime
    BY <1>4, TimesAssumption DEF Tick, LogInv, TypeOK
  <2> QED BY <1>4, <2>1 DEF Tick, LogInv, TypeOK, dedupe_limit, PendingInv, logVars, fileVars
<1>5. ASSUME UNCHANGED <<now, max_records, logVars, restarts>>,
             saving'.busy \in BOOLEAN, saving'.lines \in Seq(Line), file' \in Seq(Line),
             synced' \in BOOLEAN
      PROVE  LogInv' /\ PendingInv'
  BY <1>5 DEF LogInv, TypeOK, dedupe_limit, PendingInv, logVars
<1>6. CASE CopyRecords
  <2>1. saving'.lines \in Seq(Line) /\ saving'.busy = TRUE
    BY <1>6, CopyTyped
  <2>2. saving'.busy \in BOOLEAN
    BY <2>1, Zenon
  <2>3. /\ UNCHANGED <<now, max_records, logVars, restarts>>
        /\ file' = file /\ synced' = synced /\ file \in Seq(Line) /\ synced \in BOOLEAN
    BY <1>6 DEF CopyRecords, LogInv, TypeOK
  <2> QED BY <1>5, <2>1, <2>2, <2>3
<1>7. CASE SaveRecords \/ SaveFails \/ WriteBack
  <2>1. saving'.busy \in BOOLEAN /\ synced' \in BOOLEAN
    <3>1. saving.busy \in BOOLEAN /\ synced \in BOOLEAN
      BY DEF LogInv, TypeOK
    <3>2. /\ saving' = saving \/ saving' = NotSaving
          /\ synced' = synced \/ synced' = FALSE \/ synced' = TRUE
      BY <1>7 DEF SaveRecords, SaveFails, WriteBack
    <3>3. NotSaving.busy = FALSE
      BY DEF NotSaving
    <3>4. saving'.busy \in BOOLEAN
      BY <3>1, <3>2, <3>3, Zenon
    <3>5. synced' \in BOOLEAN
      BY <3>1, <3>2, Zenon
    <3> QED BY <3>4, <3>5
  <2>2. saving'.lines \in Seq(Line) /\ file' \in Seq(Line)
    <3>1. saving.lines \in Seq(Line) /\ file \in Seq(Line) /\ NotSaving.lines \in Seq(Line)
      BY DEF NotSaving, LogInv, TypeOK
    <3>2. /\ saving' = saving \/ saving' = NotSaving
          /\ file' = file \/ file' = saving.lines
      BY <1>7 DEF SaveRecords, SaveFails, WriteBack
    <3> QED BY <3>1, <3>2, Zenon
  <2>3. UNCHANGED <<now, max_records, logVars, restarts>>
    BY <1>7 DEF SaveRecords, SaveFails, WriteBack
  <2> QED BY <1>5, <2>1, <2>2, <2>3
<1>8. ASSUME NEW limit \in Limits, Restart(limit)
      PROVE  LogInv' /\ PendingInv'
  BY <1>8, StepRestart
<1> QED BY <1>1, <1>2, <1>3, <1>4, <1>6, <1>7, <1>8 DEF Next, Ingest

LEMMA LogAlways == Spec => [](LogInv /\ PendingInv)
BY LogInit, LogNext, PTL DEF Spec

\* Every variable keeps its type: what ingest, the persistence task and a
\* restart assign is a record, a queue, a filter or a line of the file.
THEOREM TypeCorrect == Spec => []TypeOK
<1>1. LogInv => TypeOK
  BY DEF LogInv
<1> QED BY <1>1, LogAlways, PTL

\* The log is the max_records newest queries and both duplicate filters stay
\* within their limit, for every limit and any number of keys.
THEOREM NewestRetainedHolds == Spec => []NewestRetained
<1>1. LogInv => NewestRetained
  <2> SUFFICES ASSUME LogInv PROVE NewestRetained
    OBVIOUS
  <2>1. /\ DOMAIN order = 1..Len(order) /\ Len(order) \in Nat /\ next_id \in Nat
        /\ \A i \in 1..Len(order) : order[i] = next_id - Len(order) - 1 + i
        /\ DOMAIN records = (next_id - Len(order))..(next_id - 1)
    BY DEF LogInv, TypeOK
  <2>2. Increasing(order)
    BY <2>1 DEF Increasing
  <2>3. {order[i] : i \in DOMAIN order} = DOMAIN records
    <3>1. ASSUME NEW id \in DOMAIN records
          PROVE  id \in {order[i] : i \in DOMAIN order}
      <4>1. id - (next_id - Len(order) - 1) \in 1..Len(order)
        BY <2>1
      <4>2. order[id - (next_id - Len(order) - 1)] = id
        BY <2>1, <4>1
      <4> QED BY <2>1, <4>1, <4>2
    <3>2. ASSUME NEW i \in 1..Len(order) PROVE order[i] \in DOMAIN records
      BY <2>1
    <3> QED BY <2>1, <3>1, <3>2
  <2> QED BY <2>1, <2>2, <2>3 DEF LogInv, NewestRetained
<1> QED BY <1>1, LogAlways, PTL

\* Queues and records agree: a queue holds, oldest first, the logged queries
\* of its key that have no answer, and such a query waits or has expired.
THEOREM PendingExactHolds == Spec => []PendingExact
<1>1. PendingInv => PendingExact
  <2> SUFFICES ASSUME PendingInv PROVE PendingExact
    OBVIOUS
  <2>1. InStep(pending, records, expired)
    BY DEF PendingInv
  <2>2. ASSUME NEW k \in DOMAIN pending
        PROVE  /\ pending[k] # <<>> /\ Increasing(pending[k])
               /\ \A i \in DOMAIN pending[k] :
                    LET id == pending[k][i] IN
                    Captured(id) /\ records[id].key = k /\ records[id].code = None
    BY <2>1 DEF InStep, GoodQueue, Captured
  <2>3. ASSUME NEW id \in DOMAIN records, records[id].code = None
        PROVE  id \in Waiting \cup expired
    <3>1. id \in expired \/ InQueue(id, pending, records[id].key)
      BY <2>1, <2>3 DEF InStep
    <3>2. ASSUME NEW k, InQueue(id, pending, k) PROVE id \in Waiting
      BY <3>2 DEF InQueue, Waiting
    <3> QED BY <3>1, <3>2
  <2> QED BY <2>2, <2>3 DEF PendingExact
<1> QED BY <1>1, LogAlways, PTL

-----------------------------------------------------------------------------
(* Answers.                                                                *)

\* What a query adds to the log and to its filter.
LEMMA QueryAdds ==
  ASSUME LogInv, NEW k \in Keys, NEW ts \in 1..now, IngestQuery(k, ts)
  PROVE  /\ \A id \in DOMAIN records' :
              \/ id = next_id /\ records'[id] = Query(k, ts)
              \/ id \in DOMAIN records /\ id < next_id /\ records'[id] = records[id]
         /\ expired' = expired
         /\ restarts' = restarts
         /\ k \in DOMAIN recent_queries => Age(ts, recent_queries[k]) >= QueryWindow
         /\ ~crowded' => /\ ~crowded /\ k \in DOMAIN recent_queries' /\ recent_queries'[k] = ts
                         /\ \A x \in DOMAIN recent_queries :
                              x # k => x \in DOMAIN recent_queries'
                                       /\ recent_queries'[x] = recent_queries[x]
                         /\ \A x \in DOMAIN recent_responses :
                              x \in DOMAIN recent_responses'
                              /\ recent_responses'[x] = recent_responses[x]
<1> DEFINE recs == With(records, next_id, Query(k, ts))
           q == With(recent_queries, k, ts)
<1>1. /\ records' \in {Without(recs, Head(Append(order, next_id))), recs}
      /\ expired' = expired /\ restarts' = restarts
      /\ ~Duplicate(recent_queries, k, ts, QueryWindow)
      /\ PruneFilters(q, recent_responses, ts)
  <2>1. records' = IF Full(recs) THEN Without(recs, Head(Append(order, next_id))) ELSE recs
    BY Zenon DEF IngestQuery
  <2>2. records' = Without(recs, Head(Append(order, next_id))) \/ records' = recs
    BY <2>1, Zenon
  <2>3. /\ expired' = expired /\ restarts' = restarts
        /\ ~Duplicate(recent_queries, k, ts, QueryWindow)
        /\ PruneFilters(q, recent_responses, ts)
    BY Zenon DEF IngestQuery
  <2> QED BY <2>2, <2>3, Zenon
<1>2. /\ DOMAIN recs = DOMAIN records \cup {next_id} /\ recs[next_id] = Query(k, ts)
      /\ \A id \in DOMAIN records : id # next_id => recs[id] = records[id]
  BY DEF With
<1>3. \A id \in DOMAIN records : id < next_id /\ id # next_id
  BY DEF LogInv, TypeOK
<1> HIDE DEF recs
<1>4. DOMAIN records' \subseteq DOMAIN recs /\ \A id \in DOMAIN records' : records'[id] = recs[id]
  <2> DEFINE oldest == Head(Append(order, next_id))
  <2> HIDE DEF oldest
  <2>1. CASE records' = Without(recs, oldest)
    BY <2>1 DEF Without
  <2> QED BY <1>1, <2>1 DEF oldest
<1>5. \A id \in DOMAIN records' :
        \/ id = next_id /\ records'[id] = Query(k, ts)
        \/ id \in DOMAIN records /\ id < next_id /\ records'[id] = records[id]
  BY <1>2, <1>3, <1>4
<1>6. k \in DOMAIN recent_queries => Age(ts, recent_queries[k]) >= QueryWindow
  <2> SUFFICES ASSUME k \in DOMAIN recent_queries
               PROVE  Age(ts, recent_queries[k]) >= QueryWindow
    OBVIOUS
  <2>1. recent_queries[k] \in 0..MaxTime /\ ts \in Nat /\ QueryWindow \in Nat /\ MaxTime \in Nat
    BY TimesAssumption DEF LogInv, TypeOK
  <2>2. Age(ts, recent_queries[k]) \in Int
    BY <2>1 DEF Age
  <2>3. ~(Age(ts, recent_queries[k]) < QueryWindow)
    BY <1>1 DEF Duplicate
  <2> QED BY <2>1, <2>2, <2>3
<1>7. DOMAIN q = DOMAIN recent_queries \cup {k} /\ q[k] = ts
      /\ \A x \in DOMAIN recent_queries : x # k => q[x] = recent_queries[x]
  BY DEF With
<1>8. /\ recent_queries' \in Pruned(q, ts, QueryWindow)
      /\ recent_responses' \in Pruned(recent_responses, ts, ResponseWindow)
  BY <1>1 DEF PruneFilters
<1>9. ~crowded' => /\ ~crowded /\ DOMAIN recent_queries' = DOMAIN q
                   /\ DOMAIN recent_responses' = DOMAIN recent_responses
  BY <1>1, Zenon DEF PruneFilters
<1>10. max_records \in Nat
  BY LimitsAssumption DEF LogInv, TypeOK
<1> HIDE DEF q
<1>11. /\ \A x \in DOMAIN recent_queries' : recent_queries'[x] = q[x]
       /\ \A x \in DOMAIN recent_responses' : recent_responses'[x] = recent_responses[x]
  BY <1>8, <1>10, PrunedFacts
<1>12. ~crowded' => /\ ~crowded /\ k \in DOMAIN recent_queries' /\ recent_queries'[k] = ts
                    /\ \A x \in DOMAIN recent_queries :
                         x # k => x \in DOMAIN recent_queries'
                                  /\ recent_queries'[x] = recent_queries[x]
                    /\ \A x \in DOMAIN recent_responses :
                         x \in DOMAIN recent_responses'
                         /\ recent_responses'[x] = recent_responses[x]
  BY <1>7, <1>9, <1>11
<1> QED BY <1>1, <1>5, <1>6, <1>12

\* The one query a response answers: the oldest of its key that can still be
\* matched.
LEMMA ResponseAnswers ==
  ASSUME LogInv, PendingInv, NEW k \in Keys, NEW ts \in 1..now, IngestResponse(k, ts)
  PROVE  \E id \in DOMAIN records :
           /\ records[id].key = k /\ records[id].code = None /\ ~records[id].restored
           /\ id \notin expired
           /\ Age(ts, records[id].observed) <= MatchAge
           /\ records' = [records EXCEPT ![id] = AnsweredAt(records[id], ts)]
           /\ expired \subseteq expired'
           /\ \A x \in DOMAIN records :
                x < id /\ records[x].key = k /\ records[x].code = None => x \in expired'
<1>0. InStep(pending, records, expired)
  BY DEF PendingInv
<1>1. k \in DOMAIN pending
  BY <1>0, ResponseEffect
<1>2. PICK n \in 0..(Len(pending[k]) - 1) :
        /\ ~Expired(pending[k][n + 1], ts)
        /\ records' = [records EXCEPT ![pending[k][n + 1]] =
                         AnsweredAt(records[pending[k][n + 1]], ts)]
        /\ expired' = expired \cup {pending[k][i] : i \in 1..n}
  BY <1>0, ResponseEffect
<1> DEFINE old == pending[k]
           m == Len(old)
           id == old[n + 1]
<1>3. GoodQueue(old, k, records, expired)
  BY <1>0, <1>1 DEF InStep
<1>4. /\ m \in Nat /\ DOMAIN old = 1..m
      /\ \A i, j \in 1..m : i < j => old[i] < old[j]
      /\ \A i \in 1..m : /\ old[i] \in DOMAIN records /\ old[i] \in Nat
                         /\ old[i] \notin expired
                         /\ ~records[old[i]].restored
                         /\ records[old[i]].key = k /\ records[old[i]].code = None
  <2> HIDE DEF old
  <2> QED BY <1>3 DEF GoodQueue, Increasing
<1>5. n + 1 \in 1..m
  BY <1>4
<1>6. /\ id \in DOMAIN records /\ id \in Nat /\ id \notin expired
      /\ records[id].key = k /\ records[id].code = None /\ ~records[id].restored
  BY <1>4, <1>5
<1>7. Age(ts, records[id].observed) <= MatchAge
  <2>1. ~(Age(ts, records[id].observed) > MatchAge)
    BY <1>2 DEF Expired
  <2>2. records[id].observed \in Nat /\ ts \in Nat
    BY <1>6, TimesAssumption DEF LogInv, TypeOK, Tracked
  <2>3. Age(ts, records[id].observed) \in Int
    BY <2>2 DEF Age
  <2> QED BY <2>1, <2>3, TimesAssumption
<1>8. ASSUME NEW x \in DOMAIN records, x < id, records[x].key = k, records[x].code = None
      PROVE  x \in expired'
  <2>1. CASE x \in expired
    BY <1>2, <2>1
  <2>2. CASE x \notin expired
    <3>1. InQueue(x, pending, k)
      BY <1>0, <1>8, <2>2 DEF InStep
    <3>2. PICK i \in 1..m : old[i] = x
      BY <1>4, <3>1 DEF InQueue
    <3>3. i \in 1..n
      <4>1. ~(i = n + 1) /\ ~(n + 1 < i)
        BY <1>4, <1>5, <1>8, <3>2
      <4> QED BY <1>4, <4>1
    <3> QED BY <1>2, <3>2, <3>3
  <2> QED BY <2>1, <2>2
<1>9. expired \subseteq expired'
  BY <1>2
<1> QED BY <1>2, <1>6, <1>7, <1>8, <1>9

LEMMA AnswerInit == Init => OldestAnsweredFirst
BY DEF Init, NoMap, OldestAnsweredFirst

LEMMA AnswerNext ==
  LogInv /\ PendingInv /\ OldestAnsweredFirst /\ [Next]_vars => OldestAnsweredFirst'
<1> SUFFICES ASSUME LogInv, PendingInv, OldestAnsweredFirst, [Next]_vars
             PROVE  OldestAnsweredFirst'
  OBVIOUS
<1> DEFINE ts1 == {t \in 1..now : now - t <= Skew}
<1>1. ASSUME NEW k \in Keys, NEW ts \in ts1, IngestQuery(k, ts)
      PROVE  OldestAnsweredFirst'
  <2>1. /\ \A id \in DOMAIN records' :
             \/ id = next_id /\ records'[id] = Query(k, ts)
             \/ id \in DOMAIN records /\ id < next_id /\ records'[id] = records[id]
        /\ expired' = expired
    BY <1>1, QueryAdds
  <2>2. Query(k, ts).code # Answered
    BY DEF Query, None, Answered
  <2> SUFFICES ASSUME NEW id \in DOMAIN records', Captured(id)', records'[id].code = Answered
               PROVE  /\ records'[id].elapsed <= MatchAge
                      /\ \A older \in DOMAIN records' :
                           Captured(older)' /\ older < id /\ records'[older].key = records'[id].key
                             /\ records'[older].code = None => older \in expired'
    BY DEF OldestAnsweredFirst
  <2>3. id \in DOMAIN records /\ id < next_id /\ records'[id] = records[id]
    BY <2>1, <2>2
  <2>4. \A older \in DOMAIN records' : older < id =>
          older \in DOMAIN records /\ records'[older] = records[older]
    <3>1. next_id \in Nat /\ id \in Nat
      BY <2>3 DEF LogInv, TypeOK
    <3>2. ~(next_id < id)
      BY <2>3, <3>1
    <3> QED BY <2>1, <3>2
  <2> QED BY <2>1, <2>3, <2>4 DEF OldestAnsweredFirst, Captured
<1>2. ASSUME NEW k \in Keys, NEW ts \in ts1, IngestResponse(k, ts)
      PROVE  OldestAnsweredFirst'
  <2>1. PICK id \in DOMAIN records :
           /\ records[id].key = k /\ records[id].code = None /\ ~records[id].restored
           /\ Age(ts, records[id].observed) <= MatchAge
           /\ records' = [records EXCEPT ![id] = AnsweredAt(records[id], ts)]
           /\ expired \subseteq expired'
           /\ \A x \in DOMAIN records :
                x < id /\ records[x].key = k /\ records[x].code = None => x \in expired'
    BY <1>2, ResponseAnswers
  <2>2. ts \in 1..MaxTime /\ records[id] \in Tracked
    BY <2>1, TimesAssumption DEF LogInv, TypeOK
  <2> DEFINE rec == AnsweredAt(records[id], ts)
  <2>3. rec.code = Answered /\ rec.key = k /\ rec.elapsed <= MatchAge
    BY <2>1, <2>2, AnswerIsTracked
  <2> HIDE DEF rec
  <2>4. /\ DOMAIN records' = DOMAIN records /\ records'[id] = rec
        /\ \A x \in DOMAIN records : x # id => records'[x] = records[x]
    BY <2>1 DEF rec
  <2>5. Answered # None
    BY DEF Answered, None
  <2>6. ASSUME NEW x \in DOMAIN records', Captured(x)', records'[x].code = Answered,
               NEW older \in DOMAIN records',
               Captured(older)' /\ older < x /\ records'[older].key = records'[x].key
                 /\ records'[older].code = None
        PROVE  older \in expired'
    <3>1. older # id /\ records'[older] = records[older] /\ Captured(older)
      BY <2>3, <2>4, <2>5, <2>6 DEF Captured
    <3>2. CASE x = id
      BY <2>1, <2>3, <2>4, <2>6, <3>1, <3>2
    <3>3. CASE x # id
      <4>1. records'[x] = records[x] /\ Captured(x)
        BY <2>4, <2>6, <3>3 DEF Captured
      <4> QED BY <2>1, <2>4, <2>6, <3>1, <4>1 DEF OldestAnsweredFirst
    <3> QED BY <3>2, <3>3
  <2>7. ASSUME NEW x \in DOMAIN records', Captured(x)', records'[x].code = Answered
        PROVE  records'[x].elapsed <= MatchAge
    <3>1. CASE x = id
      BY <2>3, <2>4, <3>1
    <3>2. CASE x # id
      BY <2>4, <2>7, <3>2 DEF OldestAnsweredFirst, Captured
    <3> QED BY <3>1, <3>2
  <2> QED BY <2>6, <2>7 DEF OldestAnsweredFirst
<1>3. ASSUME records' = records, expired \subseteq expired'
      PROVE  OldestAnsweredFirst'
  BY <1>3 DEF OldestAnsweredFirst, Captured
<1>4. ASSUME NEW k \in Keys, NEW ts \in ts1, IngestUnmatched(k, ts) \/ IngestDuplicate(k, ts)
      PROVE  OldestAnsweredFirst'
  <2>1. records' = records /\ expired \subseteq expired'
    BY <1>4 DEF IngestUnmatched, IngestDuplicate, vars, logVars
  <2> QED BY <1>3, <2>1
<1>5. ASSUME NEW limit \in Limits, Restart(limit)
      PROVE  OldestAnsweredFirst'
  <2>1. \A id \in DOMAIN records' : records'[id].restored
    BY <1>5, StepRestart
  <2> QED BY <2>1 DEF OldestAnsweredFirst, Captured
<1>6. CASE Tick \/ CopyRecords \/ SaveRecords \/ SaveFails \/ WriteBack \/ UNCHANGED vars
  <2>1. records' = records /\ expired \subseteq expired'
    BY <1>6 DEF Tick, CopyRecords, SaveRecords, SaveFails, WriteBack, vars, logVars
  <2> QED BY <1>3, <2>1
<1> QED BY <1>1, <1>2, <1>4, <1>5, <1>6 DEF Next, Ingest

\* A response goes to the oldest waiting query of its key, and never to one
\* older than MAX_QUERY_MATCH_AGE_NS.
THEOREM OldestAnsweredFirstHolds == Spec => []OldestAnsweredFirst
BY LogAlways, AnswerInit, AnswerNext, PTL DEF Spec

\* No step of a running service changes a record that has an answer or was
\* restored as unanswered: only a query that waits is ever assigned to.
THEOREM AnswersAreFinalHolds == Spec => AnswersAreFinal
<1> DEFINE Final == restarts' = restarts =>
             \A id \in DOMAIN records \cap DOMAIN records' :
               records[id].code # None => records'[id] = records[id]
           ts1 == {t \in 1..now : now - t <= Skew}
<1>1. ASSUME LogInv, PendingInv, [Next]_vars PROVE Final
  <2>1. ASSUME NEW k \in Keys, NEW ts \in ts1, IngestQuery(k, ts) PROVE Final
    <3>1. \A id \in DOMAIN records' :
            \/ id = next_id
            \/ records'[id] = records[id]
      BY <1>1, <2>1, QueryAdds
    <3>2. next_id \notin DOMAIN records
      BY <1>1 DEF LogInv, TypeOK
    <3> QED BY <3>1, <3>2
  <2>2. ASSUME NEW k \in Keys, NEW ts \in ts1, IngestResponse(k, ts) PROVE Final
    <3>1. PICK id \in DOMAIN records :
            /\ records[id].code = None
            /\ records' = [records EXCEPT ![id] = AnsweredAt(records[id], ts)]
      BY <1>1, <2>2, ResponseAnswers
    <3> QED BY <3>1
  <2>3. CASE records' = records
    BY <2>3
  <2>4. ASSUME NEW limit \in Limits, Restart(limit) PROVE Final
    <3>1. restarts' = restarts + 1 /\ restarts \in Nat
      BY <1>1, <2>4, TimesAssumption DEF Restart, LogInv, TypeOK
    <3>2. restarts' # restarts
      BY <3>1
    <3> QED BY <3>2
  <2> QED BY <1>1, <2>1, <2>2, <2>3, <2>4
     DEF Next, Ingest, IngestUnmatched, IngestDuplicate, Tick, CopyRecords, SaveRecords,
         SaveFails, WriteBack, vars, logVars
<1>2. LogInv /\ PendingInv /\ [Next]_vars => [Final]_vars
  BY <1>1
<1> QED BY <1>2, LogAlways, PTL DEF Spec, AnswersAreFinal

-----------------------------------------------------------------------------
(* Copies of a packet.                                                     *)

CopyInv == FilterInv /\ CopiesCountOnce

LEMMA CopyInit == Init => CopyInv
BY DEF Init, NoMap, CopyInv, FilterInv, CopiesCountOnce

\* The times in a record and in the filters are natural numbers.
LEMMA Times ==
  ASSUME LogInv
  PROVE  /\ \A i \in DOMAIN records :
              i \in Nat /\ records[i].observed \in Nat /\ records[i].answered_at \in Nat
         /\ \A k \in DOMAIN recent_queries : recent_queries[k] \in Nat
         /\ \A k \in DOMAIN recent_responses : recent_responses[k] \in Nat
<1>1. \A t \in 0..MaxTime : t \in Nat
  BY TimesAssumption
<1>2. \A i \in DOMAIN records :
        i \in Nat /\ records[i].observed \in 0..MaxTime /\ records[i].answered_at \in 0..MaxTime
  BY DEF LogInv, TypeOK, Tracked
<1>3. /\ \A k \in DOMAIN recent_queries : recent_queries[k] \in 0..MaxTime
      /\ \A k \in DOMAIN recent_responses : recent_responses[k] \in 0..MaxTime
  BY DEF LogInv, TypeOK
<1> QED BY <1>1, <1>2, <1>3

\* A message that is not a copy comes a window after the last one.
LEMMA WindowApart ==
  ASSUME NEW ts \in Nat, NEW since \in Nat, NEW window \in Nat \ {0}, Age(ts, since) >= window
  PROVE  ts - since >= window /\ since <= ts
BY DEF Age

LEMMA CopyQuery ==
  ASSUME LogInv, CopyInv, NEW k \in Keys, NEW ts \in 1..now, IngestQuery(k, ts)
  PROVE  CopyInv'
<1> SUFFICES ASSUME ~crowded' PROVE CopyInv'
  BY DEF CopyInv, FilterInv, CopiesCountOnce
<1>1. \A id \in DOMAIN records' :
        \/ id = next_id /\ records'[id] = Query(k, ts)
        \/ id \in DOMAIN records /\ id < next_id /\ records'[id] = records[id]
  BY QueryAdds
<1>2. k \in DOMAIN recent_queries => Age(ts, recent_queries[k]) >= QueryWindow
  BY QueryAdds
<1>3. /\ ~crowded /\ k \in DOMAIN recent_queries' /\ recent_queries'[k] = ts
      /\ \A x \in DOMAIN recent_queries :
           x # k => x \in DOMAIN recent_queries' /\ recent_queries'[x] = recent_queries[x]
      /\ \A x \in DOMAIN recent_responses :
           x \in DOMAIN recent_responses' /\ recent_responses'[x] = recent_responses[x]
  BY QueryAdds
<1>4. ts \in Nat /\ next_id \in Nat
  BY DEF LogInv, TypeOK
<1>5. /\ Query(k, ts).key = k /\ Query(k, ts).observed = ts
      /\ Query(k, ts).code # Answered
  BY DEF Query, None, Answered
\* An earlier query of the key lies a window back.
<1>6. ASSUME NEW i \in DOMAIN records, Captured(i), records[i].key = k
      PROVE  ts - records[i].observed >= QueryWindow /\ records[i].observed <= ts
  <2>1. k \in DOMAIN recent_queries /\ records[i].observed <= recent_queries[k]
    BY <1>3, <1>6 DEF CopyInv, FilterInv
  <2>2. recent_queries[k] \in Nat /\ records[i].observed \in Nat
    BY <2>1, Times
  <2>3. ts - recent_queries[k] >= QueryWindow /\ recent_queries[k] <= ts
    BY <1>2, <1>4, <2>1, <2>2, WindowApart, TimesAssumption
  <2> QED BY <1>4, <2>1, <2>2, <2>3, TimesAssumption
<1>7. ASSUME NEW i \in DOMAIN records', Captured(i)'
      PROVE  /\ records'[i].key \in DOMAIN recent_queries'
             /\ records'[i].observed <= recent_queries'[records'[i].key]
             /\ records'[i].code = Answered =>
                  /\ records'[i].key \in DOMAIN recent_responses'
                  /\ records'[i].answered_at <= recent_responses'[records'[i].key]
  <2>1. CASE i = next_id /\ records'[i] = Query(k, ts)
    BY <1>3, <1>4, <1>5, <2>1
  <2>2. CASE i \in DOMAIN records /\ i < next_id /\ records'[i] = records[i]
    <3>1. Captured(i)
      BY <1>7, <2>2 DEF Captured
    <3>2. /\ records[i].key \in DOMAIN recent_queries
          /\ records[i].observed <= recent_queries[records[i].key]
          /\ records[i].code = Answered =>
               /\ records[i].key \in DOMAIN recent_responses
               /\ records[i].answered_at <= recent_responses[records[i].key]
      BY <1>3, <2>2, <3>1 DEF CopyInv, FilterInv
    <3>3. CASE records[i].key = k
      BY <1>3, <1>6, <2>2, <3>1, <3>2, <3>3
    <3>4. CASE records[i].key # k
      BY <1>3, <2>2, <3>2, <3>4
    <3> QED BY <3>3, <3>4
  <2> QED BY <1>1, <2>1, <2>2
<1>8. ASSUME NEW i \in DOMAIN records', NEW j \in DOMAIN records', i < j,
             Captured(i)', Captured(j)', records'[i].key = records'[j].key
      PROVE  /\ records'[j].observed - records'[i].observed >= QueryWindow
             /\ records'[i].code = Answered /\ records'[j].code = Answered =>
                  records'[j].answered_at - records'[i].answered_at >= ResponseWindow
  <2>1. i \in DOMAIN records /\ i < next_id /\ records'[i] = records[i] /\ Captured(i)
    <3>1. \A x \in DOMAIN records : x \in Nat
      BY Times
    <3>2. j \in Nat /\ j <= next_id
      BY <1>1, <1>4, <3>1
    <3>3. i # next_id
      BY <1>4, <1>8, <3>2
    <3> QED BY <1>1, <1>8, <3>3 DEF Captured
  <2>2. CASE j = next_id /\ records'[j] = Query(k, ts)
    BY <1>5, <1>6, <1>8, <2>1, <2>2
  <2>3. CASE j \in DOMAIN records /\ j < next_id /\ records'[j] = records[j]
    <3>1. Captured(j)
      BY <1>8, <2>3 DEF Captured
    <3> QED BY <1>3, <1>8, <2>1, <2>3, <3>1 DEF CopyInv, CopiesCountOnce
  <2> QED BY <1>1, <2>2, <2>3
<1> QED BY <1>7, <1>8 DEF CopyInv, FilterInv, CopiesCountOnce

\* The filters after a response that was used.
LEMMA ResponseFilters ==
  ASSUME LogInv, NEW k \in Keys, NEW ts \in 1..now, IngestResponse(k, ts)
  PROVE  /\ k \in DOMAIN recent_responses => Age(ts, recent_responses[k]) >= ResponseWindow
         /\ ~crowded' => /\ ~crowded /\ k \in DOMAIN recent_responses' /\ recent_responses'[k] = ts
                         /\ \A x \in DOMAIN recent_responses :
                              x # k => x \in DOMAIN recent_responses'
                                       /\ recent_responses'[x] = recent_responses[x]
                         /\ \A x \in DOMAIN recent_queries :
                              x \in DOMAIN recent_queries'
                              /\ recent_queries'[x] = recent_queries[x]
<1> DEFINE r == With(recent_responses, k, ts)
<1>1. /\ ~Duplicate(recent_responses, k, ts, ResponseWindow)
      /\ PruneFilters(recent_queries, r, ts)
  BY Zenon DEF IngestResponse
<1>2. k \in DOMAIN recent_responses => Age(ts, recent_responses[k]) >= ResponseWindow
  <2> SUFFICES ASSUME k \in DOMAIN recent_responses
               PROVE  Age(ts, recent_responses[k]) >= ResponseWindow
    OBVIOUS
  <2>1. recent_responses[k] \in Nat /\ ts \in Nat /\ ResponseWindow \in Nat
    BY Times, TimesAssumption DEF LogInv, TypeOK
  <2>2. Age(ts, recent_responses[k]) \in Int
    BY <2>1 DEF Age
  <2>3. ~(Age(ts, recent_responses[k]) < ResponseWindow)
    BY <1>1 DEF Duplicate
  <2> QED BY <2>1, <2>2, <2>3
<1>3. DOMAIN r = DOMAIN recent_responses \cup {k} /\ r[k] = ts
      /\ \A x \in DOMAIN recent_responses : x # k => r[x] = recent_responses[x]
  BY DEF With
<1>4. /\ recent_queries' \in Pruned(recent_queries, ts, QueryWindow)
      /\ recent_responses' \in Pruned(r, ts, ResponseWindow)
  BY <1>1 DEF PruneFilters
<1>5. ~crowded' => /\ ~crowded /\ DOMAIN recent_queries' = DOMAIN recent_queries
                   /\ DOMAIN recent_responses' = DOMAIN r
  BY <1>1, Zenon DEF PruneFilters
<1>6. max_records \in Nat
  BY LimitsAssumption DEF LogInv, TypeOK
<1> HIDE DEF r
<1>7. /\ \A x \in DOMAIN recent_queries' : recent_queries'[x] = recent_queries[x]
      /\ \A x \in DOMAIN recent_responses' : recent_responses'[x] = r[x]
  BY <1>4, <1>6, PrunedFacts
<1> QED BY <1>2, <1>3, <1>5, <1>7

LEMMA CopyResponse ==
  ASSUME LogInv, PendingInv, OldestAnsweredFirst, CopyInv,
         NEW k \in Keys, NEW ts \in 1..now, IngestResponse(k, ts)
  PROVE  CopyInv'
<1> SUFFICES ASSUME ~crowded' PROVE CopyInv'
  BY DEF CopyInv, FilterInv, CopiesCountOnce
<1>1. PICK id \in DOMAIN records :
        /\ records[id].key = k /\ records[id].code = None /\ ~records[id].restored
        /\ id \notin expired
        /\ records' = [records EXCEPT ![id] = AnsweredAt(records[id], ts)]
  BY ResponseAnswers
<1>2. k \in DOMAIN recent_responses => Age(ts, recent_responses[k]) >= ResponseWindow
  BY ResponseFilters
<1>3. /\ ~crowded /\ k \in DOMAIN recent_responses' /\ recent_responses'[k] = ts
      /\ \A x \in DOMAIN recent_responses :
           x # k => x \in DOMAIN recent_responses' /\ recent_responses'[x] = recent_responses[x]
      /\ \A x \in DOMAIN recent_queries :
           x \in DOMAIN recent_queries' /\ recent_queries'[x] = recent_queries[x]
  BY ResponseFilters
<1>4. ts \in Nat /\ ts \in 1..MaxTime /\ records[id] \in Tracked
  BY TimesAssumption DEF LogInv, TypeOK
<1> DEFINE rec == AnsweredAt(records[id], ts)
<1>5. /\ rec.key = k /\ rec.answered_at = ts /\ rec.observed = records[id].observed
      /\ ~rec.restored
  BY <1>1, <1>4, AnswerIsTracked
<1> HIDE DEF rec
<1>6. /\ DOMAIN records' = DOMAIN records /\ records'[id] = rec
      /\ \A x \in DOMAIN records : x # id => records'[x] = records[x]
  BY <1>1 DEF rec
<1>7. /\ \A x \in DOMAIN records : Captured(x)' <=> Captured(x)
      /\ \A x \in DOMAIN records : /\ records'[x].key = records[x].key
                                   /\ records'[x].observed = records[x].observed
  BY <1>1, <1>5, <1>6 DEF Captured
\* An earlier answer of the key lies a window back.
<1>8. ASSUME NEW i \in DOMAIN records, Captured(i), records[i].key = k, records[i].code = Answered
      PROVE  ts - records[i].answered_at >= ResponseWindow /\ records[i].answered_at <= ts
  <2>1. k \in DOMAIN recent_responses /\ records[i].answered_at <= recent_responses[k]
    BY <1>3, <1>8 DEF CopyInv, FilterInv
  <2>2. recent_responses[k] \in Nat /\ records[i].answered_at \in Nat
    BY <2>1, Times
  <2>3. ts - recent_responses[k] >= ResponseWindow /\ recent_responses[k] <= ts
    BY <1>2, <1>4, <2>1, <2>2, WindowApart, TimesAssumption
  <2> QED BY <1>4, <2>1, <2>2, <2>3, TimesAssumption
<1>9. ASSUME NEW i \in DOMAIN records', Captured(i)'
      PROVE  /\ records'[i].key \in DOMAIN recent_queries'
             /\ records'[i].observed <= recent_queries'[records'[i].key]
             /\ records'[i].code = Answered =>
                  /\ records'[i].key \in DOMAIN recent_responses'
                  /\ records'[i].answered_at <= recent_responses'[records'[i].key]
  <2>1. i \in DOMAIN records /\ Captured(i)
    BY <1>6, <1>7, <1>9
  <2>2. /\ records[i].key \in DOMAIN recent_queries
        /\ records[i].observed <= recent_queries[records[i].key]
        /\ records[i].code = Answered =>
             /\ records[i].key \in DOMAIN recent_responses
             /\ records[i].answered_at <= recent_responses[records[i].key]
    BY <1>3, <2>1 DEF CopyInv, FilterInv
  <2>3. /\ records'[i].key \in DOMAIN recent_queries'
        /\ records'[i].observed <= recent_queries'[records'[i].key]
    BY <1>3, <1>7, <2>1, <2>2
  <2>4. CASE i = id
    BY <1>3, <1>4, <1>5, <1>6, <2>3, <2>4
  <2>5. CASE i # id
    <3>1. records'[i] = records[i]
      BY <1>6, <2>1, <2>5
    <3>2. CASE records[i].key = k
      BY <1>3, <1>8, <2>1, <2>3, <3>1, <3>2
    <3>3. CASE records[i].key # k
      BY <1>3, <2>2, <2>3, <3>1, <3>3
    <3> QED BY <3>2, <3>3
  <2> QED BY <2>4, <2>5
<1>10. ASSUME NEW i \in DOMAIN records', NEW j \in DOMAIN records', i < j,
              Captured(i)', Captured(j)', records'[i].key = records'[j].key
       PROVE  /\ records'[j].observed - records'[i].observed >= QueryWindow
              /\ records'[i].code = Answered /\ records'[j].code = Answered =>
                   records'[j].answered_at - records'[i].answered_at >= ResponseWindow
  <2>1. /\ i \in DOMAIN records /\ Captured(i) /\ j \in DOMAIN records /\ Captured(j)
        /\ records[i].key = records[j].key
    BY <1>6, <1>7, <1>10
  <2>2. /\ records[j].observed - records[i].observed >= QueryWindow
        /\ records[i].code = Answered /\ records[j].code = Answered =>
             records[j].answered_at - records[i].answered_at >= ResponseWindow
    BY <1>3, <1>10, <2>1 DEF CopyInv, CopiesCountOnce
  <2>3. records'[j].observed - records'[i].observed >= QueryWindow
    BY <1>7, <2>1, <2>2
  <2>4. i # j
    <3>1. i \in Nat /\ j \in Nat
      BY <2>1, Times
    <3> QED BY <1>10, <3>1
  <2>5. ASSUME records'[i].code = Answered, records'[j].code = Answered
        PROVE  records'[j].answered_at - records'[i].answered_at >= ResponseWindow
    <3>1. CASE j = id
      <4>1. records'[i] = records[i] /\ records[i].key = k
        BY <1>1, <1>6, <2>1, <2>4, <3>1
      <4> QED BY <1>5, <1>6, <1>8, <2>1, <2>5, <3>1, <4>1
    \* A younger query of the key would have been answered before the one
    \* that waits: that one would have expired.
    <3>2. CASE i = id
      <4>1. records'[j] = records[j] /\ records[j].key = k
        BY <1>1, <1>6, <2>1, <2>4, <3>2
      <4>2. id \in expired
        BY <1>1, <1>10, <2>1, <2>5, <3>2, <4>1 DEF OldestAnsweredFirst
      <4> QED BY <1>1, <4>2
    <3>3. CASE i # id /\ j # id
      BY <1>6, <2>1, <2>2, <2>5, <3>3
    <3> QED BY <3>1, <3>2, <3>3
  <2> QED BY <2>3, <2>5
<1> QED BY <1>9, <1>10 DEF CopyInv, FilterInv, CopiesCountOnce

LEMMA CopyNext ==
  LogInv /\ PendingInv /\ OldestAnsweredFirst /\ CopyInv /\ [Next]_vars => CopyInv'
<1> SUFFICES ASSUME LogInv, PendingInv, OldestAnsweredFirst, CopyInv, [Next]_vars
             PROVE  CopyInv'
  OBVIOUS
<1> DEFINE ts1 == {t \in 1..now : now - t <= Skew}
<1>1. ASSUME NEW k \in Keys, NEW ts \in ts1, IngestQuery(k, ts) \/ IngestResponse(k, ts)
      PROVE  CopyInv'
  BY <1>1, CopyQuery, CopyResponse
<1>2. ASSUME UNCHANGED <<records, recent_queries, recent_responses, crowded>>
      PROVE  CopyInv'
  BY <1>2 DEF CopyInv, FilterInv, CopiesCountOnce, Captured
<1>3. ASSUME NEW k \in Keys, NEW ts \in ts1, IngestUnmatched(k, ts)
      PROVE  CopyInv'
  <2> SUFFICES ASSUME ~crowded' PROVE CopyInv'
    BY DEF CopyInv, FilterInv, CopiesCountOnce
  <2>1. PruneFilters(recent_queries, recent_responses, ts) /\ records' = records
    BY <1>3 DEF IngestUnmatched
  <2>2. /\ recent_queries' \in Pruned(recent_queries, ts, QueryWindow)
        /\ recent_responses' \in Pruned(recent_responses, ts, ResponseWindow)
    BY <2>1 DEF PruneFilters
  <2>3. /\ ~crowded /\ DOMAIN recent_queries' = DOMAIN recent_queries
        /\ DOMAIN recent_responses' = DOMAIN recent_responses
    BY <2>1, Zenon DEF PruneFilters
  <2>4. max_records \in Nat
    BY LimitsAssumption DEF LogInv, TypeOK
  <2>5. /\ \A x \in DOMAIN recent_queries' : recent_queries'[x] = recent_queries[x]
        /\ \A x \in DOMAIN recent_responses' : recent_responses'[x] = recent_responses[x]
    BY <2>2, <2>4, PrunedFacts
  <2> QED BY <2>1, <2>3, <2>5 DEF CopyInv, FilterInv, CopiesCountOnce, Captured
<1>4. ASSUME NEW limit \in Limits, Restart(limit)
      PROVE  CopyInv'
  <2>1. \A id \in DOMAIN records' : records'[id].restored
    BY <1>4, StepRestart
  <2> QED BY <2>1 DEF CopyInv, FilterInv, CopiesCountOnce, Captured
<1>5. ASSUME NEW k \in Keys, NEW ts \in ts1, IngestDuplicate(k, ts)
      PROVE  CopyInv'
  BY <1>2, <1>5 DEF IngestDuplicate, vars, logVars
<1>6. CASE Tick \/ CopyRecords \/ SaveRecords \/ SaveFails \/ WriteBack \/ UNCHANGED vars
  BY <1>2, <1>6 DEF Tick, CopyRecords, SaveRecords, SaveFails, WriteBack, vars, logVars
<1> QED BY <1>1, <1>3, <1>4, <1>5, <1>6 DEF Next, Ingest

\* Unless a filter overflowed, the queries of a key in the log, and the
\* responses that answered them, are a window apart, in whatever order the
\* captures arrive.
THEOREM CopiesCountOnceHolds == Spec => []CopiesCountOnce
<1>1. CopyInv => CopiesCountOnce
  BY DEF CopyInv
<1> QED BY <1>1, LogAlways, OldestAnsweredFirstHolds, CopyInit, CopyNext, PTL DEF Spec

-----------------------------------------------------------------------------
(* The pages.                                                              *)

\* Induction up to n.
LEMMA Induction ==
  ASSUME NEW n \in Nat, NEW S, 0 \in S,
         \A i \in 0..n : i \in S /\ i < n => i + 1 \in S
  PROVE  \A i \in 0..n : i \in S
<1> SUFFICES ASSUME (0..n) \ S # {} PROVE FALSE
  OBVIOUS
<1>1. PICK x \in (0..n) \ S : \A y \in (0..n) \ S : x <= y
  <2> DEFINE T == (0..n) \ S
  <2>1. T \in SUBSET Nat /\ T # {}
    OBVIOUS
  <2> HIDE DEF T
  <2>2. \E x \in T : \A y \in T : x <= y
    BY <2>1, LeastNumber
  <2> QED BY <2>2 DEF T
<1>2. x - 1 \in 0..n /\ x - 1 \in S
  BY <1>1
<1> QED BY <1>1, <1>2

\* f lists, for every n, what passes of the first n ids of o, newest first.
Listing(f, o, n, pass) ==
  /\ f \in [0..n -> Seq(Nat)] /\ f[0] = <<>>
  /\ \A i \in 1..n : f[i] = IF o[i] \in pass THEN <<o[i]>> \o f[i - 1] ELSE f[i - 1]

LEMMA ListingExists ==
  ASSUME NEW o \in Seq(Nat), NEW pass
  PROVE  \E f : Listing(f, o, Len(o), pass)
<1> DEFINE n == Len(o)
           Ms == {m \in 0..n : \E f : Listing(f, o, m, pass)}
<1>0. n \in Nat /\ \A i \in 1..n : o[i] \in Nat
  OBVIOUS
<1> HIDE DEF n
<1>1. 0 \in Ms
  <2> DEFINE f0 == [i \in 0..0 |-> <<>>]
  <2>1. Listing(f0, o, 0, pass)
    BY DEF Listing
  <2> QED BY <1>0, <2>1
<1>2. ASSUME NEW m \in 0..n, m \in Ms, m < n
      PROVE  m + 1 \in Ms
  <2>1. PICK f : Listing(f, o, m, pass)
    BY <1>2
  <2>2. /\ f \in [0..m -> Seq(Nat)] /\ f[0] = <<>>
        /\ \A i \in 1..m : f[i] = IF o[i] \in pass THEN <<o[i]>> \o f[i - 1] ELSE f[i - 1]
    BY <2>1 DEF Listing
  <2> DEFINE last == IF o[m + 1] \in pass THEN <<o[m + 1]>> \o f[m] ELSE f[m]
             g == [i \in 0..(m + 1) |-> IF i <= m THEN f[i] ELSE last]
  <2>3. last \in Seq(Nat)
    <3>1. f[m] \in Seq(Nat) /\ o[m + 1] \in Nat
      BY <1>0, <1>2, <2>2
    <3> QED BY <3>1
  <2> HIDE DEF last
  <2>4. g \in [0..(m + 1) -> Seq(Nat)] /\ g[0] = <<>>
    BY <2>2, <2>3
  <2>5. \A i \in 0..m : g[i] = f[i]
    OBVIOUS
  <2>6. g[m + 1] = last
    BY <1>2
  <2> HIDE DEF g
  <2>7. ASSUME NEW i \in 1..(m + 1)
        PROVE  g[i] = IF o[i] \in pass THEN <<o[i]>> \o g[i - 1] ELSE g[i - 1]
    <3>1. i - 1 \in 0..m /\ g[i - 1] = f[i - 1]
      BY <2>5
    <3>2. CASE i <= m
      <4>1. i \in 1..m /\ g[i] = f[i]
        BY <2>5, <3>2
      <4>2. f[i] = IF o[i] \in pass THEN <<o[i]>> \o f[i - 1] ELSE f[i - 1]
        BY <2>2, <4>1
      <4> QED BY <3>1, <4>1, <4>2, Zenon
    <3>3. CASE i = m + 1
      <4>1. g[i - 1] = f[m]
        BY <3>1, <3>3
      <4> QED BY <2>6, <3>3, <4>1 DEF last
    <3> QED BY <3>2, <3>3
  <2>8. Listing(g, o, m + 1, pass)
    BY <2>4, <2>7 DEF Listing
  <2>9. m + 1 \in 0..n
    BY <1>0, <1>2
  <2> HIDE DEF n
  <2> QED BY <2>8, <2>9, Zenon
<1> HIDE DEF Ms
<1>3. \A i \in 0..n : i \in Ms
  BY <1>0, <1>1, <1>2, Induction
<1>4. n \in Ms
  BY <1>0, <1>3
<1> QED BY <1>4 DEF Ms, n

\* F lists S in decreasing order.
Newest(F, S) ==
  /\ F \in Seq(Nat) /\ \A i, j \in 1..Len(F) : i < j => F[j] < F[i]
  /\ \A x : x \in S <=> \E i \in 1..Len(F) : F[i] = x

LEMMA NewestFacts ==
  ASSUME NEW F, NEW S, Newest(F, S)
  PROVE  /\ F \in Seq(Nat) /\ Len(F) \in Nat
         /\ \A i \in 1..Len(F) : F[i] \in Nat /\ F[i] \in S
         /\ \A i, j \in 1..Len(F) : i < j => F[j] < F[i]
<1>1. F \in Seq(Nat) /\ \A i, j \in 1..Len(F) : i < j => F[j] < F[i]
  BY Zenon DEF Newest
<1>2. Len(F) \in Nat /\ \A i \in 1..Len(F) : F[i] \in Nat
  BY <1>1
<1>3. \A i \in 1..Len(F) : F[i] \in S
  BY Zenon DEF Newest
<1> QED BY <1>1, <1>2, <1>3

\* One more at the front.
LEMMA NewestFront ==
  ASSUME NEW F, NEW S, Newest(F, S), NEW x \in Nat, \A y \in S : y < x
  PROVE  Newest(<<x>> \o F, S \cup {x})
<1> DEFINE G == <<x>> \o F
           n == Len(F)
<1>1. F \in Seq(Nat) /\ n \in Nat /\ \A i \in 1..n : F[i] \in S
  BY DEF Newest
<1>2. G \in Seq(Nat) /\ Len(G) = n + 1 /\ G[1] = x /\ \A i \in 1..n : G[i + 1] = F[i]
  BY <1>1
<1>3. \A i \in 2..(n + 1) : i - 1 \in 1..n /\ G[i] = F[i - 1]
  <2> SUFFICES ASSUME NEW i \in 2..(n + 1) PROVE i - 1 \in 1..n /\ G[i] = F[i - 1]
    OBVIOUS
  <2>1. i - 1 \in 1..n /\ (i - 1) + 1 = i
    BY <1>1
  <2> HIDE DEF G, n
  <2> QED BY <1>2, <2>1
<1> HIDE DEF G, n
<1>4. ASSUME NEW i \in 1..(n + 1), NEW j \in 1..(n + 1), i < j PROVE G[j] < G[i]
  <2>1. j \in 2..(n + 1)
    BY <1>1, <1>4
  <2>2. j - 1 \in 1..n /\ G[j] = F[j - 1]
    BY <1>3, <2>1
  <2>3. CASE i = 1
    BY <1>1, <1>2, <2>2, <2>3
  <2>4. CASE i # 1
    <3>1. i - 1 \in 1..n /\ G[i] = F[i - 1] /\ i - 1 < j - 1
      BY <1>1, <1>3, <1>4, <2>4
    <3> QED BY <2>2, <3>1 DEF Newest, n
  <2> QED BY <2>3, <2>4
<1>5. ASSUME NEW y, y \in S \cup {x} PROVE \E i \in 1..(n + 1) : G[i] = y
  <2>1. CASE y = x
    BY <1>1, <1>2, <2>1
  <2>2. CASE y \in S
    <3>1. PICK i \in 1..n : F[i] = y
      BY <2>2 DEF Newest, n
    <3>2. i + 1 \in 1..(n + 1) /\ G[i + 1] = y
      BY <1>1, <1>2, <3>1
    <3> QED BY <3>2
  <2> QED BY <1>5, <2>1, <2>2
<1>6. ASSUME NEW i \in 1..(n + 1) PROVE G[i] \in S \cup {x}
  <2>1. CASE i = 1
    BY <1>2, <2>1
  <2>2. CASE i # 1
    <3>1. i \in 2..(n + 1)
      BY <1>1, <2>2
    <3> QED BY <1>1, <1>3, <3>1
  <2> QED BY <2>1, <2>2
<1> QED BY <1>2, <1>4, <1>5, <1>6 DEF Newest, G

LEMMA ListingNewest ==
  ASSUME NEW o \in Seq(Nat), Increasing(o), NEW pass, NEW f, Listing(f, o, Len(o), pass)
  PROVE  Newest(f[Len(o)], {o[i] : i \in 1..Len(o)} \cap pass)
<1> DEFINE n == Len(o)
           Upto(m) == {o[i] : i \in 1..m} \cap pass
           P == {m \in 0..n : Newest(f[m], Upto(m))}
<1>0. n \in Nat /\ \A i \in 1..n : o[i] \in Nat
  OBVIOUS
<1>1. \A i, j \in 1..n : i < j => o[i] < o[j]
  BY DEF Increasing
<1>2. /\ f[0] = <<>>
      /\ \A i \in 1..n : f[i] = IF o[i] \in pass THEN <<o[i]>> \o f[i - 1] ELSE f[i - 1]
  BY DEF Listing
<1> HIDE DEF n
<1>3. 0 \in P
  <2>1. Upto(0) = {}
    OBVIOUS
  <2>2. <<>> \in Seq(Nat) /\ Len(<<>>) = 0 /\ 1..0 = {}
    OBVIOUS
  <2>3. Newest(<<>>, {})
    BY <2>2 DEF Newest
  <2> HIDE DEF Upto
  <2>4. Newest(f[0], Upto(0))
    BY <1>2, <2>1, <2>3, Zenon
  <2>5. 0 \in 0..n
    BY <1>0
  <2> QED BY <2>4, <2>5, Zenon
<1>4. ASSUME NEW m \in 0..n, m \in P, m < n PROVE m + 1 \in P
  <2> DEFINE x == o[m + 1]
  <2>1. m + 1 \in 1..n /\ x \in Nat /\ Newest(f[m], Upto(m)) /\ (m + 1) - 1 = m /\ m \in Nat
    BY <1>0, <1>4
  <2>2. {o[i] : i \in 1..(m + 1)} = {o[i] : i \in 1..m} \cup {x}
    <3>1. 1..(m + 1) = 1..m \cup {m + 1}
      BY <2>1
    <3> QED BY <3>1
  <2>3. \A y \in Upto(m) : y < x
    <3> SUFFICES ASSUME NEW i \in 1..m PROVE o[i] < x
      OBVIOUS
    <3>1. i \in 1..n /\ m + 1 \in 1..n /\ i < m + 1
      BY <1>0, <2>1
    <3> QED BY <1>1, <3>1
  <2>4. f[m + 1] = IF x \in pass THEN <<x>> \o f[m] ELSE f[m]
    BY <1>2, <2>1
  <2>5. CASE x \in pass
    <3>1. Upto(m + 1) = Upto(m) \cup {x}
      BY <2>2, <2>5
    <3> HIDE DEF x, Upto
    <3>2. Newest(<<x>> \o f[m], Upto(m) \cup {x})
      BY <2>1, <2>3, NewestFront
    <3>3. f[m + 1] = <<x>> \o f[m]
      BY <2>4, <2>5, Zenon
    <3>4. Newest(f[m + 1], Upto(m + 1))
      BY <3>1, <3>2, <3>3, Zenon
    <3>5. m + 1 \in 0..n
      BY <1>0, <2>1
    <3> QED BY <3>4, <3>5, Zenon
  <2>6. CASE x \notin pass
    <3>1. Upto(m + 1) = Upto(m)
      BY <2>2, <2>6
    <3> HIDE DEF x, Upto
    <3> QED BY <2>1, <2>4, <2>6, <3>1
  <2> QED BY <2>5, <2>6
<1> HIDE DEF P
<1>5. \A i \in 0..n : i \in P
  BY <1>0, <1>3, <1>4, Induction
<1>6. n \in P
  BY <1>0, <1>5
<1> QED BY <1>6 DEF P, n

\* What a filter finds is, newest first, the records that pass it.
LEMMA FilteredNewest ==
  ASSUME LogInv, NEW filter
  PROVE  Newest(Filtered(filter), Passing(filter))
<1> DEFINE n == Len(order)
           pass == {id \in Nat : Passes(filter, id)}
           Is(f) == f = [i \in 0..n |-> IF i = 0 THEN <<>>
                           ELSE IF Passes(filter, order[i]) THEN <<order[i]>> \o f[i - 1]
                           ELSE f[i - 1]]
           found == CHOOSE f : Is(f)
<1>1. Filtered(filter) = found[n]
  BY DEF Filtered
<1>2. order \in Seq(Nat) /\ n \in Nat /\ \A i \in 1..n : order[i] \in Nat
  BY DEF LogInv, TypeOK
<1>3. Increasing(order)
  BY <1>2 DEF LogInv, TypeOK, Increasing
<1>4. Passing(filter) = {order[i] : i \in 1..n} \cap pass
  <2>1. next_id \in Nat /\ n < next_id /\ DOMAIN records = (next_id - n)..(next_id - 1)
        /\ \A i \in 1..n : order[i] = next_id - n - 1 + i
    BY <1>2 DEF LogInv, TypeOK
  <2>2. \A i \in 1..n : order[i] \in DOMAIN records
    BY <1>2, <2>1
  <2>3. ASSUME NEW id \in DOMAIN records PROVE id \in Nat /\ \E i \in 1..n : order[i] = id
    <3>1. id - (next_id - n - 1) \in 1..n /\ id \in Nat
      BY <1>2, <2>1
    <3>2. order[id - (next_id - n - 1)] = id
      BY <1>2, <2>1, <3>1
    <3> QED BY <3>1, <3>2
  <2> HIDE DEF n
  <2> QED BY <2>2, <2>3, Zenon DEF Passing
<1>5. PICK f : Listing(f, order, n, pass)
  BY <1>2, ListingExists
<1>6. /\ f \in [0..n -> Seq(Nat)] /\ f[0] = <<>>
      /\ \A i \in 1..n : f[i] = IF order[i] \in pass THEN <<order[i]>> \o f[i - 1] ELSE f[i - 1]
  BY <1>5 DEF Listing
<1>7. \A i \in 1..n : order[i] \in pass <=> Passes(filter, order[i])
  BY <1>2
<1>8. Newest(f[n], {order[i] : i \in 1..n} \cap pass)
  <2> HIDE DEF pass
  <2> QED BY <1>2, <1>3, <1>5, ListingNewest
<1> HIDE DEF n, pass
<1>9. Is(f)
  <2> DEFINE step(i) == IF i = 0 THEN <<>>
                        ELSE IF Passes(filter, order[i]) THEN <<order[i]>> \o f[i - 1]
                        ELSE f[i - 1]
  <2>1. ASSUME NEW i \in 0..n PROVE f[i] = step(i)
    <3>1. CASE i = 0
      BY <1>6, <3>1
    <3>2. CASE i # 0
      <4>1. i \in 1..n
        BY <1>2, <3>2
      <4> QED BY <1>6, <1>7, <3>2, <4>1, Zenon
    <3> QED BY <3>1, <3>2
  <2> HIDE DEF step
  <2>2. f = [i \in 0..n |-> step(i)]
    BY <1>6, <2>1
  <2> QED BY <2>2 DEF step
<1>10. Is(found)
  <2> HIDE DEF Is
  <2> QED BY <1>9
<1> HIDE DEF found
<1> DEFINE P == {i \in 0..n : found[i] = f[i]}
<1>11. 0 \in P
  BY <1>2, <1>6, <1>10
<1>12. ASSUME NEW m \in 0..n, m \in P, m < n PROVE m + 1 \in P
  <2>1. m + 1 \in 1..n /\ m + 1 \in 0..n /\ m + 1 # 0 /\ (m + 1) - 1 = m
    BY <1>2, <1>12
  <2>2. found[m + 1] = IF Passes(filter, order[m + 1]) THEN <<order[m + 1]>> \o found[m]
                       ELSE found[m]
    BY <1>10, <2>1
  <2>3. f[m + 1] = IF order[m + 1] \in pass THEN <<order[m + 1]>> \o f[m] ELSE f[m]
    BY <1>6, <2>1
  <2>4. found[m] = f[m]
    BY <1>12
  <2>5. found[m + 1] = f[m + 1]
    BY <1>7, <2>1, <2>2, <2>3, <2>4, Zenon
  <2> QED BY <2>1, <2>5
<1> HIDE DEF P
<1>13. \A i \in 0..n : i \in P
  BY <1>2, <1>11, <1>12, Induction
<1>14. found[n] = f[n]
  BY <1>2, <1>13 DEF P
<1> QED BY <1>1, <1>4, <1>8, <1>14, Zenon

\* Page p holds the places (p - 1) * MaxPageSize + 1 .. p * MaxPageSize of F.
OnPage(p, i) == (p - 1) * MaxPageSize < i /\ i <= p * MaxPageSize

Cut(pages, F) ==
  /\ \E total \in Nat : DOMAIN pages = 1..total /\ Len(F) <= total * MaxPageSize
  /\ \A p \in DOMAIN pages : \A x :
       x \in pages[p] <=> \E i \in 1..Len(F) : OnPage(p, i) /\ F[i] = x

LEMMA Multiples ==
  ASSUME NEW p \in Nat, NEW q \in Nat, p <= q
  PROVE  p * MaxPageSize <= q * MaxPageSize
<1>1. PICK d \in Nat : q = p + d
  <2>1. q - p \in Nat /\ q = p + (q - p)
    OBVIOUS
  <2> QED BY <2>1
<1>2. q * MaxPageSize = p * MaxPageSize + d * MaxPageSize /\ d * MaxPageSize \in Nat
      /\ p * MaxPageSize \in Nat
  BY <1>1, PageSizeAssumption
<1> QED BY <1>2

LEMMA PagesCover ==
  ASSUME NEW L \in Nat
  PROVE  LET total == (L + MaxPageSize - 1) \div MaxPageSize
         IN total \in Nat /\ L <= total * MaxPageSize
BY PageSizeAssumption

\* Every place is on one page, and a later place on no earlier page.
LEMMA PageOfPlace ==
  ASSUME NEW i \in Nat \ {0}, NEW total \in Nat, i <= total * MaxPageSize
  PROVE  \E p \in 1..total : OnPage(p, i)
<1> DEFINE T == {p \in Nat : i <= p * MaxPageSize}
<1>1. T \in SUBSET Nat /\ T # {}
  OBVIOUS
<1>2. PICK p \in T : \A q \in T : p <= q
  <2> HIDE DEF T
  <2> QED BY <1>1, LeastNumber
<1>3. p \in Nat /\ i <= p * MaxPageSize /\ p <= total
  BY <1>2
<1>4. p # 0
  BY <1>3, PageSizeAssumption
<1>5. p - 1 \in Nat /\ p - 1 \notin T
  BY <1>2, <1>3, <1>4
<1>6. (p - 1) * MaxPageSize \in Nat
  BY <1>5, PageSizeAssumption
<1>7. (p - 1) * MaxPageSize < i
  BY <1>5, <1>6
<1> QED BY <1>3, <1>4, <1>7 DEF OnPage

LEMMA LaterPage ==
  ASSUME NEW i \in Nat, NEW j \in Nat, i <= j, NEW p \in Nat \ {0}, NEW q \in Nat \ {0},
         OnPage(p, i), OnPage(q, j)
  PROVE  p <= q
<1> SUFFICES ASSUME q <= p - 1 PROVE FALSE
  OBVIOUS
<1>1. q * MaxPageSize <= (p - 1) * MaxPageSize
  BY Multiples
<1>2. q * MaxPageSize \in Nat /\ (p - 1) * MaxPageSize \in Nat
  BY PageSizeAssumption
<1> QED BY <1>1, <1>2 DEF OnPage

\* The records of a page of an answer.
EndOf(F, start, size) == IF start + size < Len(F) THEN start + size ELSE Len(F)

HeldBy(F, start, size) == {F[i] : i \in {i \in 1..Len(F) : start < i /\ i <= start + size}}

LEMMA PageSet ==
  ASSUME NEW F \in Seq(Nat), NEW start \in Nat, NEW size \in Nat \ {0}
  PROVE  ToSet(SubSeq(F, start + 1, EndOf(F, start, size))) = HeldBy(F, start, size)
<1> DEFINE last == EndOf(F, start, size)
           s == SubSeq(F, start + 1, last)
<1>1. last \in Nat /\ last <= Len(F) /\ Len(F) \in Nat /\ last <= start + size
      /\ \A i \in 1..Len(F) : i <= start + size => i <= last
  BY DEF EndOf
<1> HIDE DEF last
<1>2. DOMAIN s = 1..(last - start) /\ \A i \in 1..(last - start) : s[i] = F[start + i]
  <2>1. CASE start < last
    <3>1. s \in Seq(Nat) /\ Len(s) = last - start
      BY <1>1, <2>1
    <3>2. ASSUME NEW i \in 1..(last - start) PROVE s[i] = F[start + i]
      <4>1. start + 1 \in 1..Len(F) /\ i \in 1..(last - (start + 1) + 1)
            /\ (start + 1) + i - 1 = start + i
        BY <1>1, <2>1
      <4>2. s[i] = F[(start + 1) + i - 1]
        BY <1>1, <2>1, <4>1
      <4> QED BY <4>1, <4>2
    <3> HIDE DEF s
    <3>3. DOMAIN s = 1..(last - start)
      BY <3>1
    <3> QED BY <3>2, <3>3, Zenon
  <2>2. CASE ~(start < last)
    <3>1. s = <<>> /\ 1..(last - start) = {}
      BY <1>1, <2>2
    <3> HIDE DEF s
    <3>2. DOMAIN s = {}
      BY <3>1
    <3> QED BY <3>1, <3>2, Zenon
  <2> QED BY <2>1, <2>2
<1> HIDE DEF s
<1>3. ASSUME NEW x, x \in ToSet(s)
      PROVE  \E i \in 1..Len(F) : start < i /\ i <= start + size /\ F[i] = x
  <2>1. PICK i \in 1..(last - start) : F[start + i] = x
    BY <1>2, <1>3 DEF ToSet
  <2>2. start + i \in 1..Len(F) /\ start < start + i /\ start + i <= start + size
    BY <1>1, <2>1
  <2> QED BY <2>1, <2>2
<1>4. ASSUME NEW x, NEW i \in 1..Len(F), start < i, i <= start + size, F[i] = x
      PROVE  x \in ToSet(s)
  <2>1. i - start \in 1..(last - start) /\ start + (i - start) = i
    BY <1>1, <1>4
  <2>2. s[i - start] = x
    BY <1>2, <1>4, <2>1
  <2> QED BY <1>2, <2>1, <2>2 DEF ToSet
<1>5. \A x : x \in HeldBy(F, start, size) <=>
               \E i \in 1..Len(F) : start < i /\ i <= start + size /\ F[i] = x
  BY Zenon DEF HeldBy
<1>6. ToSet(s) = HeldBy(F, start, size)
  BY <1>3, <1>4, <1>5, Zenon
<1> QED BY <1>6 DEF s, last

\* An answer, when the page and its size are in range.
LEMMA AnswerInRange ==
  ASSUME NEW filter, NEW p \in Nat \ {0}
  PROVE  LET F == Filtered(filter)
             start == (p - 1) * MaxPageSize
         IN /\ queries(filter, p, MaxPageSize).total_pages
                 = (Len(F) + MaxPageSize - 1) \div MaxPageSize
            /\ queries(filter, p, MaxPageSize).queries
                 = SubSeq(F, start + 1, IF start + MaxPageSize < Len(F)
                                          THEN start + MaxPageSize ELSE Len(F))
<1> DEFINE m == MaxPageSize
           size == IF m < 1 THEN 1 ELSE IF m > MaxPageSize THEN MaxPageSize ELSE m
           before == IF p < 1 THEN 0 ELSE p - 1
           F == Filtered(filter)
           Page(b, z) == SubSeq(F, b * z + 1, IF b * z + z < Len(F) THEN b * z + z ELSE Len(F))
           Count(z) == (Len(F) + z - 1) \div z
<1>1. size = m /\ before = p - 1
  BY PageSizeAssumption
<1>2. queries(filter, p, m) = [queries |-> Page(before, size), total_pages |-> Count(size)]
  BY Zenon DEF queries
<1> HIDE DEF size, before
<1>3. queries(filter, p, m) = [queries |-> Page(p - 1, m), total_pages |-> Count(m)]
  BY <1>1, <1>2, Zenon
<1> HIDE DEF Page, Count, m
<1>4. queries(filter, p, m).queries = Page(p - 1, m)
      /\ queries(filter, p, m).total_pages = Count(m)
  BY <1>3
<1> QED BY <1>4, Zenon DEF Page, Count, m

LEMMA PagesCut ==
  ASSUME LogInv, NEW filter
  PROVE  Cut(Pages(filter, MaxPageSize), Filtered(filter))
<1> DEFINE F == Filtered(filter)
           L == Len(F)
           total == (L + MaxPageSize - 1) \div MaxPageSize
           pages == Pages(filter, MaxPageSize)
<1>1. F \in Seq(Nat) /\ L \in Nat
  BY FilteredNewest DEF Newest
<1>2. MaxPageSize \in Nat \ {0}
  BY PageSizeAssumption
<1>3. total \in Nat /\ L <= total * MaxPageSize
  BY <1>1, PagesCover
<1>4. queries(filter, 1, MaxPageSize).total_pages = total
  <2>1. 1 \in Nat \ {0}
    OBVIOUS
  <2> QED BY <2>1, AnswerInRange, Zenon
<1>5. pages = [p \in 1..total |-> ToSet(queries(filter, p, MaxPageSize).queries)]
  BY <1>4, Zenon DEF Pages
<1> HIDE DEF pages, total
<1>6. ASSUME NEW p \in 1..total, NEW x
      PROVE  x \in pages[p] <=> \E i \in 1..L : OnPage(p, i) /\ F[i] = x
  <2> DEFINE start == (p - 1) * MaxPageSize
             last == IF start + MaxPageSize < L THEN start + MaxPageSize ELSE L
  <2>0. p \in Nat \ {0}
    BY <1>3
  <2>1. start \in Nat /\ start + MaxPageSize = p * MaxPageSize
    BY <1>2, <2>0
  <2>2. queries(filter, p, MaxPageSize).queries = SubSeq(F, start + 1, last)
    BY <2>0, AnswerInRange, Zenon
  <2> HIDE DEF F
  <2>3. pages[p] = ToSet(SubSeq(F, start + 1, last))
    BY <1>5, <2>2, Zenon
  <2>4. x \in ToSet(SubSeq(F, start + 1, last)) <=>
          \E i \in 1..L : start < i /\ i <= start + MaxPageSize /\ F[i] = x
    <3>1. last = EndOf(F, start, MaxPageSize)
      BY Zenon DEF EndOf
    <3> HIDE DEF start, last, L
    <3>2. F \in Seq(Nat) /\ start \in Nat
      BY <1>1, <2>1, Zenon
    <3>3. ToSet(SubSeq(F, start + 1, last)) = HeldBy(F, start, MaxPageSize)
      BY <1>2, <3>1, <3>2, PageSet, Zenon
    <3>4. x \in HeldBy(F, start, MaxPageSize) <=>
            \E i \in 1..Len(F) : start < i /\ i <= start + MaxPageSize /\ F[i] = x
      BY Zenon DEF HeldBy
    <3> QED BY <3>3, <3>4, Zenon DEF L
  <2>5. \A i : OnPage(p, i) <=> start < i /\ i <= start + MaxPageSize
    <3>1. \A i : OnPage(p, i) <=> start < i /\ i <= p * MaxPageSize
      BY Zenon DEF OnPage
    <3> HIDE DEF start
    <3> QED BY <2>1, <3>1, Zenon
  <2> HIDE DEF start
  <2> QED BY <2>3, <2>4, <2>5, Zenon
<1> HIDE DEF F
<1>7. DOMAIN pages = 1..total
  BY <1>5
<1>8. \A p \in DOMAIN pages : \A x :
        x \in pages[p] <=> \E i \in 1..Len(F) : OnPage(p, i) /\ F[i] = x
  BY <1>6, <1>7, Zenon
<1>9. \E t \in Nat : DOMAIN pages = 1..t /\ Len(F) <= t * MaxPageSize
  BY <1>3, <1>7, Zenon
<1> QED BY <1>8, <1>9, Zenon DEF Cut, F, pages

\* Pages that cut a list of S: each member of S is on one of them.
LEMMA EachOnOnePage ==
  ASSUME NEW pages, NEW F, NEW S, Newest(F, S), Cut(pages, F)
  PROVE  OnOnePage(pages, S)
<1>0. /\ F \in Seq(Nat) /\ Len(F) \in Nat
      /\ \A i \in 1..Len(F) : F[i] \in Nat
      /\ \A i, j \in 1..Len(F) : i < j => F[j] < F[i]
  BY NewestFacts, Zenon
<1>1. PICK total \in Nat : DOMAIN pages = 1..total /\ Len(F) <= total * MaxPageSize
  BY DEF Cut
<1>2. ASSUME NEW x \in S
      PROVE  Cardinality({p \in DOMAIN pages : x \in pages[p]}) = 1
  <2>1. PICK i \in 1..Len(F) : F[i] = x
    BY Zenon DEF Newest
  <2>2. PICK p \in 1..total : OnPage(p, i)
    <3>1. i \in Nat \ {0} /\ i <= Len(F)
      BY <1>0
    <3>2. i <= total * MaxPageSize
      <4>1. total * MaxPageSize \in Nat
        BY PageSizeAssumption
      <4> QED BY <1>0, <1>1, <3>1, <4>1
    <3> QED BY <3>1, <3>2, PageOfPlace
  <2>3. x \in pages[p] /\ p \in DOMAIN pages
    BY <1>1, <2>1, <2>2, Zenon DEF Cut
  <2>4. ASSUME NEW q \in DOMAIN pages, x \in pages[q] PROVE q = p
    <3>1. PICK j \in 1..Len(F) : OnPage(q, j) /\ F[j] = x
      BY <2>4, Zenon DEF Cut
    <3>2. i = j
      BY <1>0, <2>1, <3>1
    <3>3. i \in Nat /\ p \in Nat \ {0} /\ q \in Nat \ {0}
      BY <1>0, <1>1
    <3>4. p <= q /\ q <= p
      BY <2>2, <3>1, <3>2, <3>3, LaterPage
    <3> QED BY <3>3, <3>4
  <2>5. {q \in DOMAIN pages : x \in pages[q]} = {p}
    BY <2>3, <2>4, Zenon
  <2> QED BY <2>5, FS_Singleton, Zenon
<1> QED BY <1>2, Zenon DEF OnOnePage

\* A record has no fewer records before it, when none of those is gone.
LEMMA PlaceMovesBack ==
  ASSUME NEW F, NEW S, Newest(F, S), NEW G, NEW T, Newest(G, T),
         NEW i \in 1..Len(F), NEW j \in 1..Len(G), F[i] = G[j],
         \A y \in S : y > F[i] => y \in T
  PROVE  i <= j
<1>0. /\ Len(F) \in Nat /\ Len(G) \in Nat
      /\ \A a \in 1..Len(F) : F[a] \in Nat /\ F[a] \in S
      /\ \A a \in 1..Len(G) : G[a] \in Nat
      /\ \A a, b \in 1..Len(F) : a < b => F[b] < F[a]
      /\ \A a, b \in 1..Len(G) : a < b => G[b] < G[a]
  BY NewestFacts, Zenon
<1>1. ASSUME NEW a \in 1..i PROVE a \in 1..Len(F) /\ \E b \in 1..Len(G) : G[b] = F[a]
  <2>1. a \in 1..Len(F)
    BY <1>0
  <2>2. CASE a = i
    BY <2>1, <2>2
  <2>3. CASE a # i
    <3>1. F[a] > F[i] /\ F[a] \in S
      BY <1>0, <2>1, <2>3
    <3>2. F[a] \in T
      BY <3>1
    <3> QED BY <2>1, <3>2, Zenon DEF Newest
  <2> QED BY <2>2, <2>3
<1> DEFINE K == {a \in 0..i : a = 0 \/ \E b \in 1..Len(G) : G[b] = F[a] /\ a <= b}
<1>2. i \in Nat /\ 0 \in K
  BY <1>0
<1>3. ASSUME NEW a \in 0..i, a \in K, a < i PROVE a + 1 \in K
  <2>1. a + 1 \in 1..i /\ a + 1 \in 0..i
    BY <1>2, <1>3
  <2>2. PICK c \in 1..Len(G) : G[c] = F[a + 1]
    BY <1>1, <2>1
  <2>3. a + 1 <= c
    <3>1. CASE a = 0
      BY <1>0, <3>1
    <3>2. CASE a # 0
      <4>1. PICK b \in 1..Len(G) : G[b] = F[a] /\ a <= b
        BY <1>3, <3>2
      <4>2. a \in 1..i
        BY <1>2, <3>2
      <4>3. a \in 1..Len(F) /\ a + 1 \in 1..Len(F)
        BY <1>1, <2>1, <4>2
      <4>4. G[c] < G[b]
        BY <1>0, <2>2, <4>1, <4>3
      <4>5. b < c
        BY <1>0, <4>4
      <4> QED BY <1>2, <4>1, <4>5
    <3> QED BY <3>1, <3>2
  <2> QED BY <2>1, <2>2, <2>3
<1> HIDE DEF K
<1>4. i \in K
  <2>1. \A a \in 0..i : a \in K
    BY <1>2, <1>3, Induction
  <2> QED BY <1>2, <2>1
<1>5. PICK b \in 1..Len(G) : G[b] = F[i] /\ i <= b
  BY <1>0, <1>4 DEF K
<1>6. b = j
  BY <1>0, <1>5
<1> QED BY <1>5, <1>6

LEMMA PagesMovedBack ==
  ASSUME NEW F, NEW S, Newest(F, S), NEW before, Cut(before, F),
         NEW G, NEW T, Newest(G, T), NEW after, Cut(after, G),
         \A x \in S \cap T : \A y \in S : y > x => y \in T
  PROVE  MovedBack(before, after)
<1>1. ASSUME NEW p \in DOMAIN before, NEW q \in DOMAIN after, NEW x \in before[p] \cap after[q]
      PROVE  p <= q
  <2>1. PICK i \in 1..Len(F) : OnPage(p, i) /\ F[i] = x
    BY <1>1, Zenon DEF Cut
  <2>2. PICK j \in 1..Len(G) : OnPage(q, j) /\ G[j] = x
    BY <1>1, Zenon DEF Cut
  <2>3. x \in S \cap T
    BY <2>1, <2>2, Zenon DEF Newest
  <2>4. i <= j
    <3>1. F[i] = G[j] /\ \A y \in S : y > F[i] => y \in T
      BY <2>1, <2>2, <2>3
    <3> QED BY <3>1, PlaceMovesBack
  <2>5. Len(F) \in Nat /\ Len(G) \in Nat
    BY DEF Newest
  <2>6. PICK t \in Nat : DOMAIN before = 1..t
    BY Zenon DEF Cut
  <2>7. PICK u \in Nat : DOMAIN after = 1..u
    BY Zenon DEF Cut
  <2>8. i \in Nat /\ j \in Nat /\ p \in Nat \ {0} /\ q \in Nat \ {0}
    BY <2>5, <2>6, <2>7
  <2> QED BY <2>1, <2>2, <2>4, <2>8, LaterPage
<1> QED BY <1>1, Zenon DEF MovedBack

\* The answers in a state of the log.
Paged(filter) ==
  \E F : Newest(F, Passing(filter)) /\ Cut(Pages(filter, MaxPageSize), F)

LEMMA LogPaged == LogInv => \A filter : Paged(filter)
BY FilteredNewest, PagesCut, Zenon DEF Paged

\* A query that is logged leaves what is newer than a record that stays.
LEMMA QueryKeepsNewer ==
  ASSUME LogInv, LogInv', NEW k \in Keys, NEW ts \in 1..now, IngestQuery(k, ts), NEW filter
  PROVE  \A x \in Passing(filter) \cap Passing(filter)' :
           \A y \in Passing(filter) : y > x => y \in Passing(filter)'
<1> SUFFICES ASSUME NEW x \in Passing(filter) \cap Passing(filter)',
                    NEW y \in Passing(filter), y > x
             PROVE  y \in Passing(filter)'
  OBVIOUS
<1>1. x \in DOMAIN records' /\ y \in DOMAIN records /\ Passes(filter, y)
  BY DEF Passing
<1>2. next_id' = next_id + 1
  BY DEF IngestQuery
<1>3. /\ next_id \in Nat /\ Len(order) \in Nat /\ Len(order') \in Nat
      /\ DOMAIN records = (next_id - Len(order))..(next_id - 1)
      /\ DOMAIN records' = (next_id' - Len(order'))..(next_id' - 1)
  <2>1. order \in Seq(Nat) /\ order' \in Seq(Nat) /\ next_id \in Nat
    BY DEF LogInv, TypeOK
  <2>2. /\ DOMAIN records = (next_id - Len(order))..(next_id - 1)
        /\ DOMAIN records' = (next_id' - Len(order'))..(next_id' - 1)
    BY Zenon DEF LogInv
  <2> QED BY <2>1, <2>2
<1>4. y \in DOMAIN records' /\ y < next_id /\ y # next_id
  BY <1>1, <1>2, <1>3
<1>5. records'[y] = records[y]
  BY <1>4, QueryAdds
<1>6. Passes(filter, y)'
  BY <1>1, <1>5 DEF Passes
<1> QED BY <1>4, <1>6 DEF Passing

\* For every size of the log and of a page, without a filter or with the one
\* that the new record passes: each passing record is on one page, and what
\* ingest logs and evicts moves it to no earlier page, so a client that reads
\* page after page misses no record that stays logged.
THEOREM PagesMoveBackHolds == Spec => PagesMoveBack
<1> DEFINE Kept(filter) == LET before == Pages(filter, MaxPageSize)
                               after == Pages(filter, MaxPageSize)'
                           IN OnOnePage(before, Passing(filter)) /\ MovedBack(before, after)
           Moved == order' # order /\ restarts' = restarts =>
                      \A filter \in {NoFilter, records'[Last(order')].key} : Kept(filter)
           ts1 == {t \in 1..now : now - t <= Skew}
<1>1. (LogInv => \A filter : Paged(filter))'
  BY LogPaged, PTL
<1>2. ASSUME LogInv, PendingInv, LogInv', [Next]_vars PROVE Moved
  <2>1. ASSUME NEW k \in Keys, NEW ts \in ts1, IngestQuery(k, ts) PROVE Moved
    <3>1. ASSUME NEW filter PROVE Kept(filter)
      <4>1. PICK F : Newest(F, Passing(filter)) /\ Cut(Pages(filter, MaxPageSize), F)
        BY <1>2, LogPaged, Zenon DEF Paged
      <4>2. PICK G : Newest(G, Passing(filter)') /\ Cut(Pages(filter, MaxPageSize)', G)
        BY <1>1, <1>2, Zenon DEF Paged
      <4>3. \A x \in Passing(filter) \cap Passing(filter)' :
              \A y \in Passing(filter) : y > x => y \in Passing(filter)'
        BY <1>2, <2>1, QueryKeepsNewer
      <4>4. OnOnePage(Pages(filter, MaxPageSize), Passing(filter))
        BY <4>1, EachOnOnePage
      <4>5. MovedBack(Pages(filter, MaxPageSize), Pages(filter, MaxPageSize)')
        BY <4>1, <4>2, <4>3, PagesMovedBack
      <4> QED BY <4>4, <4>5
    <3> HIDE DEF Kept
    <3> QED BY <3>1
  <2>2. CASE order' = order
    BY <2>2
  <2>3. ASSUME NEW limit \in Limits, Restart(limit) PROVE Moved
    <3>1. restarts' = restarts + 1 /\ restarts \in Nat
      BY <1>2, <2>3, TimesAssumption DEF Restart, LogInv, TypeOK
    <3>2. restarts' # restarts
      BY <3>1
    <3> QED BY <3>2
  <2> HIDE DEF Moved
  <2> QED BY <1>2, <2>1, <2>2, <2>3
     DEF Next, Ingest, IngestResponse, IngestUnmatched, IngestDuplicate, Tick, CopyRecords,
         SaveRecords, SaveFails, WriteBack, vars, logVars
<1>3. LogInv /\ PendingInv /\ LogInv' /\ [Next]_vars => [Moved]_vars
  BY <1>2
<1> QED BY <1>3, LogAlways, PTL DEF Spec, PagesMoveBack
=============================================================================
