----------------------------- MODULE DnsMonitor -----------------------------
(***************************************************************************)
(* The DNS query log of dns.rs: ingest matches responses to queries,       *)
(* suppresses the copies of a packet that is captured on several           *)
(* interfaces, and evicts the oldest record of a full log; a background    *)
(* task saves the log, and a start of the service restores it.             *)
(*                                                                         *)
(* A DnsMatchKey is an opaque value.  Timestamps are capture times of the  *)
(* kernel's monotonic clock; a message may reach ingest later than another *)
(* that was captured up to Skew units after it, because every processor    *)
(* stamps its packets before it reserves ring-buffer space.  A packet that *)
(* the full ring buffer drops is one that ingest never sees.               *)
(***************************************************************************)
EXTENDS Integers, Sequences, FiniteSets

CONSTANTS
  Keys,             \* values of DnsMatchKey
  Limits,           \* values max_records may be configured with
  QueryWindow,      \* QUERY_DEDUP_WINDOW_NS
  ResponseWindow,   \* RESPONSE_DEDUP_WINDOW_NS
  MatchAge,         \* MAX_QUERY_MATCH_AGE_NS
  Skew,             \* how late a captured message may be ingested
  MaxTime,          \* bound: the clock stops here
  MaxQueries,       \* bound: ids given out in one run of the service
  Restarts          \* bound: restarts of the service

ASSUME LimitsAssumption == Limits \subseteq Nat \ {0}
ASSUME TimesAssumption ==
  /\ QueryWindow \in Nat \ {0} /\ ResponseWindow \in Nat \ {0} /\ MatchAge \in Nat
  /\ Skew \in Nat /\ MaxTime \in Nat \ {0} /\ MaxQueries \in Nat /\ Restarts \in Nat

VARIABLES
  now,               \* the monotonic clock
  max_records,
  records,           \* id -> tracked query
  order,             \* ids by age
  pending,           \* key -> queue of ids that wait for a response
  recent_queries,    \* key -> time of the last query that was logged
  recent_responses,  \* key -> time of the last response that was used
  next_id,
  saving,            \* what the persistence task copied and now writes
  file,              \* contents of queries.jsonl
  synced,            \* file is on the disk for certain
  restarts,
  expired,           \* history: ids dropped from pending because of their age
  crowded            \* history: a duplicate filter had to drop a fresh entry

logVars == <<records, order, pending, recent_queries, recent_responses, next_id,
             expired, crowded>>
fileVars == <<saving, file, synced>>
vars == <<now, max_records, logVars, fileVars, restarts>>

None == "none"
Answered == "answered"
NoResponse == "NO_RESPONSE"

\* observed and answered_at are 0 in a restored record.
Query(k, ts) == [key |-> k, code |-> None, observed |-> ts, answered_at |-> 0,
                 elapsed |-> 0, restored |-> FALSE]
Tracked == [key : Keys, code : {None, Answered, NoResponse}, observed : 0..MaxTime,
            answered_at : 0..MaxTime, elapsed : 0..MaxTime, restored : BOOLEAN]
\* A line of queries.jsonl.
Line == [key : Keys, code : {None, Answered, NoResponse}, elapsed : 0..MaxTime]
LineOf(q) == [key |-> q.key, code |-> q.code, elapsed |-> q.elapsed]

dedupe_limit == 2 * max_records

NotSaving == [busy |-> FALSE, lines |-> <<>>]

TypeOK ==
  /\ now \in 1..MaxTime
  /\ max_records \in Limits
  /\ DOMAIN records \subseteq Nat \ {0}
  /\ \A id \in DOMAIN records : records[id] \in Tracked
  /\ order \in Seq(Nat)
  /\ DOMAIN pending \subseteq Keys
  /\ \A k \in DOMAIN pending : pending[k] \in Seq(Nat)
  /\ DOMAIN recent_queries \subseteq Keys
  /\ \A k \in DOMAIN recent_queries : recent_queries[k] \in 0..MaxTime
  /\ DOMAIN recent_responses \subseteq Keys
  /\ \A k \in DOMAIN recent_responses : recent_responses[k] \in 0..MaxTime
  /\ next_id \in Nat \ {0}
  /\ saving.busy \in BOOLEAN /\ saving.lines \in Seq(Line)
  /\ file \in Seq(Line)
  /\ synced \in BOOLEAN
  /\ restarts \in 0..Restarts
  /\ expired \subseteq Nat
  /\ crowded \in BOOLEAN

NoMap == [k \in {} |-> 0]

Init ==
  /\ now = 1
  /\ max_records \in Limits
  /\ records = NoMap /\ order = <<>> /\ pending = NoMap
  /\ recent_queries = NoMap /\ recent_responses = NoMap
  /\ next_id = 1
  /\ saving = NotSaving /\ file = <<>> /\ synced = TRUE
  /\ restarts = 0
  /\ expired = {} /\ crowded = FALSE

-----------------------------------------------------------------------------
Age(ts, since) == IF ts >= since THEN ts - since ELSE 0  \* saturating_sub
Without(f, k) == [x \in DOMAIN f \ {k} |-> f[x]]
With(f, k, v) == [x \in DOMAIN f \cup {k} |-> IF x = k THEN v ELSE f[x]]
SetQueue(p, k, queue) == IF queue = <<>> THEN Without(p, k) ELSE With(p, k, queue)

\* queue.retain(|x| x != id); an id is in a queue at most once.
Retained(queue, id) ==
  IF \A i \in DOMAIN queue : queue[i] # id THEN queue
  ELSE LET at == CHOOSE i \in DOMAIN queue : queue[i] = id
       IN SubSeq(queue, 1, at - 1) \o SubSeq(queue, at + 1, Len(queue))

\* Mutant: a copy of the packet is always logged.
EveryCopyIsNew(cache, k, ts, window) == FALSE

\* The message repeats one of the same key inside the window.
Duplicate(cache, k, ts, window) ==
  k \in DOMAIN cache /\ Age(ts, cache[k]) < window

\* prune_dedupe_cache: nothing below the limit; above it the old entries go,
\* then whichever entries the hash order puts last.
Pruned(cache, ts, window) ==
  LET fresh == {k \in DOMAIN cache : cache[k] >= Age(ts, window)}
      kept == {S \in SUBSET fresh : Cardinality(S) = dedupe_limit}
  IN IF Cardinality(DOMAIN cache) <= dedupe_limit THEN {cache}
     ELSE IF Cardinality(fresh) <= dedupe_limit
       THEN {[k \in fresh |-> cache[k]]}
       ELSE {[k \in S |-> cache[k]] : S \in kept}

\* Both filters are pruned at the end of ingest.
PruneFilters(queries, responses, ts) ==
  /\ recent_queries' \in Pruned(queries, ts, QueryWindow)
  /\ recent_responses' \in Pruned(responses, ts, ResponseWindow)
  /\ crowded' = (crowded \/ DOMAIN recent_queries' # DOMAIN queries
                         \/ DOMAIN recent_responses' # DOMAIN responses)

\* Mutant: the evicted query stays in the queue of its key.
StaysQueued(p, id, query) == p

\* evict_oldest takes an unanswered query out of its queue.
PendingAfterEvict(p, id, query) ==
  IF query.code = None /\ query.key \in DOMAIN p
    THEN SetQueue(p, query.key, Retained(p[query.key], id))
    ELSE p

Full(recs) == Cardinality(DOMAIN recs) > max_records

IngestQuery(k, ts) ==
  LET recs == With(records, next_id, Query(k, ts))
      ids == Append(order, next_id)
      queue == IF k \in DOMAIN pending THEN pending[k] ELSE <<>>
      pend == With(pending, k, Append(queue, next_id))
      oldest == Head(ids)
      full == Full(recs)
  IN
  /\ ~Duplicate(recent_queries, k, ts, QueryWindow)
  /\ next_id <= MaxQueries
  /\ next_id' = next_id + 1
  /\ records' = IF full THEN Without(recs, oldest) ELSE recs
  /\ order' = IF full THEN Tail(ids) ELSE ids
  /\ pending' = IF full THEN PendingAfterEvict(pend, oldest, recs[oldest])
                        ELSE pend
  /\ PruneFilters(With(recent_queries, k, ts), recent_responses, ts)
  /\ UNCHANGED <<now, max_records, fileVars, restarts, expired>>

\* Mutant: a query that is too old is still matched.
NeverExpired(id, ts) == id \notin DOMAIN records

Expired(id, ts) ==
  id \notin DOMAIN records \/ Age(ts, records[id].observed) > MatchAge

\* The queue without the expired queries at its front.
Unexpired(queue, ts) ==
  LET expiredUpTo(n) == \A i \in 1..n : Expired(queue[i], ts)
      dropped == CHOOSE n \in 0..Len(queue) :
                   expiredUpTo(n) /\ (n < Len(queue) => ~Expired(queue[n + 1], ts))
  IN SubSeq(queue, dropped + 1, Len(queue))

\* Mutant: the query that was answered is not taken out of its queue.
Peeked(queue) == queue

\* The second pop_front, which takes the query that is answered.
AfterMatch(queue) == Tail(queue)

\* A response with a waiting query: the oldest one that has not expired.
IngestResponse(k, ts) ==
  LET queue == Unexpired(pending[k], ts)
      id == Head(queue)
  IN
  /\ ~Duplicate(recent_responses, k, ts, ResponseWindow)
  /\ k \in DOMAIN pending
  /\ queue # <<>>
  /\ records' = [records EXCEPT ![id].code = Answered,
                                ![id].answered_at = ts,
                                ![id].elapsed = Age(ts, records[id].observed)]
  /\ pending' = SetQueue(pending, k, AfterMatch(queue))
  /\ expired' = expired \cup {pending[k][i] : i \in 1..(Len(pending[k]) - Len(queue))}
  /\ PruneFilters(recent_queries, With(recent_responses, k, ts), ts)
  /\ UNCHANGED <<now, max_records, order, next_id, fileVars, restarts>>

\* A response without one: the expired queries are forgotten, and the
\* response does not count as seen.
IngestUnmatched(k, ts) ==
  /\ ~Duplicate(recent_responses, k, ts, ResponseWindow)
  /\ k \in DOMAIN pending => Unexpired(pending[k], ts) = <<>>
  /\ pending' = Without(pending, k)
  /\ expired' = expired \cup
       IF k \in DOMAIN pending THEN {pending[k][i] : i \in DOMAIN pending[k]} ELSE {}
  /\ PruneFilters(recent_queries, recent_responses, ts)
  /\ UNCHANGED <<now, max_records, records, order, next_id, fileVars, restarts>>

\* A copy of a message that was used: ingest returns before it changes
\* anything, the pruning included.
IngestDuplicate(k, ts) ==
  /\ \/ Duplicate(recent_queries, k, ts, QueryWindow)
     \/ Duplicate(recent_responses, k, ts, ResponseWindow)
  /\ UNCHANGED vars

Ingest == \E k \in Keys, ts \in {t \in 1..now : now - t <= Skew} :
  \/ IngestQuery(k, ts)
  \/ IngestResponse(k, ts)
  \/ IngestUnmatched(k, ts)
  \/ IngestDuplicate(k, ts)

Tick ==
  /\ now < MaxTime
  /\ now' = now + 1
  /\ UNCHANGED <<max_records, logVars, fileVars, restarts>>

-----------------------------------------------------------------------------
(* Persistence *)

\* records_for_persistence, under the read lock ...
\* Bound: a save that no restart can read any more is left out.
CopyRecords ==
  /\ ~saving.busy
  /\ restarts < Restarts
  /\ saving' = [busy |-> TRUE,
                lines |-> [i \in DOMAIN order |-> LineOf(records[order[i]])]]
  /\ UNCHANGED <<now, max_records, logVars, file, synced, restarts>>

\* ... then the temporary file is written and renamed, without a sync;
\* meanwhile ingest goes on.
SaveRecords ==
  /\ saving.busy
  /\ file' = saving.lines
  /\ synced' = FALSE
  /\ saving' = NotSaving
  /\ UNCHANGED <<now, max_records, logVars, restarts>>

\* An error leaves the old file.
SaveFails ==
  /\ saving.busy
  /\ saving' = NotSaving
  /\ UNCHANGED <<now, max_records, logVars, file, synced, restarts>>

\* The kernel writes the file back in its own time.
WriteBack ==
  /\ ~synced
  /\ synced' = TRUE
  /\ UNCHANGED <<now, max_records, logVars, saving, file, restarts>>

\* A query the last run left open is marked NO_RESPONSE: it cannot be
\* matched any more.
Restored(line) ==
  [Query(line.key, 0) EXCEPT
     !.code = IF line.code = None THEN NoResponse ELSE line.code,
     !.elapsed = line.elapsed,
     !.restored = TRUE]

\* Mutant: every line is restored.
NothingSkipped(lines, limit) == 0

Skipped(lines, limit) == IF Len(lines) > limit THEN Len(lines) - limit ELSE 0

\* load_dns_records and restore_records: the newest lines, oldest first.
RestoreFrom(lines, limit) ==
  LET skip == Skipped(lines, limit)
      n == Len(lines) - skip
  IN /\ records' = [id \in 1..n |-> Restored(lines[skip + id])]
     /\ order' = [id \in 1..n |-> id]
     /\ next_id' = n + 1

\* A restart, after a kill or after a power loss; the latter may leave any
\* prefix of a file that was not written back, a cut line being skipped.
Restart(limit) ==
  /\ restarts < Restarts
  /\ restarts' = restarts + 1
  /\ max_records' = limit
  /\ \E n \in IF synced THEN {Len(file)} ELSE 0..Len(file) :
       file' = SubSeq(file, 1, n)
  /\ synced' = TRUE
  /\ RestoreFrom(file', limit)
  /\ pending' = NoMap /\ recent_queries' = NoMap /\ recent_responses' = NoMap
  /\ expired' = {} /\ crowded' = FALSE
  /\ saving' = NotSaving
  /\ UNCHANGED now

Next ==
  \/ Ingest
  \/ Tick
  \/ CopyRecords
  \/ SaveRecords
  \/ SaveFails
  \/ WriteBack
  \/ \E limit \in Limits : Restart(limit)

Spec == Init /\ [][Next]_vars

-----------------------------------------------------------------------------
Increasing(seq) == \A i, j \in DOMAIN seq : i < j => seq[i] < seq[j]
Captured(id) == id \in DOMAIN records /\ ~records[id].restored
Waiting == UNION {{pending[k][i] : i \in DOMAIN pending[k]} : k \in DOMAIN pending}

\* Every queue holds, oldest first, queries of its own key that are still
\* logged and unanswered; conversely an unanswered query waits in a queue
\* unless its age ruled it out.  Eviction, matching and restoring keep the
\* two structures in step, so no response is matched to a query that is
\* gone and no key stays behind with an empty queue.
PendingExact ==
  /\ \A k \in DOMAIN pending :
       /\ pending[k] # <<>> /\ Increasing(pending[k])
       /\ \A i \in DOMAIN pending[k] :
            LET id == pending[k][i] IN
            Captured(id) /\ records[id].key = k /\ records[id].code = None
  /\ \A id \in DOMAIN records :
       records[id].code = None => id \in Waiting \cup expired

\* The log is the max_records newest queries: no gap, no leak, and order
\* and records agree; the duplicate filters stay within their limit, however
\* many keys are in use at once.
NewestRetained ==
  /\ Len(order) <= max_records
  /\ DOMAIN records = (next_id - Len(order))..(next_id - 1)
  /\ Increasing(order)
  /\ {order[i] : i \in DOMAIN order} = DOMAIN records
  /\ Cardinality(DOMAIN recent_queries) <= dedupe_limit
  /\ Cardinality(DOMAIN recent_responses) <= dedupe_limit

\* Responses go to the oldest waiting query of their key, and never to one
\* that is older than MAX_QUERY_MATCH_AGE_NS.
OldestAnsweredFirst ==
  \A id \in DOMAIN records : Captured(id) /\ records[id].code = Answered =>
    /\ records[id].elapsed <= MatchAge
    /\ \A older \in DOMAIN records :
         Captured(older) /\ older < id /\ records[older].key = records[id].key
           /\ records[older].code = None => older \in expired

\* Unless a filter overflowed, copies of one packet are logged once: two
\* queries of a key, and two responses of a key that were used, are at
\* least a window apart, in whatever order their captures arrive.
CopiesCountOnce ==
  ~crowded =>
    \A i, j \in DOMAIN records :
      i < j /\ Captured(i) /\ Captured(j) /\ records[i].key = records[j].key =>
        /\ records[j].observed - records[i].observed >= QueryWindow
        /\ records[i].code = Answered /\ records[j].code = Answered =>
             records[j].answered_at - records[i].answered_at >= ResponseWindow

\* A record that was answered, or restored as unanswered, never changes
\* again while the service runs: late and repeated responses cannot
\* overwrite it.
AnswersAreFinal ==
  [][restarts' = restarts =>
       \A id \in DOMAIN records \cap DOMAIN records' :
         records[id].code # None => records'[id] = records[id]]_vars
=============================================================================
