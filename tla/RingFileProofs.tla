--------------------------- MODULE RingFileProofs ---------------------------
(***************************************************************************)
(* Proofs about RingFile, for every set of capacities, every number of     *)
(* appends and every pattern of kills, failed or torn writes and power     *)
(* losses.                                                                 *)
(*                                                                         *)
(* HeaderAccepted is not inductive.  ring_size_bounds accepts an empty     *)
(* ring with any write position, but an append to such a ring would write  *)
(* a header it rejects: the invariant needs the stronger Consistent.  A    *)
(* power loss may bring the synced header back, and a migration writes a   *)
(* header from what it has read, so HeaderInv also speaks of the synced    *)
(* header and of the number of records read.                               *)
(*                                                                         *)
(* Chronological and the refinement of RecentRecords rest on OrderInv: the *)
(* places of the valid records, oldest first, hold increasing committed    *)
(* records but perhaps for the first.  PowerLossIsLocal rests on SyncInv.  *)
(***************************************************************************)
EXTENDS RingFile, FiniteSetTheorems, TLAPS

Consistent(h) ==
  /\ positions_ok(h)
  /\ h.valid_count < h.slot_count => h.write_pos = h.valid_count

Appending ==
  \/ pc \in {"record", "header"}
  \/ job = "append" /\ pc \in {"open", "migrate", "opened"}

HeaderInv ==
  /\ Consistent(header)
  /\ Consistent(synced.header)
  /\ synced.header.slot_count = header.slot_count
  /\ pc = "migrate" => Len(records) <= slot_count
  /\ Appending => record # 0

LEMMA CapacityPositive == \A n \in Capacities : n \in Nat \ {0}
  BY CapacitiesAssumption

LEMMA Wraps ==
  ASSUME NEW n \in Nat \ {0}, NEW a \in 0..n
  PROVE  a % n = IF a = n THEN 0 ELSE a
  OBVIOUS

LEMMA ConsistentAccepted ==
  ASSUME NEW h \in Header, Consistent(h)
  PROVE  Accepted(h)
  BY CapacityPositive DEF Header, Consistent, Accepted, positions_ok,
     ring_size_bounds_ok

LEMMA ReadSlotsType ==
  ASSUME NEW h \in Header, NEW s, NEW limit \in Nat,
         Decodes(ReadSlots(h, s, limit))
  PROVE  /\ ReadSlots(h, s, limit) \in Seq(Record)
         /\ Len(ReadSlots(h, s, limit)) <= limit
<1> DEFINE count == IF h.valid_count < limit THEN h.valid_count ELSE limit
<1>1. count \in Nat /\ count <= limit
  BY DEF Header
<1>2. DOMAIN ReadSlots(h, s, limit) = 1..count
  BY DEF ReadSlots
<1>3. ReadSlots(h, s, limit) \in [1..count -> Record]
  BY <1>2 DEF ReadSlots, Decodes
<1> QED BY <1>1, <1>3

\* The header an append writes over a consistent header is consistent.
LEMMA AdvancedConsistent ==
  ASSUME NEW h \in Header, Consistent(h)
  PROVE  AdvancedHeader(h) \in Header /\ Consistent(AdvancedHeader(h))
         /\ AdvancedHeader(h).slot_count = h.slot_count
<1> DEFINE n == h.slot_count
           p == (h.write_pos + 1) % n
           v == IF h.valid_count < n THEN h.valid_count + 1 ELSE n
<1>1. n \in Capacities /\ h.write_pos \in Nat /\ h.valid_count \in Nat
  BY DEF Header
<1>2. n \in Nat \ {0} /\ h.write_pos + 1 \in 0..n /\ h.valid_count <= n
  BY <1>1, CapacityPositive DEF Consistent, positions_ok
<1>3. p = IF h.write_pos + 1 = n THEN 0 ELSE h.write_pos + 1
  BY <1>2, Wraps
<1>4. AdvancedHeader(h) = [h EXCEPT !.write_pos = p, !.valid_count = v]
  BY DEF AdvancedHeader
<1>5. p \in Nat /\ v \in Nat /\ p < n /\ v <= n /\ (v < n => p = v)
  BY <1>1, <1>2, <1>3 DEF Consistent
<1> HIDE DEF p, v
<1>6. AdvancedHeader(h) \in Header
  BY <1>1, <1>4, <1>5 DEF Header
<1>7. /\ AdvancedHeader(h).slot_count = n
      /\ AdvancedHeader(h).write_pos = p
      /\ AdvancedHeader(h).valid_count = v
  BY <1>4 DEF Header
<1> QED BY <1>5, <1>6, <1>7 DEF Consistent, positions_ok

\* So is the header of a migrated ring.
LEMMA MigratedConsistent ==
  ASSUME NEW n \in Capacities, NEW len \in 0..n
  PROVE  MigratedHeader(n, len) \in Header /\ Consistent(MigratedHeader(n, len))
<1>1. n \in Nat \ {0}
  BY CapacityPositive
<1>2. len % n = IF len = n THEN 0 ELSE len
  BY <1>1, Wraps
<1> QED
  BY <1>1, <1>2 DEF MigratedHeader, Header, Consistent, positions_ok

LEMMA DefaultConsistent ==
  ASSUME NEW n \in Capacities
  PROVE  /\ default_ring_header(n) \in Header /\ Consistent(default_ring_header(n))
         /\ EmptySlots(n) \in [Slots(n) -> Slot]
  BY CapacityPositive DEF default_ring_header, Header, Consistent, positions_ok,
     EmptySlots, Slot

-----------------------------------------------------------------------------
IInv == TypeOK /\ HeaderInv

LEMMA IInvInit == Init => IInv
<1> SUFFICES ASSUME Init PROVE IInv
  OBVIOUS
<1>1. header \in Header /\ Consistent(header) /\ slots \in [Slots(slot_count) -> Slot]
  BY DefaultConsistent DEF Init
<1>2. header.slot_count = slot_count
  BY DEF Init, default_ring_header
<1>3. synced.header = header /\ synced.slots = slots
  BY DEF Init
<1>4. records \in Seq(Record) /\ record \in 0..MaxRecords /\ faults \in 0..MaxFaults
  BY MaxRecordsAssumption, FaultAssumption DEF Init
<1>5. synced.header \in Header /\ synced.slots \in [Slots(synced.header.slot_count) -> Slot]
  BY <1>1, <1>2, <1>3
<1>6. TypeOK
  BY <1>1, <1>2, <1>4, <1>5 DEF Init, TypeOK
<1> QED BY <1>1, <1>3, <1>6 DEF IInv, HeaderInv, Appending, Init

LEMMA IInvNext == IInv /\ [Next]_vars => IInv'
<1> SUFFICES ASSUME IInv, [Next]_vars PROVE IInv'
  OBVIOUS
<1> USE DEF IInv
\* What a step that leaves the file alone has to show.
<1>0. ASSUME UNCHANGED <<header, slots, synced, slot_count, faults>>,
             exists' \in BOOLEAN, job' \in {"append", "load"},
             pc' \in {"idle", "open", "opened", "record", "header", "down"},
             records' \in Seq(Record), record' \in 0..MaxRecords,
             committed' \subseteq Record,
             Appending' => record' # 0
      PROVE  IInv'
  BY <1>0 DEF TypeOK, HeaderInv
<1>1. ASSUME Created(slot_count), Return("opened"), UNCHANGED <<records, committed>>,
             pc = "open"
      PROVE  IInv'
  <2>1. header' \in Header /\ Consistent(header') /\ slots' \in [Slots(slot_count) -> Slot]
        /\ header'.slot_count = slot_count
    BY <1>1, DefaultConsistent DEF Created, TypeOK, default_ring_header
  <2>2. synced'.header = header' /\ synced'.slots = slots'
    BY <1>1 DEF Created
  <2>3. Appending' => record' # 0
    BY <1>1 DEF Return, Appending, HeaderInv
  <2> QED BY <1>1, <2>1, <2>2, <2>3 DEF Created, Return, TypeOK, HeaderInv
<1>2. CASE OpenCreate \/ OpenQuarantine
  BY <1>1, <1>2 DEF OpenCreate, OpenQuarantine
<1>3. CASE OpenExisting
  BY <1>0, <1>3 DEF OpenExisting, Return, TypeOK, HeaderInv, Appending
<1>4. CASE OpenMigrate
  <2> DEFINE seq == ReadSlots(header, slots, slot_count)
  <2>1. Decodes(seq) => seq \in Seq(Record) /\ Len(seq) <= slot_count
    BY ReadSlotsType, CapacityPositive DEF TypeOK
  <2>2. records' \in Seq(Record) /\ Len(records') <= slot_count
    <3>1. CASE Decodes(seq)
      BY <1>4, <2>1, <3>1 DEF OpenMigrate
    <3>2. CASE ~Decodes(seq)
      BY <1>4, <3>2, CapacityPositive DEF OpenMigrate, TypeOK
    <3> QED BY <3>1, <3>2
  <2>3. UNCHANGED <<header, slots, synced, slot_count, job, record, faults, committed>>
        /\ pc' = "migrate" /\ exists' \in BOOLEAN
    BY <1>4 DEF OpenMigrate, NoFile, Return, TypeOK
  <2>4. Appending' => record' # 0
    BY <1>4, <2>3 DEF OpenMigrate, Appending, HeaderInv
  <2> QED BY <2>2, <2>3, <2>4 DEF TypeOK, HeaderInv
<1>5. CASE MigrateRename
  <2>1. Len(records) \in 0..slot_count
    BY <1>5, CapacityPositive DEF MigrateRename, TypeOK, HeaderInv
  <2>2. header' \in Header /\ Consistent(header') /\ header'.slot_count = slot_count
    BY <1>5, <2>1, MigratedConsistent DEF MigrateRename, TypeOK, MigratedHeader
  <2>3. slots' \in [Slots(slot_count) -> Slot]
    <3>1. \A i \in Slots(slot_count) : i < Len(records) => records[i + 1] \in Record
      BY CapacityPositive DEF TypeOK, Slots
    <3> QED BY <1>5, <3>1 DEF MigrateRename, Slot
  <2>4. synced'.header = header' /\ synced'.slots = slots'
    BY <1>5 DEF MigrateRename
  <2>5. Appending' => record' # 0
    BY <1>5 DEF MigrateRename, Return, Appending, HeaderInv
  <2> QED BY <1>5, <2>2, <2>3, <2>4, <2>5 DEF MigrateRename, Return, TypeOK, HeaderInv
<1>6. CASE MigrateFails
  BY <1>0, <1>6 DEF MigrateFails, Return, TypeOK, Appending
<1>7. CASE StartAppend
  BY <1>0, <1>7, MaxRecordsAssumption DEF StartAppend, TypeOK
<1>9. CASE WriteRecord
  <2>1. record \in Slot
    BY MaxRecordsAssumption DEF TypeOK, Slot, Record, Hole
  <2>2. slots' \in [Slots(header.slot_count) -> Slot]
    BY <1>9, <2>1 DEF WriteRecord, TypeOK
  <2> QED BY <1>9, <2>2 DEF WriteRecord, TypeOK, HeaderInv, Return, Appending
<1>10. CASE WriteRecordFails
  BY <1>0, <1>10 DEF WriteRecordFails, Return, TypeOK, Appending
<1>19. CASE ShortWrite
  <2>1. slots' \in [Slots(header.slot_count) -> Slot]
    BY <1>19 DEF ShortWrite, TypeOK, Slot
  <2>2. faults' \in 0..MaxFaults
    BY <1>19, FaultAssumption DEF ShortWrite, TypeOK
  <2> QED BY <1>19, <2>1, <2>2 DEF ShortWrite, TypeOK, HeaderInv, Appending
<1>11. CASE WriteHeader
  <2>1. header' \in Header /\ Consistent(header') /\ header'.slot_count = header.slot_count
    BY <1>11, AdvancedConsistent DEF WriteHeader, TypeOK, HeaderInv
  <2>2. record \in Record
    BY <1>11, MaxRecordsAssumption DEF WriteHeader, TypeOK, HeaderInv, Appending, Record
  <2>3. Appending' => record' # 0
    BY <1>11 DEF WriteHeader, Return, HeaderInv, Appending
  <2> QED BY <1>11, <2>1, <2>2, <2>3 DEF WriteHeader, Return, TypeOK, HeaderInv
<1>12. CASE WriteHeaderFails \/ SyncFails
  BY <1>0, <1>12 DEF WriteHeaderFails, SyncFails, Return, TypeOK, Appending
<1>13. CASE SyncData
  <2>1. synced'.header = header /\ synced'.slots = slots
    BY <1>13 DEF SyncData
  <2> QED BY <1>13, <2>1 DEF SyncData, Return, TypeOK, HeaderInv, Appending
<1>14. CASE Load
  BY <1>0, <1>14 DEF Load, NoFile, Return, TypeOK, Appending
<1>15. ASSUME NEW n \in Capacities, Start(n) PROVE IInv'
  BY <1>15 DEF Start, TypeOK, HeaderInv, Appending
<1>16. CASE Kill
  <2>1. <<>> \in Seq(Record)
    OBVIOUS
  <2> QED BY <1>0, <1>16, <2>1 DEF Kill, Return, TypeOK, Appending
<1>17. CASE PowerLoss
  <2>1. header' \in Header /\ Consistent(header') /\ header'.slot_count = header.slot_count
    BY <1>17 DEF PowerLoss, TypeOK, HeaderInv
  <2>2. slots' \in [Slots(header.slot_count) -> Slot]
    BY <1>17 DEF PowerLoss
  <2>3. synced'.header = header' /\ synced'.slots = slots'
    BY <1>17 DEF PowerLoss
  <2>4. faults' \in 0..MaxFaults /\ records' \in Seq(Record)
    BY <1>17, FaultAssumption DEF PowerLoss, TypeOK
  <2> QED BY <1>17, <2>1, <2>2, <2>3, <2>4 DEF PowerLoss, TypeOK, HeaderInv, Appending
<1>18. CASE UNCHANGED vars
  BY <1>18 DEF vars, TypeOK, HeaderInv, Appending
<1> QED
  BY <1>2, <1>3, <1>4, <1>5, <1>6, <1>7, <1>9, <1>10, <1>11, <1>12, <1>13, <1>14,
     <1>15, <1>16, <1>17, <1>18, <1>19 DEF Next, Open, Migrate, Append1

\* Every reachable ring is well formed.
THEOREM TypeCorrect == Spec => []TypeOK
<1>1. IInv => TypeOK
  BY DEF IInv
<1> QED BY <1>1, IInvInit, IInvNext, PTL DEF Spec

\* No sequence of appends, migrations, kills, failed writes and power losses
\* writes a header that open_or_create_ring cannot open.
THEOREM HeaderAcceptedHolds == Spec => []HeaderAccepted
<1>1. IInv => HeaderAccepted
  BY ConsistentAccepted DEF IInv, TypeOK, HeaderInv, HeaderAccepted
<1> QED BY <1>1, IInvInit, IInvNext, PTL DEF Spec

-----------------------------------------------------------------------------
(***************************************************************************)
(* The order of the records.  Place is where the i-th oldest record of a   *)
(* consistent ring lies, without the modulus.  Only the oldest record      *)
(* visible may be one that was never committed: an append that was         *)
(* interrupted overwrites the oldest slot of a full ring, and a migration  *)
(* may then make room behind it.                                           *)
(***************************************************************************)
Place(h, i) ==
  LET oldest == IF h.valid_count < h.slot_count THEN 0 ELSE h.write_pos
  IN  IF oldest + i <= h.slot_count THEN oldest + i - 1 ELSE oldest + i - 1 - h.slot_count

Ordered(h, s, done) ==
  /\ \A i \in 1..h.valid_count : s[Place(h, i)] \in Record
  /\ \A i \in 2..h.valid_count : s[Place(h, i)] \in done
  /\ \A i, j \in 1..h.valid_count :
       i < j /\ s[Place(h, i)] \in done => s[Place(h, i)] < s[Place(h, j)]

\* An append whose header is not written yet.
Uncommitted ==
  \/ pc = "record"
  \/ job = "append" /\ pc \in {"open", "migrate", "opened"}

NumbersInv ==
  /\ committed \subseteq 1..record
  /\ Uncommitted => record \notin committed
  /\ \A i \in Slots(header.slot_count) :
       /\ slots[i] <= record
       /\ Uncommitted /\ ~(pc = "record" /\ i = header.write_pos) => slots[i] < record
  /\ pc = "record" => slots[header.write_pos] = record

\* What a migration has read is still what the file holds.
ReadInv == pc = "migrate" => exists /\ records = ReadSlots(header, slots, slot_count)

OrderInv ==
  faults = 0 => NumbersInv /\ ReadInv /\ (exists => Ordered(header, slots, committed))

\* The header on the disk never counts more records than the one in memory.
SyncInv == synced.header.valid_count <= header.valid_count

LEMMA ModUpToTwice ==
  ASSUME NEW n \in Nat \ {0}, NEW a \in 0..(2 * n - 1)
  PROVE  a % n = IF a < n THEN a ELSE a - n
<1>1. CASE a < n
  BY <1>1
<1>2. CASE a >= n
  <2>1. a - n \in 0..(n - 1) /\ a = n + (a - n)
    BY <1>2
  <2> QED BY <1>2, <2>1
<1> QED BY <1>1, <1>2

LEMMA HeaderFields ==
  ASSUME NEW h \in Header, Consistent(h)
  PROVE  /\ h.slot_count \in Nat \ {0}
         /\ h.valid_count \in 0..h.slot_count
         /\ h.write_pos \in 0..(h.slot_count - 1)
         /\ h.valid_count < h.slot_count => h.write_pos = h.valid_count
  BY CapacityPositive DEF Header, Consistent, positions_ok

\* The places of the records of a ring: the slots below valid_count, each once;
\* an append overwrites the oldest record of a full ring, and none of another.
LEMMA Places ==
  ASSUME NEW h \in Header, Consistent(h)
  PROVE  /\ \A i \in 1..h.valid_count : Place(h, i) \in Slots(h.valid_count)
         /\ \A i, j \in 1..h.valid_count : Place(h, i) = Place(h, j) => i = j
         /\ \A k \in Slots(h.valid_count) :
              \E i \in 1..h.valid_count : Place(h, i) = k
         /\ \A i \in 1..h.valid_count : Place(h, i) = h.write_pos <=>
              h.valid_count = h.slot_count /\ i = 1
<1> DEFINE n == h.slot_count
           v == h.valid_count
           p == h.write_pos
<1>1. n \in Nat \ {0} /\ v \in 0..n /\ p \in 0..(n - 1) /\ (v < n => p = v)
  BY HeaderFields
<1>2. /\ v < n => \A i \in 1..v : Place(h, i) = i - 1
      /\ v = n => \A i \in 1..v : Place(h, i) = IF p + i <= n THEN p + i - 1 ELSE p + i - 1 - n
  BY <1>1 DEF Place
<1> HIDE DEF n, v, p
<1>3. ASSUME NEW k \in Slots(v) PROVE \E i \in 1..v : Place(h, i) = k
  <2>1. CASE v < n
    <3>1. k + 1 \in 1..v
      BY <1>1 DEF Slots
    <3>2. Place(h, k + 1) = k
      BY <1>2, <2>1, <3>1 DEF Slots
    <3> QED BY <3>1, <3>2
  <2>2. CASE v = n /\ k >= p
    <3>1. k - p + 1 \in 1..v
      BY <1>1, <2>2 DEF Slots
    <3>2. Place(h, k - p + 1) = k
      BY <1>1, <1>2, <2>2, <3>1 DEF Slots
    <3> QED BY <3>1, <3>2
  <2>3. CASE v = n /\ k < p
    <3>1. k - p + n + 1 \in 1..v
      BY <1>1, <2>3 DEF Slots
    <3>2. Place(h, k - p + n + 1) = k
      BY <1>1, <1>2, <2>3, <3>1 DEF Slots
    <3> QED BY <3>1, <3>2
  <2> QED BY <1>1, <2>1, <2>2, <2>3 DEF Slots
<1>4. \A i \in 1..v : Place(h, i) \in Slots(v)
  BY <1>1, <1>2 DEF Slots
<1>5. \A i, j \in 1..v : Place(h, i) = Place(h, j) => i = j
  BY <1>1, <1>2
<1>6. \A i \in 1..v : Place(h, i) = p <=> v = n /\ i = 1
  BY <1>1, <1>2
<1> QED BY <1>3, <1>4, <1>5, <1>6 DEF n, v, p

\* A reader visits the places in order, from the first it has room for.
LEMMA ReadPlaces ==
  ASSUME NEW h \in Header, Consistent(h), NEW s, NEW limit \in Nat
  PROVE  \E count \in 0..h.valid_count :
           /\ count = IF h.valid_count < limit THEN h.valid_count ELSE limit
           /\ ReadSlots(h, s, limit) =
                [i \in 1..count |-> s[Place(h, h.valid_count - count + i)]]
<1> DEFINE n == h.slot_count
           v == h.valid_count
           p == h.write_pos
           count == IF v < limit THEN v ELSE limit
<1>1. n \in Nat \ {0} /\ v \in 0..n /\ p \in 0..(n - 1) /\ (v < n => p = v)
  BY HeaderFields
<1>2. count \in 0..v
  BY <1>1
<1>3. ReadSlots(h, s, limit) = [i \in 1..count |-> s[SlotAt(h, count, i - 1)]]
  BY DEF ReadSlots
<1>4. ASSUME NEW i \in 1..count
      PROVE  SlotAt(h, count, i - 1) = Place(h, v - count + i)
  <2> DEFINE a == p + n - count + (i - 1)
  <2>1. SlotAt(h, count, i - 1) = a % n
    BY DEF SlotAt
  <2>2. Place(h, v - count + i) =
          LET oldest == IF v < n THEN 0 ELSE p
          IN  IF oldest + (v - count + i) <= n THEN oldest + (v - count + i) - 1
              ELSE oldest + (v - count + i) - 1 - n
    BY DEF Place
  <2> HIDE DEF n, v, p, count
  <2>3. a \in 0..(2 * n - 1)
    BY <1>1, <1>2
  <2>4. a % n = IF a < n THEN a ELSE a - n
    BY <1>1, <2>3, ModUpToTwice
  <2> QED BY <1>1, <1>2, <2>1, <2>2, <2>4
<1>5. ReadSlots(h, s, limit) = [i \in 1..count |-> s[Place(h, v - count + i)]]
  BY <1>3, <1>4
<1> QED BY <1>2, <1>5

\* Advancing the header makes the slot it pointed at the newest record; in a
\* full ring every other record becomes one place older.
LEMMA AdvancedPlaces ==
  ASSUME NEW h \in Header, Consistent(h)
  PROVE  LET after == AdvancedHeader(h) IN
         /\ Place(after, after.valid_count) = h.write_pos
         /\ h.valid_count < h.slot_count =>
              /\ after.valid_count = h.valid_count + 1
              /\ \A i \in 1..h.valid_count : Place(after, i) = Place(h, i)
         /\ h.valid_count = h.slot_count =>
              /\ after.valid_count = h.slot_count
              /\ \A i \in 1..(h.slot_count - 1) : Place(after, i) = Place(h, i + 1)
<1> DEFINE n == h.slot_count
           v == h.valid_count
           p == h.write_pos
           after == AdvancedHeader(h)
           q == (p + 1) % n
           w == IF v < n THEN v + 1 ELSE n
<1>1. n \in Nat \ {0} /\ v \in 0..n /\ p \in 0..(n - 1) /\ (v < n => p = v)
  BY HeaderFields
<1>2. q = IF p + 1 = n THEN 0 ELSE p + 1
  BY <1>1, Wraps
<1>3. after.slot_count = n /\ after.write_pos = q /\ after.valid_count = w
  BY DEF AdvancedHeader, Header
<1>4. ASSUME NEW i \in Nat
      PROVE  /\ Place(after, i) = LET o == IF w < n THEN 0 ELSE q
                                  IN  IF o + i <= n THEN o + i - 1 ELSE o + i - 1 - n
             /\ Place(h, i) = LET o == IF v < n THEN 0 ELSE p
                              IN  IF o + i <= n THEN o + i - 1 ELSE o + i - 1 - n
  BY <1>3 DEF Place
<1> HIDE DEF n, v, p, q, after
<1>5. Place(after, w) = p
  <2>1. w \in Nat
    BY <1>1
  <2> QED BY <1>1, <1>2, <1>4, <2>1
<1>6. v < n => \A i \in 1..v : Place(after, i) = Place(h, i)
  <2> SUFFICES ASSUME v < n, NEW i \in 1..v PROVE Place(after, i) = Place(h, i)
    OBVIOUS
  <2>1. i \in Nat
    OBVIOUS
  <2> QED BY <1>1, <1>2, <1>4, <2>1
<1>7. v = n => \A i \in 1..(n - 1) : Place(after, i) = Place(h, i + 1)
  <2> SUFFICES ASSUME v = n, NEW i \in 1..(n - 1) PROVE Place(after, i) = Place(h, i + 1)
    OBVIOUS
  <2>1. i \in Nat /\ i + 1 \in Nat
    BY <1>1
  <2> QED BY <1>1, <1>2, <1>4, <2>1
<1> QED BY <1>1, <1>3, <1>5, <1>6, <1>7 DEF n, v, p, after

LEMMA MigratedPlaces ==
  ASSUME NEW n \in Capacities, NEW len \in 0..n
  PROVE  /\ MigratedHeader(n, len).valid_count = len
         /\ \A i \in 1..len : Place(MigratedHeader(n, len), i) = i - 1
<1>1. n \in Nat \ {0}
  BY CapacityPositive
<1>2. len % n = IF len = n THEN 0 ELSE len
  BY <1>1, Wraps
<1> QED BY <1>1, <1>2 DEF MigratedHeader, Place

\* Overwriting the slot of the next append keeps the order.
LEMMA OrderedWritten ==
  ASSUME NEW h \in Header, Consistent(h), NEW s \in [Slots(h.slot_count) -> Slot],
         NEW done, Ordered(h, s, done), NEW r \in Record, r \notin done
  PROVE  Ordered(h, [s EXCEPT ![h.write_pos] = r], done)
<1> DEFINE v == h.valid_count
           n == h.slot_count
           s2 == [s EXCEPT ![h.write_pos] = r]
<1>1. n \in Nat \ {0} /\ v \in 0..n /\ h.write_pos \in Slots(n)
  BY HeaderFields DEF Slots
<1>2. \A i \in 1..v : Place(h, i) \in Slots(n)
  BY <1>1, Places DEF Slots
<1>3. \A i \in 1..v : s2[Place(h, i)] = s[Place(h, i)] \/ (i = 1 /\ s2[Place(h, i)] = r)
  <2> SUFFICES ASSUME NEW i \in 1..v
               PROVE  s2[Place(h, i)] = s[Place(h, i)] \/ (i = 1 /\ s2[Place(h, i)] = r)
    OBVIOUS
  <2>1. Place(h, i) = h.write_pos => i = 1
    BY Places
  <2>2. Place(h, i) \in DOMAIN s
    BY <1>2
  <2> QED BY <2>1, <2>2
<1> HIDE DEF s2
<1>4. Ordered(h, s2, done)
  BY <1>1, <1>3 DEF Ordered
<1> QED BY <1>4 DEF s2

\* Writing the header over that record, newer than every other one, keeps it
\* as well, and commits the record.
LEMMA OrderedCommitted ==
  ASSUME NEW h \in Header, Consistent(h), NEW s, NEW done, Ordered(h, s, done),
         NEW r \in Record, s[h.write_pos] = r,
         \A k \in Slots(h.slot_count) : k # h.write_pos => s[k] < r
  PROVE  Ordered(AdvancedHeader(h), s, done \cup {r})
<1> DEFINE v == h.valid_count
           n == h.slot_count
           after == AdvancedHeader(h)
           w == after.valid_count
<1>1. n \in Nat \ {0} /\ v \in 0..n
  BY HeaderFields
<1>2. s[Place(after, w)] = r
  BY AdvancedPlaces
<1>3. \A i \in 1..v : v < n \/ i # 1 => s[Place(h, i)] < r
  BY <1>1, Places DEF Slots
<1>4. CASE v < n
  <2>1. w = v + 1 /\ \A i \in 1..v : Place(after, i) = Place(h, i)
    BY <1>4, AdvancedPlaces
  <2>2. \A i \in 1..v : /\ s[Place(after, i)] \in Record /\ s[Place(after, i)] < r
                        /\ i # 1 => s[Place(after, i)] \in done
                        /\ \A j \in 1..v : i < j /\ s[Place(after, i)] \in done =>
                             s[Place(after, i)] < s[Place(after, j)]
    BY <1>1, <1>3, <1>4, <2>1 DEF Ordered
  <2> HIDE DEF after, v, n, w
  <2>3. \A i \in 1..w : i \in 1..v \/ i = w
    BY <1>1, <2>1
  <2>4. r < r <=> FALSE
    BY DEF Record
  <2> QED BY <1>1, <1>2, <2>1, <2>2, <2>3, <2>4 DEF Ordered, w, after
<1>5. CASE v = n
  <2>1. w = n /\ \A i \in 1..(n - 1) : Place(after, i) = Place(h, i + 1)
    BY <1>5, AdvancedPlaces
  <2>2. \A i \in 1..(n - 1) : i + 1 \in 1..v /\ i + 1 # 1 /\ i + 1 \in 2..v
    BY <1>1, <1>5
  <2>3. \A i \in 1..(n - 1) : s[Place(after, i)] \in Record /\ s[Place(after, i)] < r
                              /\ s[Place(after, i)] \in done
    BY <1>3, <2>1, <2>2 DEF Ordered
  <2>4. \A i, j \in 1..(n - 1) : i < j => s[Place(after, i)] < s[Place(after, j)]
    <3> SUFFICES ASSUME NEW i \in 1..(n - 1), NEW j \in 1..(n - 1), i < j
                 PROVE  s[Place(h, i + 1)] < s[Place(h, j + 1)]
      BY <2>1
    <3>1. i + 1 \in 2..v /\ i + 1 \in 1..v /\ j + 1 \in 1..v /\ i + 1 < j + 1
      BY <1>1, <1>5
    <3> QED BY <3>1 DEF Ordered
  <2> HIDE DEF after, v, n, w
  <2>5. \A i \in 1..w : i \in 1..(n - 1) \/ i = w
    BY <1>1, <2>1
  <2> QED BY <1>1, <1>2, <2>1, <2>3, <2>4, <2>5 DEF Ordered, w, after
<1> QED BY <1>1, <1>4, <1>5

\* A migration copies the newest records in their order.
LEMMA OrderedMigrated ==
  ASSUME NEW h \in Header, Consistent(h), NEW s, NEW done, Ordered(h, s, done),
         NEW n \in Capacities, NEW len, len = Len(ReadSlots(h, s, n))
  PROVE  Ordered(MigratedHeader(n, len),
                 [i \in Slots(n) |-> IF i < len THEN ReadSlots(h, s, n)[i + 1] ELSE Hole],
                 done)
<1> DEFINE v == h.valid_count
           recs == ReadSlots(h, s, n)
           after == MigratedHeader(n, len)
           s2 == [i \in Slots(n) |-> IF i < len THEN recs[i + 1] ELSE Hole]
<1>1. n \in Nat /\ v \in Nat
  BY CapacityPositive, HeaderFields
<1>2. PICK count \in 0..v : /\ count <= n
                            /\ recs = [i \in 1..count |-> s[Place(h, v - count + i)]]
  BY <1>1, ReadPlaces
<1>3. len = count /\ len \in 0..n
  BY <1>1, <1>2
<1>4. after.valid_count = len /\ \A i \in 1..len : Place(after, i) = i - 1
  BY <1>3, MigratedPlaces
<1>5. \A i \in 1..len : recs[i] = s[Place(h, v - len + i)]
  BY <1>2, <1>3
<1> HIDE DEF recs, after
<1>6. \A i \in 1..len : i - 1 \in Slots(n) /\ i - 1 < len /\ (i - 1) + 1 = i
  BY <1>1, <1>3 DEF Slots
<1>7. \A i \in 1..len : s2[Place(after, i)] = s[Place(h, v - len + i)]
  BY <1>4, <1>5, <1>6
<1> HIDE DEF s2, v
<1>8. \A i \in 1..len : /\ v - len + i \in 1..v
                        /\ i # 1 => v - len + i \in 2..v
                        /\ \A j \in 1..len : i < j => v - len + i < v - len + j
  BY <1>1, <1>2, <1>3
<1>9. Ordered(after, s2, done)
  BY <1>1, <1>3, <1>4, <1>7, <1>8 DEF Ordered, v
<1> QED BY <1>9 DEF after, s2, recs

\* A ring in order has no hole and nothing that does not decode.
LEMMA OrderedDecodes ==
  ASSUME NEW h \in Header, Consistent(h), NEW s, NEW done, Ordered(h, s, done)
  PROVE  /\ \A limit \in Nat : Decodes(ReadSlots(h, s, limit))
         /\ \A k \in Slots(h.valid_count) : s[k] \in Record
<1>1. h.valid_count \in Nat
  BY HeaderFields
<1>2. ASSUME NEW limit \in Nat PROVE Decodes(ReadSlots(h, s, limit))
  <2>1. PICK count \in 0..h.valid_count :
          ReadSlots(h, s, limit) = [i \in 1..count |-> s[Place(h, h.valid_count - count + i)]]
    BY ReadPlaces
  <2>2. \A i \in 1..count : h.valid_count - count + i \in 1..h.valid_count
    BY <1>1
  <2> QED BY <2>1, <2>2 DEF Decodes, Ordered
<1>3. \A k \in Slots(h.valid_count) : s[k] \in Record
  BY Places DEF Ordered
<1> QED BY <1>2, <1>3

LEMMA OrderInit == Init => OrderInv /\ SyncInv
<1> SUFFICES ASSUME Init PROVE OrderInv /\ SyncInv
  OBVIOUS
<1>1. /\ pc = "idle" /\ ~exists /\ committed = {} /\ record = 0
      /\ \A i \in Slots(header.slot_count) : slots[i] = 0
      /\ synced.header = header /\ header.valid_count = 0
  BY DEF Init, default_ring_header, EmptySlots, Hole
<1>2. NumbersInv /\ ReadInv
  BY <1>1 DEF NumbersInv, ReadInv, Uncommitted
<1> QED BY <1>1, <1>2 DEF OrderInv, SyncInv

LEMMA StepFaults ==
  ASSUME IInv, [Next]_vars, faults' = 0
  PROVE  faults = 0 /\ ~PowerLoss /\ ~ShortWrite
<1>1. faults \in Nat
  BY FaultAssumption DEF IInv, TypeOK
<1>2. ~PowerLoss /\ ~ShortWrite
  BY <1>1 DEF PowerLoss, ShortWrite
<1>3. faults' = faults
  BY <1>2 DEF Next, Open, OpenCreate, OpenQuarantine, OpenExisting, OpenMigrate, Migrate,
     MigrateRename, MigrateFails, Append1, StartAppend, WriteRecord, WriteRecordFails,
     WriteHeader, WriteHeaderFails, SyncData, SyncFails, Load, Start, Kill, Return, vars
<1> QED BY <1>2, <1>3

\* Without torn or lost writes no ring is quarantined.
LEMMA NoQuarantine ==
  ASSUME IInv, OrderInv, faults = 0
  PROVE  /\ ~OpenQuarantine
         /\ OpenMigrate => UNCHANGED exists /\ records' = ReadSlots(header, slots, slot_count)
         /\ Load => UNCHANGED exists
<1>1. /\ header \in Header /\ Consistent(header) /\ (exists => Ordered(header, slots, committed))
      /\ slot_count \in Nat /\ header.slot_count \in Nat /\ header.valid_count \in Nat
  BY CapacityPositive, HeaderFields DEF OrderInv, IInv, TypeOK, HeaderInv
<1>2. ASSUME exists
      PROVE  /\ \A limit \in Nat : Decodes(ReadSlots(header, slots, limit))
             /\ ~MayBeShort
  <2>1. /\ \A limit \in Nat : Decodes(ReadSlots(header, slots, limit))
        /\ \A k \in Slots(header.valid_count) : slots[k] \in Record
    BY <1>1, <1>2, OrderedDecodes
  <2>2. Hole \notin Record
    BY DEF Hole, Record
  <2> QED BY <1>1, <2>1, <2>2 DEF MayBeShort, Slots
<1>3. ~OpenQuarantine
  BY <1>2 DEF OpenQuarantine
<1>4. OpenMigrate => UNCHANGED exists /\ records' = ReadSlots(header, slots, slot_count)
  BY <1>1, <1>2 DEF OpenMigrate
<1>5. Load => UNCHANGED exists
  <2>1. CASE exists
    BY <1>1, <1>2, <2>1 DEF Load
  <2>2. CASE ~exists
    BY <2>2 DEF Load, NoFile, IInv, TypeOK
  <2> QED BY <2>1, <2>2
<1> QED BY <1>3, <1>4, <1>5

LEMMA OrderNext == IInv /\ OrderInv /\ [Next]_vars => OrderInv'
<1> SUFFICES ASSUME IInv, OrderInv, [Next]_vars, faults' = 0
             PROVE  NumbersInv' /\ ReadInv' /\ (exists' => Ordered(header, slots, committed)')
  BY DEF OrderInv
<1>1. faults = 0 /\ ~PowerLoss /\ ~ShortWrite
  BY StepFaults
<1>2. /\ NumbersInv /\ ReadInv /\ (exists => Ordered(header, slots, committed))
      /\ header \in Header /\ Consistent(header) /\ slots \in [Slots(header.slot_count) -> Slot]
      /\ slot_count \in Capacities /\ slot_count \in Nat
      /\ record \in 0..MaxRecords /\ (Appending => record \in Record)
  BY <1>1, CapacityPositive, MaxRecordsAssumption DEF OrderInv, IInv, TypeOK, HeaderInv, Record
\* What a step that leaves the file alone has to show.
<1>4. ASSUME UNCHANGED <<exists, header, slots, committed, record>>,
             pc' = "record" => pc = "record",
             Uncommitted' => Uncommitted /\ (pc = "record" => pc' = "record"),
             ReadInv'
      PROVE  NumbersInv' /\ ReadInv' /\ (exists' => Ordered(header, slots, committed)')
  BY <1>2, <1>4 DEF NumbersInv, Ordered
<1>5. CASE OpenCreate \/ OpenQuarantine
  <2>1. pc = "open" /\ pc' = "opened" /\ UNCHANGED <<committed, record, job>>
        /\ header' = default_ring_header(slot_count) /\ slots' = EmptySlots(slot_count)
    BY <1>5 DEF OpenCreate, OpenQuarantine, Created, Return
  <2>2. header'.valid_count = 0 /\ header'.slot_count = slot_count
        /\ \A i \in Slots(slot_count) : slots'[i] = 0
    BY <2>1 DEF default_ring_header, EmptySlots, Hole
  <2>3. Uncommitted' => Uncommitted /\ record \in Nat /\ record > 0
    BY <1>2, <2>1 DEF Uncommitted, Appending, Record
  <2>4. Ordered(header, slots, committed)'
    BY <2>2 DEF Ordered
  <2>5. NumbersInv'
    BY <1>2, <2>1, <2>2, <2>3 DEF NumbersInv
  <2> QED BY <2>1, <2>4, <2>5 DEF ReadInv
<1>6. CASE OpenExisting
  BY <1>4, <1>6 DEF OpenExisting, Return, Uncommitted, ReadInv
<1>7. CASE OpenMigrate
  <2>1. exists /\ UNCHANGED exists /\ records' = ReadSlots(header, slots, slot_count)
    BY <1>1, <1>7, NoQuarantine DEF OpenMigrate
  <2>2. /\ UNCHANGED <<exists, header, slots, committed, record, job, slot_count>>
        /\ pc = "open" /\ pc' = "migrate"
    BY <1>7, <2>1 DEF OpenMigrate, NoFile, Return
  <2>3. ReadInv'
    BY <2>1, <2>2 DEF ReadInv, ReadSlots
  <2> QED BY <1>4, <2>2, <2>3 DEF Uncommitted
<1>8. CASE MigrateRename
  <2> DEFINE len == Len(records)
  <2>1. /\ exists /\ records = ReadSlots(header, slots, slot_count)
        /\ header' = MigratedHeader(slot_count, len)
        /\ slots' = [i \in Slots(slot_count) |->
                       IF i < len THEN ReadSlots(header, slots, slot_count)[i + 1] ELSE Hole]
        /\ UNCHANGED <<committed, record, job>> /\ pc = "migrate" /\ pc' = "opened"
    BY <1>2, <1>8 DEF MigrateRename, Return, ReadInv
  <2>2. Ordered(header, slots, committed)'
    BY <1>2, <2>1, OrderedMigrated
  <2>3. header'.slot_count = slot_count /\ (Uncommitted' => Uncommitted /\ record > 0)
    BY <1>2, <2>1 DEF MigratedHeader, Uncommitted, Appending, Record
  <2>4. \A i \in 1..len : \E k \in Slots(header.slot_count) : records[i] = slots[k]
    <3>1. PICK count \in 0..header.valid_count :
            records = [i \in 1..count |-> slots[Place(header, header.valid_count - count + i)]]
      BY <1>2, <2>1, ReadPlaces
    <3>2. len = count /\ header.valid_count \in 0..header.slot_count /\ header.slot_count \in Nat
      BY <1>2, <3>1, HeaderFields
    <3> SUFFICES ASSUME NEW i \in 1..len
                 PROVE  Place(header, header.valid_count - count + i) \in Slots(header.slot_count)
      BY <3>1, <3>2
    <3>3. header.valid_count - count + i \in 1..header.valid_count
      BY <3>2
    <3>4. Place(header, header.valid_count - count + i) \in Slots(header.valid_count)
      BY <1>2, <3>3, Places
    <3> QED BY <3>2, <3>4 DEF Slots
  <2>5. \A i \in Slots(slot_count) :
          slots'[i] = Hole \/ \E k \in Slots(header.slot_count) : slots'[i] = slots[k]
    <3> SUFFICES ASSUME NEW i \in Slots(slot_count), i < len
                 PROVE  \E k \in Slots(header.slot_count) : records[i + 1] = slots[k]
      BY <2>1
    <3>1. i + 1 \in 1..len
      BY DEF Slots, IInv, TypeOK
    <3> QED BY <2>4, <3>1
  <2>6. NumbersInv'
    BY <1>2, <2>1, <2>3, <2>5 DEF NumbersInv, Hole
  <2> QED BY <2>1, <2>2, <2>6 DEF ReadInv
<1>9. CASE StartAppend
  <2>1. /\ UNCHANGED <<exists, header, slots, committed>> /\ record' = record + 1
        /\ pc' = "open"
    BY <1>9 DEF StartAppend
  <2>2. ASSUME NEW i \in Slots(header.slot_count)
        PROVE  slots[i] <= record + 1 /\ slots[i] < record + 1
    <3>1. slots[i] \in Int /\ slots[i] <= record /\ record \in Int
      BY <1>2 DEF NumbersInv, Slot, Hole, Torn, Record
    <3> QED BY <3>1
  <2>3. NumbersInv'
    BY <1>2, <2>1, <2>2 DEF NumbersInv
  <2> QED BY <1>2, <2>1, <2>3 DEF ReadInv
<1>10. CASE WriteRecord
  <2>1. /\ pc = "opened" /\ job = "append" /\ pc' = "record" /\ job' = job
        /\ slots' = [slots EXCEPT ![header.write_pos] = record]
        /\ UNCHANGED <<exists, header, committed, record>>
    BY <1>10 DEF WriteRecord, Return
  <2>2. Uncommitted /\ record \in Record /\ record \notin committed
    BY <1>2, <2>1 DEF Uncommitted, Appending, NumbersInv
  <2>3. header.write_pos \in Slots(header.slot_count)
    BY <1>2, HeaderFields DEF Slots
  <2>4. exists' => Ordered(header, slots, committed)'
    BY <1>2, <2>1, <2>2, OrderedWritten
  <2>5. NumbersInv'
    <3>1. \A i \in Slots(header.slot_count) :
            slots'[i] = IF i = header.write_pos THEN record ELSE slots[i]
      BY <1>2, <2>1
    <3>2. record <= record
      BY <2>2 DEF Record
    <3> QED BY <1>2, <2>1, <2>2, <2>3, <3>1, <3>2 DEF NumbersInv
  <2> QED BY <2>1, <2>4, <2>5 DEF ReadInv
<1>11. CASE WriteHeader
  <2>1. /\ pc = "record" /\ pc' = "header" /\ job' = job
        /\ header' = AdvancedHeader(header) /\ committed' = committed \cup {record}
        /\ UNCHANGED <<exists, slots, record>>
    BY <1>11 DEF WriteHeader, Return
  <2>2. /\ record \in Record /\ slots[header.write_pos] = record /\ ~Uncommitted'
        /\ \A k \in Slots(header.slot_count) : k # header.write_pos => slots[k] < record
    BY <1>2, <2>1 DEF Uncommitted, Appending, NumbersInv
  <2>3. exists' => Ordered(header, slots, committed)'
    BY <1>2, <2>1, <2>2, OrderedCommitted
  <2>4. header'.slot_count = header.slot_count
    BY <1>2, <2>1, AdvancedConsistent
  <2>5. NumbersInv'
    BY <1>2, <2>1, <2>2, <2>4 DEF NumbersInv, Record
  <2> QED BY <2>1, <2>3, <2>5 DEF ReadInv
<1>12. CASE MigrateFails \/ WriteRecordFails \/ WriteHeaderFails \/ SyncData \/ SyncFails \/ Kill
  BY <1>4, <1>12 DEF MigrateFails, WriteRecordFails, WriteHeaderFails, SyncData, SyncFails,
     Kill, Return, Uncommitted, ReadInv
<1>13. CASE Load
  <2>1. UNCHANGED exists
    BY <1>1, <1>13, NoQuarantine
  <2> QED BY <1>4, <1>13, <2>1 DEF Load, NoFile, Return, Uncommitted, ReadInv
<1>14. ASSUME NEW n \in Capacities, Start(n)
       PROVE  NumbersInv' /\ ReadInv' /\ (exists' => Ordered(header, slots, committed)')
  BY <1>4, <1>14 DEF Start, Uncommitted, ReadInv
<1>15. CASE UNCHANGED vars
  BY <1>2, <1>4, <1>15 DEF vars, Uncommitted, ReadInv, ReadSlots
<1> QED
  BY <1>1, <1>5, <1>6, <1>7, <1>8, <1>9, <1>10, <1>11, <1>12, <1>13, <1>14, <1>15
  DEF Next, Open, Migrate, Append1

LEMMA SyncNext == IInv /\ SyncInv /\ [Next]_vars => SyncInv'
<1> SUFFICES ASSUME IInv, SyncInv, [Next]_vars PROVE SyncInv'
  OBVIOUS
<1>1. /\ header \in Header /\ Consistent(header)
      /\ synced.header.valid_count \in Nat
  BY DEF IInv, TypeOK, HeaderInv, Header
<1>2. ASSUME header'.valid_count \in Nat, synced'.header = header' PROVE SyncInv'
  BY <1>2 DEF SyncInv
<1>3. CASE UNCHANGED <<header, synced>>
  BY <1>3 DEF SyncInv
<1>4. CASE WriteHeader
  <2>1. header'.valid_count \in Nat /\ header'.valid_count >= header.valid_count
        /\ header.valid_count \in Nat
    BY <1>1, <1>4, HeaderFields DEF WriteHeader, AdvancedHeader, Header
  <2> QED BY <1>1, <1>4, <2>1 DEF SyncInv, WriteHeader
<1>5. CASE OpenCreate \/ OpenQuarantine \/ MigrateRename \/ SyncData \/ PowerLoss
  <2>1. synced'.header = header'
    BY <1>5 DEF OpenCreate, OpenQuarantine, Created, MigrateRename, SyncData, PowerLoss
  <2>2. IInv'
    BY IInvNext
  <2> QED BY <1>2, <2>1, <2>2 DEF IInv, TypeOK, Header
<1> QED
  BY <1>3, <1>4, <1>5 DEF Next, Open, OpenExisting, OpenMigrate, NoFile, Migrate, MigrateFails,
     Append1, StartAppend, WriteRecord, WriteRecordFails, ShortWrite, WriteHeaderFails,
     SyncFails, Load, Start, Kill, vars

LEMMA RingAlways == Spec => [](IInv /\ OrderInv /\ SyncInv)
<1>1. Spec => []IInv
  BY IInvInit, IInvNext, PTL DEF Spec
<1> QED BY <1>1, OrderInit, OrderNext, SyncNext, PTL DEF Spec

\* What a reader of the whole file gets, by place.
LEMMA ReadAll ==
  ASSUME NEW h \in Header, Consistent(h), NEW s
  PROVE  ReadSlots(h, s, h.slot_count) = [i \in 1..h.valid_count |-> s[Place(h, i)]]
<1>1. h.slot_count \in Nat /\ h.valid_count \in 0..h.slot_count
  BY HeaderFields
<1>2. ASSUME NEW limit \in Nat, limit = h.slot_count
      PROVE  ReadSlots(h, s, limit) = [i \in 1..h.valid_count |-> s[Place(h, i)]]
  <2>1. PICK count \in 0..h.valid_count :
          /\ count = IF h.valid_count < limit THEN h.valid_count ELSE limit
          /\ ReadSlots(h, s, limit) =
               [i \in 1..count |-> s[Place(h, h.valid_count - count + i)]]
    BY ReadPlaces
  <2>2. count = h.valid_count /\ \A i \in 1..count : h.valid_count - count + i = i
    BY <1>1, <1>2, <2>1
  <2> QED BY <2>1, <2>2
<1> QED BY <1>1, <1>2

\* A reader gets the committed records oldest first, whatever the capacities
\* and however many wraps, migrations, failed writes and kills there were.
THEOREM ChronologicalHolds == Spec => []Chronological
<1>1. ASSUME IInv, OrderInv PROVE Chronological
  <2> SUFFICES ASSUME faults = 0, NEW i \in DOMAIN Contents, NEW j \in DOMAIN Contents,
                      i < j, Contents[i] \in committed
               PROVE  Contents[i] < Contents[j]
    BY DEF Chronological
  <2>1. exists
    BY DEF Contents
  <2>2. header \in Header /\ Consistent(header) /\ Ordered(header, slots, committed)
    BY <1>1, <2>1 DEF IInv, TypeOK, HeaderInv, OrderInv
  <2>3. Contents = [k \in 1..header.valid_count |-> slots[Place(header, k)]]
    BY <2>1, <2>2, ReadAll DEF Contents
  <2> QED BY <2>2, <2>3 DEF Ordered
<1> QED BY <1>1, RingAlways, PTL

\* A power loss costs at most the slots written since the last sync: whichever
\* of the two headers survives, it still reaches every slot that was synced.
THEOREM PowerLossIsLocalHolds == Spec => PowerLossIsLocal
<1> DEFINE Local ==
      PowerLoss /\ exists /\ Decodes(Contents') =>
        \A i \in Slots(synced.header.valid_count) :
          slots[i] = synced.slots[i] => synced.slots[i] \in Readable'
<1>1. ASSUME IInv, SyncInv, [Next]_vars PROVE Local
  <2> SUFFICES ASSUME PowerLoss, exists, NEW i \in Slots(synced.header.valid_count),
                      slots[i] = synced.slots[i]
               PROVE  synced.slots[i] \in Readable'
    OBVIOUS
  <2>1. exists' /\ header' \in Header /\ Consistent(header')
        /\ header'.valid_count \in Nat /\ header.slot_count \in Nat
        /\ header.valid_count \in 0..header.slot_count
        /\ synced.header.valid_count \in Nat
    BY <1>1, IInvNext, HeaderFields DEF PowerLoss, IInv, TypeOK, HeaderInv, Header
  <2>2. synced.header.valid_count <= header'.valid_count
    BY <1>1, <2>1 DEF PowerLoss, SyncInv
  <2>3. i \in Slots(header'.valid_count) /\ i \in Slots(header.slot_count)
    BY <1>1, <2>1, <2>2 DEF Slots, SyncInv
  <2>4. slots'[i] = slots[i]
    BY <2>3 DEF PowerLoss
  <2>5. PICK k \in 1..header'.valid_count : Place(header', k) = i
    BY <2>1, <2>3, Places
  <2>6. ReadSlots(header', slots', header'.slot_count) =
          [j \in 1..header'.valid_count |-> slots'[Place(header', j)]]
    BY <2>1, ReadAll
  <2>7. Contents' = [j \in 1..header'.valid_count |-> slots'[Place(header', j)]]
    BY <2>1, <2>6 DEF Contents
  <2>8. Contents'[k] = slots'[i] /\ k \in DOMAIN Contents'
    BY <2>5, <2>7
  <2> QED BY <2>4, <2>8 DEF Readable
<1>2. PowerLossIsLocal <=> [][Local]_vars
  BY DEF PowerLossIsLocal
<1> QED BY <1>1, <1>2, RingAlways, PTL DEF Spec

-----------------------------------------------------------------------------
(***************************************************************************)
(* The ring implements RecentRecords.  The committed records among the     *)
(* readable ones are listed in increasing order by their places, so the n  *)
(* newest of them are those at the last n places.                          *)
(***************************************************************************)
\* f lists the members of T, each once, from place a to place b.
Lists(f, a, b, T) ==
  /\ \A i, j \in a..b : f[i] = f[j] => i = j
  /\ \A t : t \in T <=> \E i \in a..b : t = f[i]

LEMMA ImageOfInterval ==
  ASSUME NEW a \in Nat, NEW b \in Nat, a <= b + 1, NEW f, NEW T, Lists(f, a, b, T)
  PROVE  Cardinality(T) = b - a + 1
<1> DEFINE g == [i \in a..b |-> f[i]]
<1>1. IsFiniteSet(a..b) /\ Cardinality(a..b) = b - a + 1
  BY FS_Interval
<1>2. g \in [a..b -> T] /\ (\A i, j \in a..b : g[i] = g[j] => i = j)
      /\ \A t \in T : \E i \in a..b : g[i] = t
  BY DEF Lists
<1>3. g \in Bijection(a..b, T)
  BY <1>2 DEF Bijection, Injection, Surjection, IsInjective
<1> QED BY <1>1, <1>3, FS_Bijection DEF ExistsBijection

\* The cardinality RecentRecords speaks of is the one of FiniteSets.
LEMMA SameCardinality ==
  ASSUME NEW S
  PROVE  Ring!Cardinality(S) = Cardinality(S)
  BY Zenon DEF Ring!Cardinality, Cardinality

\* S is what f lists of done, in increasing order: all of f but perhaps its first.
Increases(f, v, done, S) ==
  /\ \A i \in 2..v : f[i] \in done
  /\ \A i, j \in 1..v : i < j /\ f[i] \in done => f[i] < f[j]
  /\ \A r : r \in S <=> r \in done /\ \E i \in 1..v : r = f[i]

LEMMA NewestByPlace ==
  ASSUME NEW v \in Nat, NEW f \in [1..v -> Int], NEW done, NEW n \in Nat,
         NEW S, Increases(f, v, done, S)
  PROVE  \A r : r \in Ring!Newest(S, n) <=>
           r \in done /\ \E i \in 1..v : v - i < n /\ r = f[i]
<1> USE DEF Increases
<1>1. ASSUME NEW i \in 1..v, f[i] \in done
      PROVE  Cardinality({q \in S : q > f[i]}) = v - i
  <2> DEFINE a == i + 1
             T == {q \in S : q > f[i]}
  <2>1. a \in Nat /\ a <= v + 1 /\ v - a + 1 = v - i
    OBVIOUS
  <2>2. \A j \in a..v : j \in 1..v /\ j \in 2..v /\ i < j
    OBVIOUS
  <2>3. \A j \in a..v : f[j] \in done /\ f[j] > f[i] /\ f[j] \in Int
    BY <1>1, <2>2
  <2>4. ASSUME NEW j \in 1..v, f[j] \in done, f[j] > f[i] PROVE j \in a..v
    <3>1. ~(j < i) /\ j # i
      BY <2>4
    <3> QED BY <3>1
  <2> HIDE DEF a
  <2>5. \A q : q \in T <=> \E j \in a..v : q = f[j]
    BY <2>2, <2>3, <2>4
  <2>6. \A j, k \in a..v : f[j] = f[k] => j = k
    <3> SUFFICES ASSUME NEW j \in a..v, NEW k \in a..v, j < k PROVE f[j] # f[k]
      BY <2>1
    <3>1. f[j] < f[k] /\ f[j] \in Int /\ f[k] \in Int
      BY <2>2, <2>3
    <3> QED BY <3>1
  <2> HIDE DEF T
  <2>7. Lists(f, a, v, T)
    BY <2>5, <2>6 DEF Lists
  <2>8. Cardinality(T) = v - a + 1
    BY <2>1, <2>7, ImageOfInterval
  <2> QED BY <2>1, <2>8 DEF T
<1>2. ASSUME NEW r \in S, Cardinality({q \in S : q > r}) < n
      PROVE  \E i \in 1..v : v - i < n /\ r = f[i]
  <2>1. PICK i \in 1..v : r = f[i]
    OBVIOUS
  <2> QED BY <1>1, <1>2, <2>1
<1>3. ASSUME NEW i \in 1..v, v - i < n, f[i] \in done
      PROVE  f[i] \in S /\ Cardinality({q \in S : q > f[i]}) < n
  BY <1>1, <1>3
<1>4. Ring!Newest(S, n) = {r \in S : Cardinality({q \in S : q > r}) < n}
  BY SameCardinality DEF Ring!Newest
<1> QED BY <1>2, <1>3, <1>4

LEMMA CountByPlace ==
  ASSUME NEW v \in Nat, NEW f \in [1..v -> Int], NEW done,
         NEW S, Increases(f, v, done, S)
  PROVE  Cardinality(S)
           = IF v > 0 /\ f[1] \notin done THEN v - 1 ELSE v
<1> USE DEF Increases
<1>1. PICK lo \in 1..2 : lo = IF v > 0 /\ f[1] \notin done THEN 2 ELSE 1
  OBVIOUS
<1>2. lo \in Nat /\ lo <= v + 1
  BY <1>1
<1>3. \A i \in lo..v : i \in 1..v /\ f[i] \in done /\ f[i] \in Int
  <2> SUFFICES ASSUME NEW i \in lo..v PROVE i \in 1..v /\ f[i] \in done /\ f[i] \in Int
    OBVIOUS
  <2>1. i \in 1..v /\ v > 0 /\ (i = 1 \/ i \in 2..v)
    BY <1>1
  <2> QED BY <1>1, <2>1
<1>4. \A r : r \in S <=> \E i \in lo..v : r = f[i]
  <2>1. ASSUME NEW i \in 1..v, f[i] \in done PROVE i \in lo..v
    BY <1>1, <2>1
  <2> QED BY <1>3, <2>1
<1>5. \A i, j \in lo..v : f[i] = f[j] => i = j
  <2> SUFFICES ASSUME NEW i \in lo..v, NEW j \in lo..v, i < j PROVE f[i] # f[j]
    BY <1>2
  <2>1. f[i] < f[j] /\ f[i] \in Int /\ f[j] \in Int
    BY <1>3
  <2> QED BY <2>1
<1>6. Cardinality(S) = v - lo + 1
  <2>1. Lists(f, lo, v, S)
    BY <1>4, <1>5 DEF Lists
  <2> QED BY <1>2, <2>1, ImageOfInterval
<1>7. v - lo + 1 = IF v > 0 /\ f[1] \notin done THEN v - 1 ELSE v
  BY <1>1
<1> QED BY <1>6, <1>7, Zenon

\* The committed records a reader of the ring finds.
View(h, s, done) == {s[Place(h, i)] : i \in 1..h.valid_count} \cap done

LEMMA ReadableView ==
  ASSUME NEW h \in Header, Consistent(h), NEW s, NEW done
  PROVE  LET seq == ReadSlots(h, s, h.slot_count)
         IN  {seq[i] : i \in DOMAIN seq} \cap done = View(h, s, done)
<1>1. ReadSlots(h, s, h.slot_count) = [i \in 1..h.valid_count |-> s[Place(h, i)]]
  BY ReadAll
<1> QED BY <1>1 DEF View

\* The n newest of them are at the last n places.
LEMMA ViewNewest ==
  ASSUME NEW h \in Header, Consistent(h), NEW s, NEW done, Ordered(h, s, done), NEW n \in Nat
  PROVE  /\ \A r : r \in Ring!Newest(View(h, s, done), n) <=>
              r \in done /\ \E i \in 1..h.valid_count :
                             h.valid_count - i < n /\ r = s[Place(h, i)]
         /\ Cardinality(View(h, s, done)) =
              IF h.valid_count > 0 /\ s[Place(h, 1)] \notin done
                THEN h.valid_count - 1 ELSE h.valid_count
<1> DEFINE v == h.valid_count
           f == [i \in 1..v |-> s[Place(h, i)]]
           S == {f[i] : i \in 1..v} \cap done
<1>1. v \in Nat
  BY HeaderFields
<1>2. \A i \in 1..v : f[i] = s[Place(h, i)]
  OBVIOUS
<1>3. f \in [1..v -> Int]
  BY DEF Ordered, Record
<1>4. S = View(h, s, done)
  BY <1>2 DEF View
<1> HIDE DEF f
<1>5. /\ \A i \in 2..v : f[i] \in done
      /\ \A i, j \in 1..v : i < j /\ f[i] \in done => f[i] < f[j]
  <2>1. \A i \in 2..v : i \in 1..v
    BY <1>1
  <2> QED BY <1>2, <2>1 DEF Ordered
<1>6. Increases(f, v, done, S)
  BY <1>5 DEF Increases
<1> HIDE DEF v, S
<1>7. \A r : r \in Ring!Newest(S, n) <=>
        r \in done /\ \E i \in 1..v : v - i < n /\ r = f[i]
  BY <1>1, <1>3, <1>6, NewestByPlace
<1>8. Cardinality(S) = IF v > 0 /\ f[1] \notin done THEN v - 1 ELSE v
  BY <1>1, <1>3, <1>6, CountByPlace
<1>9. v > 0 => f[1] = s[Place(h, 1)]
  BY <1>1, <1>2
<1>10. \A r : r \in Ring!Newest(View(h, s, done), n) <=>
         r \in done /\ \E i \in 1..v : v - i < n /\ r = s[Place(h, i)]
  BY <1>2, <1>4, <1>7
<1> QED BY <1>4, <1>8, <1>9, <1>10 DEF v

\* An append that writes its record costs the oldest record of a full ring,
\* and nothing where there is room.
LEMMA ViewWritten ==
  ASSUME NEW h \in Header, Consistent(h), NEW s \in [Slots(h.slot_count) -> Slot],
         NEW done, Ordered(h, s, done), NEW r, r \notin done
  PROVE  LET before == View(h, s, done)
             after == View(h, [s EXCEPT ![h.write_pos] = r], done)
         IN  \/ after = before
             \/ /\ Cardinality(before) = h.slot_count
                /\ after = Ring!Newest(before, h.slot_count - 1)
<1> DEFINE v == h.valid_count
           n == h.slot_count
           s2 == [s EXCEPT ![h.write_pos] = r]
<1>1. n \in Nat \ {0} /\ v \in 0..n
  BY HeaderFields
<1>2. \A i \in 1..v : Place(h, i) \in DOMAIN s
  BY <1>1, Places DEF Slots
<1>3. \A i \in 1..v : s2[Place(h, i)] = IF v = n /\ i = 1 THEN r ELSE s[Place(h, i)]
  BY <1>2, Places
<1> HIDE DEF s2
<1>4. CASE v < n \/ s[Place(h, 1)] \notin done
  <2>1. \A i \in 1..v : s2[Place(h, i)] = s[Place(h, i)]
          \/ (s2[Place(h, i)] \notin done /\ s[Place(h, i)] \notin done)
    BY <1>1, <1>3, <1>4
  <2>2. View(h, s2, done) = View(h, s, done)
    BY <2>1 DEF View
  <2> QED BY <2>2 DEF s2
<1>5. CASE v = n /\ s[Place(h, 1)] \in done
  <2>1. Cardinality(View(h, s, done)) = n
    BY <1>1, <1>5, ViewNewest
  <2>2. n - 1 \in Nat
    BY <1>1
  <2>3. \A x : x \in Ring!Newest(View(h, s, done), n - 1) <=>
          x \in done /\ \E i \in 1..v : v - i < n - 1 /\ x = s[Place(h, i)]
    BY <2>2, ViewNewest
  <2>4. \A i \in 1..v : v - i < n - 1 <=> i # 1
    BY <1>1, <1>5
  <2>5. \A x : x \in View(h, s2, done) <=> x \in done /\ \E i \in 1..v : i # 1 /\ x = s[Place(h, i)]
    BY <1>3, <1>5 DEF View
  <2>6. View(h, s2, done) = Ring!Newest(View(h, s, done), n - 1)
    BY <2>3, <2>4, <2>5
  <2> QED BY <2>1, <2>6 DEF s2
<1> QED BY <1>1, <1>4, <1>5

\* The header that follows it adds the new record, and there is room for it.
LEMMA ViewCommitted ==
  ASSUME NEW h \in Header, Consistent(h), NEW s, NEW done, Ordered(h, s, done),
         NEW r \in Record, r \notin done, s[h.write_pos] = r,
         \A k \in Slots(h.slot_count) : k # h.write_pos => s[k] < r
  PROVE  /\ View(AdvancedHeader(h), s, done \cup {r}) = View(h, s, done) \cup {r}
         /\ Cardinality(View(h, s, done)) < h.slot_count
         /\ \A q \in View(h, s, done) : q < r
<1> DEFINE v == h.valid_count
           n == h.slot_count
           after == AdvancedHeader(h)
           w == after.valid_count
<1>1. n \in Nat \ {0} /\ v \in 0..n
  BY HeaderFields
<1>2. Place(after, w) = h.write_pos
  BY AdvancedPlaces
<1>3. \A i \in 1..v : /\ Place(h, i) \in Slots(n)
                      /\ v < n \/ i # 1 => s[Place(h, i)] < r /\ s[Place(h, i)] # r
                      /\ v = n /\ i = 1 => s[Place(h, i)] = r
  <2>1. \A i \in 1..v : Place(h, i) \in Slots(n) /\ (Place(h, i) = h.write_pos <=> v = n /\ i = 1)
    BY <1>1, Places DEF Slots
  <2>2. \A i \in 1..v : s[Place(h, i)] \in Record
    BY DEF Ordered
  <2>3. \A x \in Record : x < r => x # r
    BY DEF Record
  <2>4. ASSUME NEW i \in 1..v, v = n /\ i = 1 PROVE s[Place(h, i)] = r
    BY <2>1, <2>4
  <2>5. ASSUME NEW i \in 1..v, v < n \/ i # 1
        PROVE  s[Place(h, i)] < r /\ s[Place(h, i)] # r
    <3>1. Place(h, i) # h.write_pos
      BY <1>1, <2>1, <2>5
    <3> QED BY <2>1, <2>2, <2>3, <3>1
  <2> QED BY <2>1, <2>4, <2>5
<1>4. \A q \in View(h, s, done) : q < r
  BY <1>1, <1>3 DEF View
<1>5. Cardinality(View(h, s, done)) < n
  <2>1. Cardinality(View(h, s, done)) =
          IF v > 0 /\ s[Place(h, 1)] \notin done THEN v - 1 ELSE v
    BY ViewNewest, 0 \in Nat
  <2>2. v = n => s[Place(h, 1)] \notin done
    BY <1>1, <1>3
  <2> QED BY <1>1, <2>1, <2>2
<1>6. \A x : x \in View(after, s, done \cup {r}) <=> x \in View(h, s, done) \/ x = r
  <2>1. CASE v < n
    <3>1. w = v + 1 /\ \A i \in 1..v : Place(after, i) = Place(h, i)
      BY <2>1, AdvancedPlaces
    <3> HIDE DEF after, w, v
    <3>2. \A i : i \in 1..w <=> i \in 1..v \/ i = w
      BY <1>1, <3>1
    <3>3. \A x : (\E i \in 1..w : x = s[Place(after, i)]) <=>
                   x = r \/ \E i \in 1..v : x = s[Place(h, i)]
      BY <1>2, <3>1, <3>2
    <3> QED BY <1>3, <3>3 DEF View, v, w
  <2>2. CASE v = n
    <3>1. w = n /\ \A i \in 1..(n - 1) : Place(after, i) = Place(h, i + 1)
      BY <2>2, AdvancedPlaces
    <3> HIDE DEF after, w, v, n
    <3>2. \A i : i \in 1..w <=> i \in 1..(n - 1) \/ i = w
      BY <1>1, <3>1
    <3>3. /\ \A i \in 1..(n - 1) : i + 1 \in 1..v
          /\ \A i \in 1..v : i = 1 \/ (i - 1 \in 1..(n - 1) /\ (i - 1) + 1 = i)
      BY <1>1, <2>2
    <3>4. 1 \in 1..v /\ s[Place(h, 1)] = r
      BY <1>1, <1>3, <2>2
    <3>5. \A x : (\E i \in 1..w : x = s[Place(after, i)]) <=>
                   \E i \in 1..v : x = s[Place(h, i)]
      <4>1. ASSUME NEW i \in 1..w PROVE \E j \in 1..v : s[Place(after, i)] = s[Place(h, j)]
        BY <1>2, <3>1, <3>2, <3>3, <3>4
      <4>2. ASSUME NEW j \in 1..v PROVE \E i \in 1..w : s[Place(after, i)] = s[Place(h, j)]
        <5>1. CASE j = 1
          BY <1>2, <3>2, <3>4, <5>1, w \in 1..w
        <5>2. CASE j # 1
          BY <3>1, <3>2, <3>3, <5>2
        <5> QED BY <5>1, <5>2
      <4> QED BY <4>1, <4>2
    <3> QED BY <3>4, <3>5 DEF View, v, w
  <2> QED BY <1>1, <2>1, <2>2
<1> QED BY <1>4, <1>5, <1>6

\* A migration keeps the newest records the new capacity has room for.
LEMMA ViewMigrated ==
  ASSUME NEW h \in Header, Consistent(h), NEW s, NEW done, Ordered(h, s, done),
         NEW n \in Capacities, NEW len, len = Len(ReadSlots(h, s, n))
  PROVE  View(MigratedHeader(n, len),
              [i \in Slots(n) |-> IF i < len THEN ReadSlots(h, s, n)[i + 1] ELSE Hole],
              done)
           = Ring!Newest(View(h, s, done), n)
<1> DEFINE v == h.valid_count
           recs == ReadSlots(h, s, n)
           after == MigratedHeader(n, len)
           s2 == [i \in Slots(n) |-> IF i < len THEN recs[i + 1] ELSE Hole]
<1>1. n \in Nat /\ v \in Nat
  BY CapacityPositive, HeaderFields
<1>2. PICK count \in 0..v : /\ count = IF v < n THEN v ELSE n
                            /\ recs = [i \in 1..count |-> s[Place(h, v - count + i)]]
  BY <1>1, ReadPlaces
<1>3. len = count /\ len \in 0..n
  BY <1>1, <1>2
<1>4. after.valid_count = len /\ \A i \in 1..len : Place(after, i) = i - 1
  BY <1>3, MigratedPlaces
<1>5. \A i \in 1..len : recs[i] = s[Place(h, v - len + i)]
  BY <1>2, <1>3
<1>6. \A x : x \in Ring!Newest(View(h, s, done), n) <=>
        x \in done /\ \E i \in 1..v : v - i < n /\ x = s[Place(h, i)]
  BY <1>1, ViewNewest
<1> HIDE DEF recs, after
<1>7. \A i \in 1..len : i - 1 \in Slots(n) /\ i - 1 < len /\ (i - 1) + 1 = i
  BY <1>1, <1>3 DEF Slots
<1>8. \A i \in 1..len : s2[Place(after, i)] = s[Place(h, v - len + i)]
  BY <1>4, <1>5, <1>7
<1> HIDE DEF s2, v
<1>9. /\ \A i \in 1..len : v - len + i \in 1..v /\ v - (v - len + i) < n
      /\ \A j \in 1..v : v - j < n => j - (v - len) \in 1..len /\ v - len + (j - (v - len)) = j
  BY <1>1, <1>2, <1>3
<1>10. \A x : x \in View(after, s2, done) <=>
         x \in done /\ \E i \in 1..len : x = s[Place(h, v - len + i)]
  BY <1>4, <1>8 DEF View
<1>11. \A x : (\E i \in 1..len : x = s[Place(h, v - len + i)]) <=>
              \E j \in 1..v : v - j < n /\ x = s[Place(h, j)]
  <2>1. ASSUME NEW i \in 1..len
        PROVE  \E j \in 1..v : v - j < n /\ s[Place(h, v - len + i)] = s[Place(h, j)]
    BY <1>9
  <2>2. ASSUME NEW j \in 1..v, v - j < n
        PROVE  \E i \in 1..len : s[Place(h, j)] = s[Place(h, v - len + i)]
    BY <1>9, <2>2
  <2> QED BY <2>1, <2>2
<1>12. View(after, s2, done) = Ring!Newest(View(h, s, done), n)
  BY <1>6, <1>10, <1>11
<1> QED BY <1>12 DEF after, s2, recs

-----------------------------------------------------------------------------
Kept == Readable \cap committed
Capacity == IF exists THEN header.slot_count ELSE slot_count

LEMMA KeptView ==
  IInv => Kept = IF exists THEN View(header, slots, committed) ELSE {}
<1> SUFFICES ASSUME IInv PROVE Kept = IF exists THEN View(header, slots, committed) ELSE {}
  OBVIOUS
<1>1. header \in Header /\ Consistent(header)
  BY DEF IInv, TypeOK, HeaderInv
<1>2. CASE exists
  <2> DEFINE seq == ReadSlots(header, slots, header.slot_count)
  <2>1. Contents = seq
    BY <1>2 DEF Contents
  <2>2. {seq[i] : i \in DOMAIN seq} \cap committed = View(header, slots, committed)
    BY <1>1, ReadableView
  <2> QED BY <1>2, <2>1, <2>2 DEF Kept, Readable
<1>3. CASE ~exists
  BY <1>3 DEF Kept, Readable, Contents
<1> QED BY <1>2, <1>3

\* Every step without a torn or lost write is a step of RecentRecords or
\* leaves what it speaks of as it is.
LEMMA RingSimulates ==
  ASSUME IInv, OrderInv, [Next]_vars, faults' = 0
  PROVE  \/ \E r \in Record : /\ Cardinality(Kept) < Capacity
                              /\ \A q \in Kept : q < r
                              /\ Kept' = Kept \cup {r}
                              /\ Capacity' = Capacity
         \/ /\ Cardinality(Kept) = Capacity
            /\ Kept' = Ring!Newest(Kept, Capacity - 1)
            /\ Capacity' = Capacity
         \/ \E c \in Capacities : Capacity' = c /\ Kept' = Ring!Newest(Kept, c)
         \/ Kept' = Kept /\ Capacity' = Capacity
<1>0. IInv' /\ OrderInv'
  BY IInvNext, OrderNext
<1>1. /\ Kept = IF exists THEN View(header, slots, committed) ELSE {}
      /\ Kept' = IF exists' THEN View(header', slots', committed') ELSE {}
  <2>1. Kept = IF exists THEN View(header, slots, committed) ELSE {}
    BY KeptView
  <2>2. (IInv => Kept = IF exists THEN View(header, slots, committed) ELSE {})'
    BY KeptView, PTL
  <2> QED BY <1>0, <2>1, <2>2
<1>2. faults = 0 /\ ~PowerLoss /\ ~ShortWrite
  BY StepFaults
<1>3. /\ NumbersInv /\ ReadInv /\ (exists => Ordered(header, slots, committed))
      /\ header \in Header /\ Consistent(header) /\ slots \in [Slots(header.slot_count) -> Slot]
      /\ slot_count \in Capacities
      /\ header.slot_count \in Capacities /\ exists \in BOOLEAN
      /\ (Appending => record \in Record)
  BY <1>2, MaxRecordsAssumption DEF OrderInv, IInv, TypeOK, HeaderInv, Record, Header
<1>4. ASSUME UNCHANGED <<exists, header, slots, committed>>, exists \/ UNCHANGED slot_count
      PROVE  Kept' = Kept /\ Capacity' = Capacity
  BY <1>1, <1>3, <1>4 DEF Capacity
<1>5. CASE OpenCreate \/ OpenQuarantine
  <2>1. ~exists
    BY <1>2, <1>5, NoQuarantine DEF OpenCreate
  <2>2. exists' /\ header' = default_ring_header(slot_count)
    BY <1>5 DEF OpenCreate, OpenQuarantine, Created
  <2>3. header'.valid_count = 0 /\ header'.slot_count = slot_count
    BY <2>2 DEF default_ring_header
  <2>4. Kept' = {} /\ Kept = {}
    BY <1>1, <2>1, <2>2, <2>3 DEF View
  <2> QED BY <1>3, <2>1, <2>2, <2>3, <2>4 DEF Capacity
<1>6. CASE OpenExisting \/ OpenMigrate \/ MigrateFails \/ StartAppend \/ WriteRecordFails
           \/ WriteHeaderFails \/ SyncData \/ SyncFails \/ Load \/ Kill \/ UNCHANGED vars
  <2>1. UNCHANGED exists
    BY <1>2, <1>6, NoQuarantine DEF OpenExisting, MigrateFails, StartAppend, WriteRecordFails,
       WriteHeaderFails, SyncData, SyncFails, Kill, vars
  <2>2. UNCHANGED <<header, slots, committed, slot_count>>
    BY <1>6 DEF OpenExisting, OpenMigrate, NoFile, MigrateFails, StartAppend, WriteRecordFails,
       WriteHeaderFails, SyncData, SyncFails, Load, Kill, Return, vars
  <2> QED BY <1>4, <2>1, <2>2
<1>7. CASE MigrateRename
  <2> DEFINE len == Len(records)
  <2>1. /\ exists /\ exists' /\ records = ReadSlots(header, slots, slot_count)
        /\ header' = MigratedHeader(slot_count, len)
        /\ slots' = [i \in Slots(slot_count) |->
                       IF i < len THEN ReadSlots(header, slots, slot_count)[i + 1] ELSE Hole]
        /\ UNCHANGED committed
    BY <1>3, <1>7 DEF MigrateRename, ReadInv
  <2>2. View(header', slots', committed') = Ring!Newest(View(header, slots, committed), slot_count)
    BY <1>3, <2>1, ViewMigrated
  <2>3. header'.slot_count = slot_count
    BY <2>1 DEF MigratedHeader
  <2> QED BY <1>1, <1>3, <2>1, <2>2, <2>3 DEF Capacity
<1>8. CASE WriteRecord
  <2>1. /\ slots' = [slots EXCEPT ![header.write_pos] = record]
        /\ UNCHANGED <<exists, header, committed, slot_count>>
        /\ pc = "opened" /\ job = "append"
    BY <1>8 DEF WriteRecord, Return
  <2>2. record \notin committed
    BY <1>3, <2>1 DEF NumbersInv, Uncommitted
  <2>3. CASE exists
    <3>1. \/ View(header, slots', committed) = View(header, slots, committed)
          \/ /\ Cardinality(View(header, slots, committed)) = header.slot_count
             /\ View(header, slots', committed) =
                  Ring!Newest(View(header, slots, committed), header.slot_count - 1)
      BY <1>3, <2>1, <2>2, <2>3, ViewWritten
    <3>2. Kept = View(header, slots, committed) /\ Kept' = View(header, slots', committed)
      BY <1>1, <2>1, <2>3
    <3>3. Capacity = header.slot_count /\ Capacity' = Capacity
      BY <1>3, <2>1, <2>3 DEF Capacity
    <3> QED BY <3>1, <3>2, <3>3
  <2>4. CASE ~exists
    BY <1>1, <2>1, <2>4 DEF Capacity
  <2> QED BY <2>3, <2>4
<1>9. CASE WriteHeader
  <2>1. /\ pc = "record"
        /\ header' = AdvancedHeader(header) /\ committed' = committed \cup {record}
        /\ UNCHANGED <<exists, slots, slot_count>>
    BY <1>9 DEF WriteHeader, Return
  <2>2. /\ record \in Record /\ record \notin committed /\ slots[header.write_pos] = record
        /\ \A k \in Slots(header.slot_count) : k # header.write_pos => slots[k] < record
    BY <1>3, <2>1 DEF NumbersInv, Uncommitted, Appending
  <2>3. header'.slot_count = header.slot_count
    BY <1>3, <2>1, AdvancedConsistent
  <2>4. CASE exists
    <3>1. /\ View(header', slots, committed') = View(header, slots, committed) \cup {record}
          /\ Cardinality(View(header, slots, committed)) < header.slot_count
          /\ \A q \in View(header, slots, committed) : q < record
      BY <1>3, <2>1, <2>2, <2>4, ViewCommitted
    <3>2. Kept = View(header, slots, committed) /\ Kept' = View(header', slots, committed')
      BY <1>1, <2>1, <2>4
    <3>3. Capacity = header.slot_count /\ Capacity' = Capacity
      BY <1>3, <2>1, <2>3, <2>4 DEF Capacity
    <3> QED BY <2>2, <3>1, <3>2, <3>3
  <2>5. CASE ~exists
    BY <1>1, <2>1, <2>5 DEF Capacity
  <2> QED BY <2>4, <2>5
<1>10. ASSUME NEW n \in Capacities, Start(n)
       PROVE  \/ \E c \in Capacities : Capacity' = c /\ Kept' = Ring!Newest(Kept, c)
              \/ Kept' = Kept /\ Capacity' = Capacity
  <2>1. slot_count' = n /\ UNCHANGED <<exists, header, slots, committed>>
    BY <1>10 DEF Start
  <2>2. CASE exists
    BY <1>4, <2>1, <2>2
  <2>3. CASE ~exists
    <3>1. Kept = {} /\ Kept' = {} /\ Capacity' = n
      BY <1>1, <2>1, <2>3 DEF Capacity
    <3>2. Ring!Newest(Kept, n) = {}
      BY <3>1 DEF Ring!Newest
    <3> QED BY <3>1, <3>2
  <2> QED BY <2>2, <2>3
<1> QED
  BY <1>2, <1>5, <1>6, <1>7, <1>8, <1>9, <1>10 DEF Next, Open, Migrate, Append1

\* A ring file keeps the newest committed records: as long as no write is torn
\* or lost it implements RecentRecords, through kills, failed writes,
\* interrupted migrations and changes of the configured capacity.
THEOREM KeepsNewestHolds == Spec => KeepsNewest
<1>1. Init => Ring!Init
  BY DEF Init, Ring!Init, Readable, Contents
<1>2. IInv /\ OrderInv /\ [Next]_vars => [faults' = 0 => Ring!Next]_(Ring!vars)
  <2> SUFFICES ASSUME IInv, OrderInv, [Next]_vars, faults' = 0
               PROVE  Ring!Next \/ UNCHANGED Ring!vars
    OBVIOUS
  <2>1. \A r \in Record :
          /\ Cardinality(Kept) < Capacity /\ (\A q \in Kept : q < r)
          /\ Kept' = Kept \cup {r} /\ Capacity' = Capacity
          => Ring!Commit(r)
    BY SameCardinality DEF Ring!Commit, Kept, Capacity
  <2>2. /\ Cardinality(Kept) = Capacity
        /\ Kept' = Ring!Newest(Kept, Capacity - 1) /\ Capacity' = Capacity
        => Ring!DropOldest
    BY SameCardinality DEF Ring!DropOldest, Kept, Capacity
  <2>3. \A c \in Capacities :
          Capacity' = c /\ Kept' = Ring!Newest(Kept, c) => Ring!Resize(c)
    BY DEF Ring!Resize, Kept, Capacity
  <2>4. Kept' = Kept /\ Capacity' = Capacity => UNCHANGED Ring!vars
    BY DEF Ring!vars, Kept, Capacity
  <2> QED BY <2>1, <2>2, <2>3, <2>4, RingSimulates DEF Ring!Next
<1> QED BY <1>1, <1>2, RingAlways, PTL DEF Spec, KeepsNewest
=============================================================================
