------------------------------ MODULE RingFile ------------------------------
(***************************************************************************)
(* One histogram ring file of persistence.rs.  An append opens the ring    *)
(* (creating, quarantining or migrating it), overwrites the slot at        *)
(* write_pos, rewrites the header and syncs; a start of the service opens  *)
(* and reads it.  The service may be killed between any two steps, writes  *)
(* may fail, and a power loss may keep any subset of the pages that were   *)
(* not synced, or tear them.                                               *)
(*                                                                         *)
(* A bucket is its number in the order of the appends.  The record         *)
(* checksum is modelled by what it detects: a slot is a record, Torn, or   *)
(* Hole (never written: beyond the end of the file, or zeros).  Headers    *)
(* are one 32-byte write and are not torn.                                 *)
(***************************************************************************)
EXTENDS Integers, Sequences, FiniteSets

CONSTANTS
  Capacities,  \* slot counts the service may be configured with
  MaxRecords,  \* bound: number of appends
  MaxFaults    \* bound: power losses and writes that tear a slot

ASSUME CapacitiesAssumption == Capacities \subseteq Nat \ {0} /\ Capacities # {}
ASSUME MaxRecordsAssumption == MaxRecords \in Nat
ASSUME FaultAssumption == MaxFaults \in Nat

VARIABLES
  exists,      \* path.exists()
  header,      \* slot_count, write_pos, valid_count
  slots,       \* contents as the kernel shows them
  synced,      \* header and slots as of the last sync
  slot_count,  \* capacity the running service is configured with
  pc, job,     \* step and purpose of the operation in progress
  records,     \* what read_ring_records_limited returned to the migration
  record,      \* number of the record being appended
  committed,   \* history: records whose header was written
  faults       \* history: power losses and torn slots so far

vars == <<exists, header, slots, synced, slot_count, pc, job, records, record,
          committed, faults>>

Hole == 0
Torn == -1
Record == 1..MaxRecords
Slot == Record \cup {Hole, Torn}
Slots(n) == 0..(n - 1)
Header == [slot_count : Capacities, write_pos : Nat, valid_count : Nat]

TypeOK ==
  /\ exists \in BOOLEAN
  /\ header \in Header
  /\ slots \in [Slots(header.slot_count) -> Slot]
  /\ synced.header \in Header
  /\ synced.slots \in [Slots(synced.header.slot_count) -> Slot]
  /\ slot_count \in Capacities
  /\ pc \in {"idle", "open", "migrate", "opened", "record", "header", "down"}
  /\ job \in {"append", "load"}
  /\ records \in Seq(Record)
  /\ record \in 0..MaxRecords
  /\ committed \subseteq Record
  /\ faults \in 0..MaxFaults

default_ring_header(n) == [slot_count |-> n, write_pos |-> 0, valid_count |-> 0]
EmptySlots(n) == [i \in Slots(n) |-> Hole]

Init ==
  /\ exists = FALSE
  /\ slot_count \in Capacities
  /\ header = default_ring_header(slot_count)
  /\ slots = EmptySlots(slot_count)
  /\ synced = [header |-> header, slots |-> slots]
  /\ pc = "idle" /\ job = "append"
  /\ records = <<>> /\ record = 0
  /\ committed = {} /\ faults = 0

-----------------------------------------------------------------------------
(* Reading *)

\* Mutant: the slots are read in the order of the file.
FileOrder(h, count, i) == i

\* The slot indices a reader visits, oldest first.
SlotAt(h, count, i) == (h.write_pos + h.slot_count - count + i) % h.slot_count

ReadSlots(h, s, limit) ==
  LET count == IF h.valid_count < limit THEN h.valid_count ELSE limit
  IN  [i \in 1..count |-> s[SlotAt(h, count, i - 1)]]

Decodes(seq) == \A i \in DOMAIN seq : seq[i] \in Record

\* The positions read_ring_header accepts.
positions_ok(h) == h.write_pos < h.slot_count /\ h.valid_count <= h.slot_count

\* ring_min_size rejects a ring that is not full and whose write position
\* is not its record count; open_or_create_ring then returns the error and
\* can never open the ring again.
ring_size_bounds_ok(h) ==
  h.valid_count = 0 \/ h.valid_count = h.slot_count \/ h.write_pos = h.valid_count

Accepted(h) == positions_ok(h) /\ ring_size_bounds_ok(h)

\* The file may be shorter than its header says only where a valid slot was
\* never written; whether it is depends on the blocks the disk allocated.
MayBeShort == \E i \in Slots(header.slot_count) :
  i < header.valid_count /\ slots[i] = Hole

-----------------------------------------------------------------------------
(* open_or_create_ring *)

NoFile == exists' = FALSE /\ UNCHANGED <<header, slots, synced>>

Created(n) ==
  /\ exists' = TRUE
  /\ header' = default_ring_header(n)
  /\ slots' = EmptySlots(n)
  /\ synced' = [header |-> header', slots |-> slots']

Return(step) == pc' = step /\ UNCHANGED <<slot_count, job, record, faults>>

\* The file is absent: create it with an empty header.
OpenCreate ==
  /\ pc = "open" /\ ~exists
  /\ Created(slot_count)
  /\ Return("opened")
  /\ UNCHANGED <<records, committed>>

\* The file size does not fit the header: quarantine it, create a new one.
OpenQuarantine ==
  /\ pc = "open" /\ exists
  /\ Accepted(header) /\ MayBeShort
  /\ Created(slot_count)
  /\ Return("opened")
  /\ UNCHANGED <<records, committed>>

OpenExisting ==
  /\ pc = "open" /\ exists
  /\ Accepted(header)
  /\ header.slot_count = slot_count
  /\ Return("opened")
  /\ UNCHANGED <<exists, header, slots, synced, records, committed>>

\* Another capacity: decode the newest records before replacing anything.
\* A record that does not decode quarantines the file.
OpenMigrate ==
  LET seq == ReadSlots(header, slots, slot_count) IN
  /\ pc = "open" /\ exists
  /\ Accepted(header)
  /\ header.slot_count # slot_count
  /\ IF Decodes(seq)
       THEN records' = seq /\ UNCHANGED <<exists, header, slots, synced>>
       ELSE records' = <<>> /\ NoFile
  /\ Return("migrate")
  /\ UNCHANGED committed

\* Mutant: the write position of a ring that is migrated full is not wrapped.
UnwrappedHeader(n, len) ==
  [slot_count |-> n, write_pos |-> len, valid_count |-> len]

\* The header of the converted ring.
MigratedHeader(n, len) ==
  [slot_count |-> n, write_pos |-> len % n, valid_count |-> len]

\* The converted ring is written beside the original, synced and renamed
\* over it.
MigrateRename ==
  /\ pc = "migrate"
  /\ exists' = TRUE
  /\ header' = MigratedHeader(slot_count, Len(records))
  /\ slots' = [i \in Slots(slot_count) |->
                 IF i < Len(records) THEN records[i + 1] ELSE Hole]
  /\ synced' = [header |-> header', slots |-> slots']
  /\ records' = <<>>
  /\ Return("opened")
  /\ UNCHANGED committed

\* A failure before the rename removes the temporary file only.
MigrateFails ==
  /\ pc = "migrate"
  /\ records' = <<>>
  /\ Return("idle")
  /\ UNCHANGED <<exists, header, slots, synced, committed>>

-----------------------------------------------------------------------------
(* append_ring_record_with_capacity *)

StartAppend ==
  /\ pc = "idle"
  /\ record < MaxRecords
  /\ record' = record + 1
  /\ pc' = "open" /\ job' = "append"
  /\ UNCHANGED <<exists, header, slots, synced, slot_count, records, committed,
                 faults>>

WriteRecord ==
  /\ pc = "opened" /\ job = "append"
  /\ slots' = [slots EXCEPT ![header.write_pos] = record]
  /\ Return("record")
  /\ UNCHANGED <<exists, header, synced, records, committed>>

WriteRecordFails ==
  /\ pc = "opened" /\ job = "append"
  /\ Return("idle")
  /\ UNCHANGED <<exists, header, slots, synced, records, committed>>

\* write_all fails after part of the record was written.
ShortWrite ==
  /\ pc = "opened" /\ job = "append"
  /\ faults < MaxFaults
  /\ faults' = faults + 1
  /\ slots' = [slots EXCEPT ![header.write_pos] = Torn]
  /\ pc' = "idle"
  /\ UNCHANGED <<exists, header, synced, slot_count, job, records, record, committed>>

\* Mutant: a full ring counts its records from zero again.
CountWraps(h) ==
  [h EXCEPT !.write_pos = (h.write_pos + 1) % h.slot_count,
            !.valid_count = (h.valid_count + 1) % h.slot_count]

AdvancedHeader(h) ==
  [h EXCEPT !.write_pos = (h.write_pos + 1) % h.slot_count,
            !.valid_count = IF h.valid_count < h.slot_count
                              THEN h.valid_count + 1 ELSE h.slot_count]

WriteHeader ==
  /\ pc = "record"
  /\ header' = AdvancedHeader(header)
  /\ committed' = committed \cup {record}
  /\ Return("header")
  /\ UNCHANGED <<exists, slots, synced, records>>

WriteHeaderFails ==
  /\ pc = "record"
  /\ Return("idle")
  /\ UNCHANGED <<exists, header, slots, synced, records, committed>>

SyncData ==
  /\ pc = "header"
  /\ synced' = [header |-> header, slots |-> slots]
  /\ Return("idle")
  /\ UNCHANGED <<exists, header, slots, records, committed>>

SyncFails ==
  /\ pc = "header"
  /\ Return("idle")
  /\ UNCHANGED <<exists, header, slots, synced, records, committed>>

-----------------------------------------------------------------------------
(* Start, load and faults *)

\* load_iface_histogram / load_device_histogram open each ring that exists
\* with the configured capacity, then read it.
Start(n) ==
  /\ pc = "down"
  /\ slot_count' = n
  /\ pc' = IF exists THEN "open" ELSE "idle"
  /\ job' = "load"
  /\ UNCHANGED <<exists, header, slots, synced, records, record, committed, faults>>

\* read_ring_records: one record that does not decode quarantines the ring.
Load ==
  /\ pc = "opened" /\ job = "load"
  /\ IF Decodes(ReadSlots(header, slots, header.slot_count))
       THEN UNCHANGED <<exists, header, slots, synced>>
       ELSE NoFile
  /\ Return("idle")
  /\ UNCHANGED <<records, committed>>

\* The process dies; the page cache survives.
Kill ==
  /\ pc # "down"
  /\ records' = <<>>
  /\ Return("down")
  /\ UNCHANGED <<exists, header, slots, synced, committed>>

\* Each part that was not synced is kept, lost or torn on its own.
PowerLoss ==
  /\ pc # "down"
  /\ faults < MaxFaults
  /\ faults' = faults + 1
  /\ pc' = "down"
  /\ records' = <<>>
  /\ header' \in {header, synced.header}
  /\ slots' \in {s \in [Slots(header.slot_count) -> Slot] :
       \A i \in Slots(header.slot_count) :
         \/ s[i] \in {slots[i], synced.slots[i]}
         \/ s[i] = Torn /\ slots[i] # synced.slots[i]}
  /\ synced' = [header |-> header', slots |-> slots']
  /\ UNCHANGED <<exists, slot_count, job, record, committed>>

Open == OpenCreate \/ OpenQuarantine \/ OpenExisting \/ OpenMigrate
Migrate == MigrateRename \/ MigrateFails
Append1 == StartAppend \/ WriteRecord \/ WriteRecordFails \/ ShortWrite \/ WriteHeader
           \/ WriteHeaderFails \/ SyncData \/ SyncFails

Next ==
  \/ Open
  \/ Migrate
  \/ Append1
  \/ Load
  \/ \E n \in Capacities : Start(n)
  \/ Kill
  \/ PowerLoss

Spec == Init /\ [][Next]_vars

-----------------------------------------------------------------------------
Contents == IF exists THEN ReadSlots(header, slots, header.slot_count) ELSE <<>>
Readable == {Contents[i] : i \in DOMAIN Contents}

\* A header written by an append or by a migration is one that the next
\* open accepts: ring_size_bounds never fails, so no ring becomes a file
\* that can neither be opened nor quarantined.
HeaderAccepted == exists => Accepted(header)

\* A reader gets the committed records oldest first: after any number of
\* wraps, migrations, failed writes and kills only a record whose append
\* was interrupted (it overwrote the oldest slot of a full ring) may be out
\* of place.  restore_iface_bucket and restore_device_bucket push the
\* records in this order and trim from the front.  (A power loss may keep a
\* record and lose the header that was written after it.)
Chronological ==
  faults = 0 => \A i, j \in DOMAIN Contents :
    i < j /\ {Contents[i], Contents[j]} \subseteq committed =>
      Contents[i] < Contents[j]

\* A power loss costs the slots written since the last sync, or makes the
\* ring undecodable; if it still decodes every other record is readable.
PowerLossIsLocal ==
  [][PowerLoss /\ exists /\ Decodes(Contents') =>
       \A i \in Slots(synced.header.valid_count) :
         slots[i] = synced.slots[i] => synced.slots[i] \in Readable']_vars

\* As long as no write was torn or lost, the ring implements RecentRecords:
\* kills, failed writes and interrupted migrations never drop a committed
\* record unless it is the oldest of a full ring, and migration keeps the
\* newest ones.
Ring == INSTANCE RecentRecords WITH
  Records <- Record,
  kept <- Readable \cap committed,
  capacity <- IF exists THEN header.slot_count ELSE slot_count

KeepsNewest == Ring!Init /\ [][faults' = 0 => Ring!Next]_(Ring!vars)
=============================================================================
